# Heterogeneous Accelerator Federation: TLA+ specifications

This directory specifies the federation in TLA+, checks it with TLC on small
instances and proves its main safety properties with TLAPS for all instances.
Line numbers and names refer to the sources in `src/`; `PROJECT.json` maps every
definition to the lines it models.

## The system

A *coordinator* keeps the authoritative state of a *federation*: which
accelerators (GPUs and the like) are members and in which lifecycle state, the
policy, the registered workloads, compatibility decisions and migration plans.
*Agents* on the nodes discover devices through *adapters* and advertise them
over a framed TCP protocol; command-line clients ask for decisions and plans.

| Part | Sources | Threads and state | Model |
|---|---|---|---|
| Federation core | `federation/federation.cpp`, `authority.cpp` | any caller's thread, one exclusive lock; epoch, generation, policy, members, workloads, decisions, plans | `Federation`, `Callers` |
| Lifecycles | `model/accelerator.cpp`, `membership.cpp`, `migration.cpp` | tables | `Lifecycle` |
| Audit | `engine/audit.cpp` | pure | `Audit` |
| Durable store | `persist/file_store.cpp`, `store.cpp` | writer under the federation's lock, readers in other processes; a file, a temporary, a backup | `AtomicStore`, `FileStore` |
| Control plane | `net/control_plane.cpp` | one thread per connection; table of sessions with its own lock | `ControlPlane` (on `Federation`) |
| Server | `net/server.cpp` | accept thread, detached workers, the thread in `stop()`; sockets, counter | `Server` |
| Connection | `net/client.cpp`, the loop in `net/server.cpp`, `net/frame.cpp` | one client, one worker, two byte streams | `Channel` |
| Agent program | `apps/agent_main.cpp` | one thread | `AgentProgram` (on `Channel`), `Adapters` |
| Engines | `engine/*.cpp`, `core/version.cpp` | pure | `Engines`, `Portability`, `Ranking` |
| Documents | `model/*.cpp`, `federation/snapshot.cpp` | pure | `Documents`, `Sorting` |
| Adapters | `adapters/*.cpp` | pure, on what the CUDA runtime answers | `Adapters` |

## Modules

**State machines**

- `Lifecycle`: the legal transitions of members and plans.
- `Federation`: the core. Every operation runs under the exclusive lock up to and
  including its write of the snapshot, so it is one action that ends in `Persist`.
  A refused operation, or one that re-asserts what holds, is a stuttering step.
  `Crash` loses memory between any two operations; `Open` starts again from the
  store. All mutating operations of the class are actions; the rest are reads.
- `Callers`: `Federation` with callers that read it, build a claim and present it
  later, any number of times and across restarts.
- `Audit`: what `audit_snapshot` reports of a snapshot.
- `FileStore`: `write()`, `read()` and `erase()`, one action per operation on the
  file system. Every operation may fail, the writer may die between any two, and
  a reader is between sizing and reading the file. `AtomicStore` is what
  `persist/store.hpp` promises: a payload is replaced only by the one being
  written and removed only by `erase()`. It names the one weakness it allows: in an
  *exposed* window of a write the payload may be lost, and then it, or one an
  erasure missed, is the only payload of the past that may come back.
- `ControlPlane`: extends `Federation` with connections. A handler is a *task* of
  its connection's thread; each acquisition of the sessions lock and each call of
  the federation is one step, so HELLO is a check and a later insert, an
  advertisement is up to three calls per device, and the end of a connection is a
  removal, a listing and one call per member. A single-call handler is one action.
  The claims are the peers': which generations, and in a TRANSITION request whether
  the member's agent and boot, are compared is what the request says, so a session
  may move another agent's member. Two variables that only the properties mention
  record the exceptions: `released`, the boots that gave their session up, and
  `adopted`, the members another boot's session has put to work.
- `Server`: the accept loop, workers and `start()`/`stop()`. The steps follow the
  mutex and the atomics: the erasure of an entry, the decrement of `active_` and
  the notification are separate. A worker looks at `stopping_` before it reads a
  request and nowhere else, so `stop()` may find it reading, handling or sending.
  A failed `accept()` changes nothing and is a stuttering step.
- `Channel`, `AgentProgram`: a connection with its two byte streams, and the agent
  program at one end. Requests time out while their answers are on the way; a
  header read without its payload leaves the stream between frames.

**Pure parts**, as operators on values

- `Portability`: the classes, their strength and what they cost.
- `Engines`: lookup, requirement matching, portability, eligibility, planning and
  versions.
- `Ranking`: scores and the order of candidates.
- `Sorting`: what `std::sort`, `std::stable_sort` and `std::set` return, said by
  counting: an element comes after as many others as are before it.
- `Documents`: validation on acceptance, canonical form and identity, and what
  `deserialize()` accepts, for every kind of document in a snapshot.
- `Adapters`: what each adapter says of a device, and what an agent advertises.
- `Cases`, and on it `EngineCases`, `RankingCases`, `AdapterCases`,
  `DocumentCases`: an input is an initial state, its answer a step, and the
  properties are about the two.

**Instances**: `MCMigration`, `MCCallers`, `MCFileStore`, `MCControlPlane`, and
`MCFunctions`, which enumerates the inputs of the pure parts. `Server` and
`AgentProgram` are run directly.

**Proofs**: `FederationProofs` (types, epochs, retirement, incarnations,
generations, stamps, decisions, plans, durability, what the audit finds),
`ControlPlaneProofs` (the control plane, and callers that hold claims),
`ServiceProofs` (file store and server), `AgentProofs`, `EngineProofs`,
`DocumentProofs` (sorting, ranking, searching, policies, capability sets,
snapshots), `AdapterProofs` (what agents advertise) and `ShipmentProofs` (moves
between the devices they advertise, from `EngineProofs` and `AdapterProofs`).

### How they fit together

`Federation` assumes an atomic store. `FileStore` is shown to implement
`AtomicStore`, and where renaming over a file works (everywhere but on some
platforms) it never enters the window in which `AtomicStore` may lose a payload.
`ControlPlane` implements `Federation` (`PlaneImplementsFederation`), so what is
proved of the federation holds of the two together. `Verdict` and `Portable`, the
constants by which `Federation` knows the engines, are in `MCMigration` tables
that TLC shows equal to `Engines` (`TablesAgree`). `AgentProgram` has the handlers
reduced to what they do to one session and one device.

### What is abstracted

- An accelerator identity is derived from the physical device, the agent boot and
  the device generation, so those are functions of the identity. In general an
  identity or digest is the content it is computed from.
- A history is its length: the code sorts it and cuts it at 64 entries.
- Eviction of recorded decisions keeps an arbitrary choice: `evaluate` evicts by
  wall-clock age and `plan_migration` by hash.
- `Generation::next` saturates at `MaxValue`, which is 2^64-1 in the code. The
  properties that compare generations exempt the saturated value.
- `open()` is modelled with a configured federation identity. With a nil one it
  invents a fresh identity and refuses any existing store.
- A process may die; the machine does not. The code does not `fsync`, so what
  survives a power failure is up to the file system.
- The reasons of a plan are whether there are any and whether a reader takes them
  (`Federation`), or their lengths (`Documents`). A snapshot with a reason that is
  too long is stored and cannot be decoded (`Decodable`).
- A capability set without records, and one with another vendor than the
  descriptor's, comes only through `update_capabilities` (`Advertisable`).
- A damaged frame is one that is not `sound`; the checksums are taken to find it.
- Tokens and names are numbers in byte order, with one other spelling each;
  memory is counted in GiB; reason texts are their lengths, or left out.

## Runs

### Passing

| Run | Question | Bounds |
|---|---|---|
| `migration` | Does work survive the authority it was made under; is what readers see stored; are current decisions reproducible; does the audit find nothing but drift? | two accelerators of two agents, three capability sets, one of them empty, two policies, profiles and plan identities, one recorded decision; two mutations and any evaluations, ageing and restarts after the set-up |
| `callers` | Is a claim accepted only where its holder saw the present; do epochs, retirements and stamps survive failed writes and crashes? | one accelerator, two capability sets and policies, one caller among others, two shapes of claim; three epochs, four generations |
| `filestore` | Can a reader or a restart see a torn or altered snapshot? | three payloads, two of equal length; every operation may fail |
| `sessions` | Do handlers and sessions stay together when connections overlap and the coordinator dies? | one device under two boots of its agent, two connections, TRANSITION to three states, counters saturating at 1 |
| `session_ends` | Is everyone fenced who has lost a session, and does every handler end? | two devices of one boot, two connections, no persistence |
| `server` | Do limit, stop and workers fit together? | three peers, limit two |
| `channel` | Do answers match requests, and does each end notice that the other is gone? | six requests, three unread answers |
| `functions` | Do the pure parts mean what they should? | the inputs listed in `MCFunctions`, 208,306 of them |

Why the bounds are enough. `migration` starts from states the set-up leads to,
because a plan needs about fifteen operations to be committed: with no plan, or
one `Validated`, `Transferring` or `Verified`; every other stage is one mutation
away, and two mutations let a policy change, a crash or a competing plan meet each
and let a plan go on after it has ended. In
`sessions` the saturated counters (`MaxValue` 1) make the epochs of all runs
equal, which is the worst case for stale sessions and keeps the state space
finite; two connections suffice for a HELLO race, and two boots of one device for
supersession. In `session_ends` two devices are needed for a loop that may be left
early; with one boot there are no requests of other agents, which `sessions` has.
Three peers with a limit of two reach the refusal, and a restart with
workers of the last run. `functions` gives the limits of the readers (`MaxToken`,
`MaxName`, `MaxText` and the others) the value 1 or 2, so that inputs lie on both
sides of each, and varies what an operator reads around a decision, one aspect at a time; what it says is proved for all inputs of the
types given below.

Deadlock is checked except in `channel`, where the program ends, in `functions`,
where every input has one answer, and in `migration`, where a coordinator that has
died does not start again from a snapshot it cannot decode.

### Liveness and fairness

The federation itself is passive and promises no progress. Elsewhere:

- `ControlPlane`: weak fairness of each connection's `ThreadStep`. A thread inside
  a handler waits for nothing but locks that are held briefly. Peers promise
  nothing. Shown: `OrphansAreFenced`, `ThreadsComeToRest`.
- `Server`: weak fairness of the accept thread, of the thread in `stop()`, and of
  what a worker does without its peer. `accept()` and reads have timeouts and
  `wait_for` has one, so these threads always go on; an `accept()` that fails is
  taken to succeed later. `Written` is not fair: `send` has no timeout and a peer
  need not read. Shown: `StopReturns`, `PeersAreAnswered`, and `WorkersEnd`, which
  is conditional on the peer: a worker ends after `stop()` unless it stays in
  `send` for good.
- `AgentProgram`: weak fairness of both threads. A request that is not answered
  times out, a worker's read of a closed connection fails, and the bound on
  heartbeats ends the program's loop. Shown: `DeadAgentsAreFenced`,
  `AgentsNotice`.

### Disagreements

Each of these runs states what a document or comment says, and TLC finds a
behaviour of the code that contradicts it. `PROJECT.json` quotes the lines.
The last row is a conjunct of a passing run, which holds and contradicts a comment.

| Run | What the code does |
|---|---|
| `audit` | ordinary operations lead to states the audit reports, after which the coordinator exits with code 3; `StructurallySound` says which checks never fail, all but the nine of `DriftCodes` |
| `history_overflow` | a commit lets the source's history grow to 65 entries; the snapshot is then unreadable and the coordinator cannot restart |
| `workload_revision` | a plan made for a replaced workload revision still advances and commits |
| `goodbye` | the members of an agent that says GOODBYE stay Active; so may one that was fenced, once another agent's session activates it |
| `functions` | nothing in the core vocabulary is Unknown of the partially evidenced device: every profile closes the same namespaces (`ShippedDevicesKeepTheirState`) |

## Proofs

The theorems hold for every set of accelerators, policies, workloads, claims,
plan identities, payloads, connections, callers and requests, every `Verdict` and
`Portable`, every limit, and with or without failing writes unless stated. They
rest on named assumptions: `BoundsAssumption`, `InputAssumption`, `AbsentValues`
(`Federation`), `StoreAssumption` (`FileStore`), `LimitAssumption` (`Server`),
`LimitsAssumption` (`Documents`),
`SessionAssumption` (`ControlPlane`), `SequenceAssumption` and
`NoRequestAssumption` (`Channel`). TLC evaluates all of them on the instances.
The theorems about the control plane also assume that `Claims` contains the
claims its handlers make.

The theorems about the pure parts are about `EnginesSpec`, `DocumentsSpec`,
`AdaptersSpec` and `ShipmentsSpec`: the steps of the `Cases` modules from any input
of a type, of which those that `functions` enumerates are a few.

- Engines: any capability records, requirements, policy and versions
  (`Moves`, `Fits`, `VersionTriples`).
- Rankings: any number of candidates with any scores; none is a candidate twice,
  as `Federation` ranks its members (`Rankings`).
- Snapshots and records: policies, descriptors, workloads, records and namespaces
  of any length; capability sets as `set_records` makes them, decisions and plans
  as `refresh_decision_identity` and `refresh_migration_identity` make them, with
  reasons and texts of any length (`Snapshots`, `RecordLists`).
- Agents: any option, and any number of CUDA devices with any answers of the runtime
  (`AgentStarts`, `CudaMachines`), of which is assumed that free memory is at most
  the total, that the minor compute capability is a digit, and that two devices
  have two UUIDs unless the UUID is all zeros.
- Shipments: any workload and policy of the engines' types, between any two devices
  that agents on such machines advertise (`Shipments`).

| Theorem | Statement |
|---|---|
| `TypesHold` | `Spec => []TypeOK` |
| `EpochsRise` | with `PersistMode = "mutation"`, `Spec => EpochRises` |
| `RetirementsLast` | `Spec => RetiredForever` |
| `OneLiveIncarnationHolds` | `Spec => []OneLiveIncarnation` |
| `GenerationsAdvance` | `Spec => AuthorityAdvances` |
| `MembersAreStamped` | `Spec => []MembersFollowAuthority` |
| `CurrentDecisionsReproduce` | `Spec => []DecisionsReproducible` |
| `OldWorkIsGone` | `Spec => []NoWorkFromOldAuthority` |
| `EndedPlansStay` | `Spec => TerminalPlansStay` |
| `ReadersSeeTheStore` | with `PersistMode = "mutation"` and no failing writes, `Spec => []ReadersSeeDurableState` |
| `SnapshotsAreSound` | `Spec => []StructurallySound` |
| `ClaimsSeeThePresent`, `ClaimsSeeTheCapabilities` | with `PersistMode = "mutation"`, `AcceptedClaimsSawThePresent` and `ScopedClaimsSawTheCapabilities` of `Callers` |
| `ReadersGetCompletePayloads`, `SnapshotsSurvive` | the two invariants of `FileStore` |
| `StoreImplemented` | `StoreSpec => Contract!Spec`: `FileStore` implements `AtomicStore` |
| `AtomicWhereRenamesSucceed` | without failing renames the target is kept or replaced whole |
| `LimitHolds`, `StopLeavesNoSocketOpen` | `WorkersWithinLimit` and `StopClosesEveryone` of `Server` |
| `PlaneImplementsFederation` | `PlaneSpec => Spec` |
| `HandlersHaveTheirSession`, `WorkersAreCovered`, `PlaneKeepsOneIncarnation` | `HandlersKeepTheirSession`, `WorkersHaveSessions`, `OneLiveIncarnation` under `PlaneSpec` |
| `AnswersMatch`, `HandlersSeeOrder`, `HeartbeatsMeanEstablished` | `AnswersMatchRequests`, `HandledInOrder` and `ReadyMeansEstablished` of `AgentProgram` |
| `VersionsOrdered` | `EnginesSpec => []VersionsAreOrdered` |
| `PlannedMovesSupported` | `EnginesSpec => []PlannedMovesAreSupported` |
| `EligibleMovesPlanned` | `EnginesSpec => [](VendorComparable => EligibleMovesArePlanned)` |
| `IneligibleFinal` | `EnginesSpec => [](IneligibleIsFinal /\ IneligibleStands)` |
| `RankingsIgnoreOrder` | `DocumentsSpec => []RankingIgnoresOrder` |
| `CanonicalReloads` | `DocumentsSpec => []ReloadsExactlyWhenCanonical` |
| `SetsAnswer` | `DocumentsSpec => []CapabilitySetsAnswer` |
| `AgentsDescribe` | `AdaptersSpec => []AgentsDescribeTheirHardware` |
| `ShippedKeepState` | `ShipmentsSpec => []ShippedDevicesKeepTheirState` |
| `EligibleIsMet`, `EligibleProven` | `EnginesSpec => []EligibleMeansMet`, `EnginesSpec => [](NumbersCompared => EligibleMeansProven)` |

The arguments:

- **Types.** `TypeOK` lets a history exceed the limit by one and is not inductive:
  a second commit could add another entry. `TypeInv` adds `HistoryBounded`: only
  a `Draining` member exceeds the limit. A commit pushes only on an `Active` or
  `Degraded` source and leaves it `Draining`; each way out of `Draining` resizes.
- **Epochs.** `EpochDurable` says that while a process runs the store holds its
  epoch. `open` fails if its own write fails, and no later operation changes the
  epoch. In deferred mode the first step of this argument is missing.
- **Retirement.** `RetirementKnown` says that a running federation knows every
  retirement in the store. Mutations keep it because no transition leaves
  `Retired`, recovery because a retired member is not live, and a write because
  the store gets what memory holds.
- **Incarnations.** `IncarnationInv` states the property of memory and of the
  stored snapshot, since recovery reads the latter. Only `ObserveNew` makes an
  incarnation known, and it retires the others of that device and agent.
- **Stamps.** `StampInv` adds that the stored members carry the stored policy,
  which recovery takes over; the epoch it stamps anew.
- **Decisions.** `ReproducedInv`: a decision of the present generation is the one
  evaluating again would give. Every mutation advances the generation
  (`MutateAdvances`), and what does not advance it can only age evidence.
- **Plans.** `PlansStamped` covers those in flight: a policy change and recovery
  abort them. For ended ones `PlanGenerations` says that no plan is ahead of the
  generation, so a plan recorded now cannot take the identity of an old one, and
  `SettledAgree` that memory agrees with the store on the plans stored as ended.
- **Audit.** `SoundInv` states the structure of memory and of the stored snapshot
  alike, since recovery copies one into the other. Members and workloads are never
  removed, a history once begun is never empty, and a policy change drops the
  decisions. That a stored member carries the stored epoch is what makes recovery
  stamp none from the future.
- **Callers.** `CallersInv`: every held claim is `Informed`. Its epoch is one the
  federation has had; in the same run, a claim of the present generation was built
  from the present state, and one of the present capability generation saw the
  present capabilities. Steps keep it because what changes moves a generation, and
  a restart because `EpochDurable` gives it a new epoch. With deferred persistence
  that last step is missing.
- **File store.** `WriteInv` says what each step of `write()` relies on: the
  temporary is complete before any rename, the target is untouched until then, and
  between the two renames of the fallback the backup is the old target. The
  refinement maps the value of the atomic store to the target, except in that
  window, where it is the old payload and is exposed; what may come back is the
  backup while the target is missing, and a backup has always been a target.
- **Server.** `LimitInv`: the accept thread has seen room for the connection in
  its hand, and only it makes `active_` larger; the counted workers are exactly
  `active_` many. `Joined` and `Tracked`: `stop()` closes sockets after the accept
  thread has ended, and a served connection is in the table until then.
- **Control plane.** `PlaneInv`: no thread outlives the process, and an
  advertisement's session stays in the table because only its own thread changes
  that entry. `WorkersInv`: a member becomes Active only in a step of a thread
  that has its session; the end of a session hands its members to a thread that
  will list and fence them; only GOODBYE and a second HELLO give them up, and only
  a TRANSITION request of another boot puts one to work without them.
- **Agent.** `AgentInv`. `SequencesIdentify`: whatever is under way with the same
  sequence number, in either stream, belongs to one request, and the next number
  is unused; so a late answer cannot be taken for another. `HandledSoFar`: the
  worker has handled nothing beyond `last_request_sequence`. `ReadyInv`: until the
  program leaves its loop no GOODBYE is under way, so an acceptance of the
  advertisement, once it is under way, stays true while the connection is served.
- **Engines.** The order of versions compares prereleases at the first position
  where they differ; that there is a first one is well-foundedness of the natural
  numbers, and the cases of two and of three versions then follow by comparing
  their positions. The others go through the verdicts: each outcome is traced back
  to the findings that exclude it. Two have a hypothesis. `VendorComparable`: the
  policy has no list of classes, or the destination has a supported vendor record.
  Without one the decision reads no vendor and the planner reads what is recorded,
  so that they may classify a move differently and only one class may be listed.
  `NumbersCompared`: a comparing requirement and the record it meets are integers.
  `EligibleMeansProven` reads numbers as intervals and means nothing else;
  `EligibleMeansMet` has no such hypothesis. `IneligibleStands` is what TLC can only
  sample: the verdict stands for every capability set that keeps what is known,
  whatever it adds, because a failed requirement or rule has read only what is
  known (`RequirementsStayFailed`, `PolicyStaysFailed`).

- **Sorting.** Because `Sorting` counts, no induction is needed: under a total
  order the number of elements below grows along it, so there is exactly one
  element for each place (`OneForEachPlace`), the result is a permutation in order,
  and two lists of the same elements sort to the same list. A stable sort is the
  sort by the order with ties broken by position.
- **Ranking.** `RanksBefore` is a total order on entries of different accelerators:
  equal scores and strengths leave the identity to decide. So the ranked list is
  the one sorted list of the set of entries.
- **Searching.** `lower_bound` halves a range and is a recursive function; that
  there is such a function on all ranges, and that on a list in order it divides
  what is less from what is not, is shown by the shortest range for which it would
  fail.
- **Policies.** Respelling and sorting a list again changes nothing. So the digest
  over what is written equals the one over what is read exactly when the lists
  already were what canonicalisation makes of them, which by the sort is to say
  that their spelling is canonical and that they name nothing twice.
- **Snapshots.** Document by document, what the reader checks beyond `validate()`
  is compared with `Reloadable`, which is stated without the reader.
- **Capability sets.** Stored records are sorted by resolved name, without repeats,
  so that the search finds the one with a name if there is one; storing them again
  changes nothing, which is why the set reads back as itself.
- **Agents.** Every record of a description is traced to the constructor that made
  it (`Alike`), so each has the kind of its key. Real devices are
  numbered by their position, and are told apart by it or by their UUID.
- **Shipments.** What a device advertises determines the class: both ends support
  recompilation and neither supports checkpoints or live transfer (`Portrays`), so
  the classification leaves two classes, and the steps of a plan follow from them.

Only model-checked:

- all liveness (`OrphansAreFenced`, `ThreadsComeToRest`, `StopReturns`,
  `PeersAreAnswered`, `WorkersEnd`, `DeadAgentsAreFenced`, `AgentsNotice`): the
  prover does not do fairness;
- `TablesAgree`: a statement about the instance.

## Known limits of the code

In the model, without a run of their own:

- With failing writes readers see state that is not durable, which the README of
  the repository excludes without that condition. A refused plan of a move onto
  itself advances the generation without a write, so `ReadersSeeDurableState`
  leaves the generation out.
- With deferred persistence a run that dies early is followed by one with the same
  epoch.
- A restored member can be made Active by a transition although it requires
  revalidation, and a TRANSITION request of one agent can activate the member of
  another (`adopted`), also when that one's session is gone.
- While the fallback of `file_store.cpp` is between its renames, the store has no
  file under its name, and a crash or a failed restore leaves it so; the next
  start finds a fresh federation and the backup is never read. The comment there
  says the sequence "never leaves the target missing". A backup whose removal
  failed can come back when a later write finds no target and fails as well.
- After GOODBYE, or a second HELLO of another boot, the old boot's member stays
  Active and blocks a new boot of the device (`DuplicateLive`) until a restart.
- `require_real_evidence_for_active` is tested in one of the three ways a member
  becomes Active; a Degraded member and a TRANSITION request pass.
- `stop()` may return with workers running, and a worker may notify after that.
- A policy, workload or descriptor can be accepted that cannot be read back, and
  then makes the whole snapshot unreadable, as can an abort reason that is too long,
  and a capability update that leaves a member without records or with another
  vendor; `ReloadsExactlyWhenCanonical` lists the conditions, up to the limits on
  the size of a snapshot as a whole.
- A policy's minimum runtime or memory is met by a device whose closed namespace
  has no record of it. An eligible `CheckpointRestore` move may be refused by the
  planner, which does not use the decision's outcome. So may an eligible move to a
  device without a supported vendor record, if the policy lists classes.
- A prerelease with one more, numeric, identifier sorts below its prefix
  (`1.0.0-a.1` before `1.0.0-a`).
- With several CUDA devices each reports the free memory of the current one; if
  the memory query fails, all CUDA devices of the machine are lost. The property
  bounds free memory by the total for a device that is alone.

## Not modelled

- **Byte layouts, hashing, identifiers** (`core/bytes.cpp`, `hash.cpp`, `ids.cpp`,
  `net/messages.cpp`, the layouts in `model/*.cpp`): an identity is its content and
  a written document is the document; only what a reader refuses is modelled, and
  of that not the limits on the size of a whole snapshot (a million documents of a
  kind, 512 MB).
- **Sockets** (`net/socket.cpp`): operating-system calls; streams are sequences of
  frames. That `stop()` closes a socket another thread is using is a race below
  this level.
- **Queries** (`render_query` and the read operations): they change nothing.
- **Events** (`federation/events.cpp`): dispatched after the lock is released,
  and never read back.
- **The table of extension keys** (`capability_key.cpp`): it is searched without
  the lock that guards insertion and holds at most 4096 names; keys are values
  here.
- **CUDA execution proof, device inventory, availability statements**: external
  hardware calls and text.
- **Coordinator program and command line**: calls of modelled operations in a
  fixed order, and formatting.
