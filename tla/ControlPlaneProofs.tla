------------------------- MODULE ControlPlaneProofs -------------------------
(***************************************************************************)
(* The control plane implements the federation: whatever connections,      *)
(* sessions and half-finished handlers do, the federation under them takes *)
(* only steps of its own specification, so what FederationProofs proves    *)
(* holds under the control plane as well.                                  *)
(*                                                                         *)
(* Then the callers of a federation: what an accepted claim says about the *)
(* state its holder read, for coordinators that write a snapshot per       *)
(* mutation.                                                               *)
(***************************************************************************)
EXTENDS ControlPlane, Callers, FederationProofs

(* The claims the control plane makes.                                     *)
IsPlaneClaim(claim) ==
  \/ claim = AnyClaim
  \/ \E a \in Accelerators, e \in Gens :
       claim = [AnyClaim EXCEPT !.epoch = e, !.agent = Agent[a], !.boot = Boot[a]]

(* An advertisement in progress: its devices are accelerators of the       *)
(* session that the handler looked up, which is still in the table.        *)
AdvertisementOK(c) ==
  LET t == task[c] IN
    /\ {"op", "todo", "device"} \subseteq DOMAIN t
    /\ t.todo \subseteq Accelerators /\ t.device \in t.todo \cup {NoMember}
    /\ IsAgent(sessions[c]) /\ sessions[c].epoch = epoch
    /\ \A a \in t.todo : Owner(a) = sessions[c].identity

(* No thread survives the process, and what threads and the table name is  *)
(* known.                                                                  *)
PlaneInv ==
  /\ DOMAIN task = Connections /\ DOMAIN sessions = Connections
  /\ mode = "down" => \A c \in Connections : task[c] = Closed
  /\ \A c \in Connections :
       /\ sessions[c] # NoSession => sessions[c].identity \in Identities \cup {Inspector}
       /\ task[c].op = "hello" => task[c].identity \in Identities \cup {Inspector}
       /\ task[c].op = "advertise" => AdvertisementOK(c)

-----------------------------------------------------------------------------
(* The federation's steps.                                                 *)

(* A lifecycle step has a lifecycle state as its target.                   *)
LEMMA TransitionMutates ==
  ASSUME NEW claim, NEW a, NEW target, Transition(claim, a, target)
  PROVE  Mutate(claim) /\ a \in Accelerators
<1>1. a \in Accelerators /\ LegalTransition(members[a].state, target)
  BY Zenon DEF Transition, Known
<1>2. target \in MemberStates
  BY <1>1 DEF LegalTransition, MemberStates
<1> QED
  BY <1>1, <1>2, Zenon DEF Mutate

(* Claims of the peers and of a thread that fences are claims of the plane.*)
LEMMA PlaneClaimsCover ==
  /\ IsPlaneClaim(AnyClaim)
  /\ epoch \in Gens => \A a \in Accelerators : IsPlaneClaim(FenceClaim(a))
BY Zenon DEF IsPlaneClaim, FenceClaim

(* What a thread or a peer's request may do to the federation.             *)
FederationCall ==
  \/ UNCHANGED vars
  \/ \E claim : IsPlaneClaim(claim) /\ Mutate(claim)
  \/ \E w \in Workloads, a \in Accelerators, s \in Accelerators \cup {NoSource} : Evaluate(w, a, s)

(* The handlers' threads call the federation under claims of the plane.    *)
LEMMA ThreadCalls ==
  ASSUME TypeInv, PlaneInv, NEW c \in Connections, ThreadStep(c)
  PROVE  FederationCall
<1>1. CASE HelloInsert(c) \/ ListMembers(c)
  BY <1>1, Zenon DEF HelloInsert, ListMembers, FederationCall
<1>2. CASE AdvertiseObserve(c)
  <2>1. CASE UNCHANGED vars
    BY <2>1, Zenon DEF FederationCall
  <2>2. ASSUME NEW a \in task[c].todo, NEW caps \in Capabilities,
               ObserveNew(AnyClaim, a, caps, FALSE) \/ ObserveAgain(AnyClaim, a, caps, FALSE)
        PROVE  FederationCall
    <3>1. a \in Accelerators
      BY <1>2 DEF AdvertiseObserve, PlaneInv, AdvertisementOK
    <3>2. FALSE \in BOOLEAN
      OBVIOUS
    <3> QED
      BY <2>2, <3>1, <3>2, PlaneClaimsCover, Zenon DEF FederationCall, Mutate
  <2> QED
    BY <1>2, <2>1, <2>2, Zenon DEF AdvertiseObserve, RefuseClaim
<1>3. CASE AdvertiseTransition(c)
  <2>1. PICK a, target : Transition(AnyClaim, a, target) \/ UNCHANGED vars
    BY <1>3, Zenon DEF AdvertiseTransition, CallTransition, RefuseClaim
  <2> QED
    BY <2>1, TransitionMutates, PlaneClaimsCover, Zenon DEF FederationCall
<1>4. CASE FenceMember(c)
  <2>1. PICK a : Transition(FenceClaim(a), a, "Fenced") \/ UNCHANGED vars
    BY <1>4, Zenon DEF FenceMember, CallTransition
  <2>2. CASE UNCHANGED vars
    BY <2>2, Zenon DEF FederationCall
  <2>3. CASE Transition(FenceClaim(a), a, "Fenced")
    <3>1. mode = "up"
      BY <2>3, Zenon DEF Transition, ValidateAuthority
    <3>2. epoch \in Gens
      BY <3>1 DEF TypeInv, TypeOK
    <3> QED
      BY <2>3, <3>2, TransitionMutates, PlaneClaimsCover, Zenon DEF FederationCall
  <2> QED
    BY <2>1, <2>2, <2>3
<1> QED
  BY <1>1, <1>2, <1>3, <1>4, Zenon DEF ThreadStep

(* So do the requests of peers.                                            *)
LEMMA PeerCalls ==
  ASSUME TypeInv, PlaneInv, NEW c \in Connections, PeerStep(c)
  PROVE  FederationCall
<1>1. CASE \/ Connect(c) \/ Goodbye(c) \/ Disconnect(c)
           \/ \E id \in Identities \cup {Inspector} : HelloCheck(c, id)
           \/ \E devices \in SUBSET Accelerators : AdvertiseStart(c, devices)
  BY <1>1, Zenon DEF Connect, Goodbye, Disconnect, HelloCheck, AdvertiseStart, FederationCall
<1>2. ASSUME NEW a \in Accelerators, NEW target \in RequestedStates, TransitionRequest(c, a, target)
      PROVE  FederationCall
  <2>1. Transition(AnyClaim, a, target)
    BY <1>2, Zenon DEF TransitionRequest
  <2> QED
    BY <2>1, PlaneClaimsCover, TransitionMutates, Zenon DEF FederationCall
<1>3. ASSUME NEW w \in Workloads, NEW a \in Accelerators, NEW s \in RequestedSources,
             EvaluateRequest(c, w, a, s)
      PROVE  FederationCall
  <2>1. Evaluate(w, a, s) /\ s \in Accelerators \cup {NoSource}
    BY <1>3, Zenon DEF EvaluateRequest, Evaluate, Known
  <2> QED
    BY <2>1, Zenon DEF FederationCall
<1>4. IsPlaneClaim(AnyClaim)
  BY Zenon DEF IsPlaneClaim
<1>5. ASSUME NEW w \in Workloads, NEW s \in Accelerators, NEW d \in Accelerators, PlanRequest(c, w, s, d)
      PROVE  FederationCall
  BY <1>4, <1>5, Zenon DEF PlanRequest, FederationCall, Mutate
<1>6. ASSUME NEW w \in Workloads, NEW r \in Profiles, RegisterWorkloadRequest(c, w, r)
      PROVE  FederationCall
  BY <1>4, <1>6, Zenon DEF RegisterWorkloadRequest, FederationCall, Mutate
<1> QED
  BY <1>1, <1>2, <1>3, <1>5, <1>6, Zenon DEF PeerStep

(* A call neither ends the process nor changes the epoch.                  *)
LEMMA CallFrame ==
  ASSUME FederationCall, mode # "down"
  PROVE  mode' # "down" /\ epoch' = epoch
<1>1. ASSUME NEW w, NEW a, NEW s, Evaluate(w, a, s) PROVE mode' # "down" /\ epoch' = epoch
  BY <1>1, Zenon DEF Evaluate
<1> QED
  BY <1>1, MutateRuns, Zenon DEF FederationCall, vars, RunningStepOf

-----------------------------------------------------------------------------
(* Sessions and tasks.                                                     *)

(* A step of the thread of c that leaves the table alone.                  *)
LEMMA TaskStep ==
  ASSUME PlaneInv, NEW c \in Connections, NEW t, Become(c, t),
         mode' # "down", epoch' = epoch, sessions' = sessions,
         t.op = "hello" => t.identity \in Identities \cup {Inspector},
         t.op = "advertise" =>
           /\ {"op", "todo", "device"} \subseteq DOMAIN t
    /\ t.todo \subseteq Accelerators /\ t.device \in t.todo \cup {NoMember}
           /\ IsAgent(sessions[c]) /\ sessions[c].epoch = epoch
           /\ \A a \in t.todo : Owner(a) = sessions[c].identity
  PROVE  PlaneInv'
<1>1. DOMAIN task' = Connections /\ DOMAIN sessions' = Connections
  BY DEF PlaneInv, Become
<1>2. task'[c] = t /\ \A d \in Connections \ {c} : task'[d] = task[d]
  BY DEF PlaneInv, Become
<1>3. ASSUME NEW d \in Connections
      PROVE  /\ sessions'[d] # NoSession => sessions'[d].identity \in Identities \cup {Inspector}
             /\ task'[d].op = "hello" => task'[d].identity \in Identities \cup {Inspector}
             /\ task'[d].op = "advertise" => AdvertisementOK(d)'
  <2>1. CASE d = c
    BY <1>2, <2>1, Zenon DEF PlaneInv, AdvertisementOK, IsAgent
  <2>2. CASE d # c
    <3>1. task'[d] = task[d]
      BY <1>2, <2>2
    <3> QED
      BY <3>1, Zenon DEF PlaneInv, AdvertisementOK, IsAgent
  <2> QED
    BY <2>1, <2>2
<1> QED
  BY <1>1, <1>3, Zenon DEF PlaneInv

(* A step that replaces the session of c, between two handlers.            *)
LEMMA TableStep ==
  ASSUME PlaneInv, NEW c \in Connections, NEW t, NEW s, Become(c, t),
         mode' # "down", epoch' = epoch, sessions' = [sessions EXCEPT ![c] = s],
         s # NoSession => s.identity \in Identities \cup {Inspector},
         t.op # "hello", t.op # "advertise"
  PROVE  PlaneInv'
<1>1. DOMAIN task' = Connections /\ DOMAIN sessions' = Connections
  BY DEF PlaneInv, Become
<1>2. task'[c] = t /\ \A d \in Connections \ {c} : task'[d] = task[d]
  BY DEF PlaneInv, Become
<1>3. sessions'[c] = s /\ \A d \in Connections \ {c} : sessions'[d] = sessions[d]
  BY DEF PlaneInv
<1>4. ASSUME NEW d \in Connections
      PROVE  /\ sessions'[d] # NoSession => sessions'[d].identity \in Identities \cup {Inspector}
             /\ task'[d].op = "hello" => task'[d].identity \in Identities \cup {Inspector}
             /\ task'[d].op = "advertise" => AdvertisementOK(d)'
  <2>1. CASE d = c
    BY <1>2, <1>3, <2>1, Zenon
  <2>2. CASE d # c
    <3>1. task'[d] = task[d] /\ sessions'[d] = sessions[d]
      BY <1>2, <1>3, <2>2
    <3> QED
      BY <3>1, Zenon DEF PlaneInv, AdvertisementOK, IsAgent
  <2> QED
    BY <2>1, <2>2
<1> QED
  BY <1>1, <1>4, Zenon DEF PlaneInv

(* What is left of an advertisement.                                       *)
LEMMA ContinueStep ==
  ASSUME PlaneInv, NEW c \in Connections, task[c].op = "advertise", NEW a \in task[c].todo, NEW state,
         Continue(c, a, state), mode' # "down", epoch' = epoch, sessions' = sessions
  PROVE  PlaneInv'
<1> DEFINE t == task[c]
           More(u) == /\ {"op", "todo", "device"} \subseteq DOMAIN u /\ u.op = "advertise"
                      /\ u.todo \subseteq t.todo /\ u.device \in u.todo \cup {NoMember}
<1>1. AdvertisementOK(c)
  BY DEF PlaneInv
<1>2. {"op", "todo", "device"} \subseteq DOMAIN t /\ t.op = "advertise"
  BY <1>1, Zenon DEF AdvertisementOK
<1>3. More([t EXCEPT !.device = a, !.observed = state])
  BY <1>2
<1>4. More([t EXCEPT !.todo = @ \ {a}, !.device = NoMember, !.observed = NoTarget])
  BY <1>2
<1>5. PICK u : Become(c, u) /\ (u = Idle \/ More(u))
  BY <1>3, <1>4, Zenon DEF Continue
<1>6. CASE u = Idle
  BY <1>5, <1>6, TaskStep DEF Idle
<1>7. CASE More(u)
  <2>1. /\ u.op = "advertise" /\ u.todo \subseteq Accelerators /\ u.device \in u.todo \cup {NoMember}
        /\ IsAgent(sessions[c]) /\ sessions[c].epoch = epoch
        /\ \A b \in u.todo : Owner(b) = sessions[c].identity
    BY <1>1, <1>7 DEF AdvertisementOK
  <2>2. u.op # "hello"
    BY <2>1
  <2> QED
    BY <1>5, <1>7, <2>1, <2>2, TaskStep, Zenon
<1> QED
  BY <1>5, <1>6, <1>7

(* A thread that runs keeps the invariant.                                 *)
LEMMA ThreadKeeps ==
  ASSUME TypeInv, PlaneInv, NEW c \in Connections, ThreadStep(c)
  PROVE  PlaneInv'
<1>1. mode # "down"
  <2>1. task[c].op # "closed"
    BY Zenon DEF ThreadStep, HelloInsert, AdvertiseObserve, AdvertiseTransition, ListMembers, FenceMember
  <2> QED
    BY <2>1 DEF PlaneInv, Closed
<1>2. mode' # "down" /\ epoch' = epoch
  BY <1>1, ThreadCalls, CallFrame
<1>3. Idle.op = "idle" /\ Closed.op = "closed"
  BY Zenon DEF Idle, Closed
<1>4. CASE HelloInsert(c)
  <2> DEFINE s == [identity |-> task[c].identity, epoch |-> epoch]
  <2>1. task[c].op = "hello" /\ Become(c, Idle) /\ sessions' = [sessions EXCEPT ![c] = s]
    BY <1>4, Zenon DEF HelloInsert
  <2>2. s.identity \in Identities \cup {Inspector}
    BY <2>1 DEF PlaneInv
  <2>3. Idle.op # "hello" /\ Idle.op # "advertise"
    BY <1>3
  <2> HIDE DEF s
  <2> QED
    BY <1>2, <2>1, <2>2, <2>3, TableStep, Zenon
<1>5. CASE AdvertiseObserve(c)
  <2>1. sessions' = sessions /\ task[c].op = "advertise"
    BY <1>5, Zenon DEF AdvertiseObserve
  <2>2. Become(c, Idle) \/ \E a \in task[c].todo : \E state : Continue(c, a, state)
    BY <1>5, Zenon DEF AdvertiseObserve, RefuseClaim
  <2>3. CASE Become(c, Idle)
    BY <1>2, <1>3, <2>1, <2>3, TaskStep
  <2> QED
    BY <1>2, <2>1, <2>2, <2>3, ContinueStep, Zenon
<1>6. CASE AdvertiseTransition(c)
  <2>1. sessions' = sessions /\ task[c].op = "advertise"
    BY <1>6, Zenon DEF AdvertiseTransition
  <2>2. Become(c, Idle) \/ \E state : Continue(c, task[c].device, state)
    BY <1>6, Zenon DEF AdvertiseTransition, CallTransition, RefuseClaim
  <2>4. task[c].device \in task[c].todo
    BY <1>6, <2>1 DEF AdvertiseTransition, PlaneInv, AdvertisementOK
  <2>3. CASE Become(c, Idle)
    BY <1>2, <1>3, <2>1, <2>3, TaskStep
  <2> QED
    BY <1>2, <2>1, <2>2, <2>3, <2>4, ContinueStep, Zenon
<1>7. CASE ListMembers(c) \/ FenceMember(c)
  <2>1. PICK devices : Become(c, FenceOrClose(devices))
    BY <1>7, Zenon DEF ListMembers, FenceMember, CallTransition
  <2>2. sessions' = sessions
    BY <1>7, Zenon DEF ListMembers, FenceMember
  <2>3. FenceOrClose(devices).op \in {"closed", "fencing"}
    BY <1>3 DEF FenceOrClose, Fencing
  <2>4. FenceOrClose(devices).op # "hello" /\ FenceOrClose(devices).op # "advertise"
    BY <2>3
  <2> QED
    BY <1>2, <2>1, <2>2, <2>4, TaskStep, Zenon
<1> QED
  BY <1>4, <1>5, <1>6, <1>7, Zenon DEF ThreadStep

(* What a peer asks for keeps it.                                          *)
LEMMA PeerKeeps ==
  ASSUME TypeInv, PlaneInv, NEW c \in Connections, PeerStep(c)
  PROVE  PlaneInv'
<1>1. Idle.op = "idle" /\ Closed.op = "closed"
  BY Zenon DEF Idle, Closed
<1>2. mode # "down"
  <2>1. CASE Connect(c)
    BY <2>1, Zenon DEF Connect
  <2>2. CASE task[c] = Idle
    BY <1>1, <2>2 DEF PlaneInv
  <2> QED
    BY <2>1, <2>2, Zenon
    DEF PeerStep, Goodbye, Disconnect, HelloCheck, AdvertiseStart, TransitionRequest, EvaluateRequest,
        PlanRequest, RegisterWorkloadRequest, EstablishedAgent, Established
<1>3. mode' # "down" /\ epoch' = epoch
  BY <1>2, PeerCalls, CallFrame
<1>4. CASE Connect(c)
  BY <1>1, <1>3, <1>4, TaskStep DEF Connect
<1>5. CASE Goodbye(c) \/ Disconnect(c)
  <2>1. PICK t : Become(c, t) /\ (t = Closed \/ t = Ended(sessions[c].identity))
    BY <1>5, Zenon DEF Goodbye, Disconnect
  <2>2. sessions' = [sessions EXCEPT ![c] = NoSession]
    BY <1>5, Zenon DEF Goodbye, Disconnect
  <2>3. t.op # "hello" /\ t.op # "advertise"
    BY <1>1, <2>1 DEF Ended
  <2> QED
    BY <1>3, <2>1, <2>2, <2>3, TableStep, Zenon
<1>6. ASSUME NEW id \in Identities \cup {Inspector}, HelloCheck(c, id) PROVE PlaneInv'
  <2>1. Become(c, Greeting(id)) /\ sessions' = sessions
    BY <1>6, Zenon DEF HelloCheck
  <2>2. Greeting(id).op = "hello" /\ Greeting(id).identity = id
    BY DEF Greeting
  <2>3. Greeting(id).op # "advertise"
    BY <2>2
  <2> QED
    BY <1>3, <2>1, <2>2, <2>3, TaskStep, Zenon
<1>7. ASSUME NEW devices \in SUBSET Accelerators, AdvertiseStart(c, devices) PROVE PlaneInv'
  <2> DEFINE t == Advertising(devices, NoMember, NoTarget)
  <2>1. /\ Become(c, t) /\ sessions' = sessions
        /\ IsAgent(sessions[c]) /\ sessions[c].epoch = epoch
        /\ \A a \in devices : Owner(a) = sessions[c].identity
    BY <1>7, Zenon DEF AdvertiseStart, EstablishedAgent, Established
  <2>2. /\ t.op = "advertise" /\ t.todo = devices /\ t.device = NoMember
        /\ {"op", "todo", "device"} \subseteq DOMAIN t
    BY DEF Advertising
  <2> HIDE DEF t
  <2>3. t.op # "hello"
    BY <2>2
  <2> QED
    BY <1>3, <2>1, <2>2, <2>3, TaskStep, Zenon
<1>8. CASE UNCHANGED <<sessions, task>>
  BY <1>2, <1>3, <1>8, Zenon DEF PlaneInv, AdvertisementOK, IsAgent
<1> QED
  BY <1>4, <1>5, <1>6, <1>7, <1>8, Zenon
  DEF PeerStep, TransitionRequest, EvaluateRequest, PlanRequest, RegisterWorkloadRequest, plane

(* Starting and stopping the coordinator.                                  *)
LEMMA ProcessKeeps ==
  ASSUME PlaneInv, ((Open \/ Shutdown) /\ UNCHANGED plane) \/ PlaneCrash
  PROVE  PlaneInv'
<1>1. Closed.op # "hello" /\ Closed.op # "advertise"
  BY DEF Closed
<1>2. CASE PlaneCrash
  <2>1. /\ task' = [c \in Connections |-> Closed]
        /\ sessions' = [c \in Connections |-> NoSession]
    BY <1>2, Zenon DEF PlaneCrash
  <2>2. DOMAIN task' = Connections /\ DOMAIN sessions' = Connections
    BY <2>1
  <2>3. \A c \in Connections : task'[c] = Closed /\ sessions'[c] = NoSession
    BY <2>1
  <2> QED
    BY <1>1, <2>2, <2>3, Zenon DEF PlaneInv
<1>3. CASE Open /\ UNCHANGED plane
  <2>1. mode = "down" /\ mode' # "down"
    BY <1>3, Zenon DEF Open
  <2>2. \A c \in Connections : task'[c].op # "hello" /\ task'[c].op # "advertise"
    BY <1>1, <1>3, <2>1, Zenon DEF plane, PlaneInv
  <2> QED
    BY <1>3, <2>1, <2>2, Zenon DEF plane, PlaneInv
<1>4. CASE Shutdown /\ UNCHANGED plane
  <2>1. mode' # "down" /\ epoch' = epoch
    BY <1>4, Zenon DEF Shutdown
  <2> QED
    BY <1>4, <2>1, Zenon DEF plane, PlaneInv, AdvertisementOK, IsAgent
<1> QED
  BY <1>2, <1>3, <1>4

(* A step of the control plane is a step of the federation, or none.       *)
LEMMA PlaneStep ==
  ASSUME \A claim : IsPlaneClaim(claim) => claim \in Claims,
         TypeInv, PlaneInv, [PlaneNext]_planeVars
  PROVE  [Next]_vars /\ PlaneInv'
<1>1. FederationCall => [Next]_vars
  BY Zenon DEF FederationCall, Next, Unclaimed
<1>2. ASSUME NEW c \in Connections, ThreadStep(c) \/ PeerStep(c) PROVE [Next]_vars /\ PlaneInv'
  BY <1>1, <1>2, ThreadCalls, PeerCalls, ThreadKeeps, PeerKeeps
<1>3. CASE ((Open \/ Shutdown) /\ UNCHANGED plane) \/ PlaneCrash
  BY <1>3, ProcessKeeps, Zenon DEF PlaneCrash, Next, Unclaimed
<1>4. CASE UNCHANGED planeVars
  <2>1. UNCHANGED vars /\ UNCHANGED plane /\ UNCHANGED <<mode, epoch>>
    BY <1>4, Zenon DEF planeVars, vars
  <2> QED
    BY <2>1, Zenon DEF plane, PlaneInv, AdvertisementOK, IsAgent
<1> QED
  BY <1>2, <1>3, <1>4, Zenon DEF PlaneNext

-----------------------------------------------------------------------------

(* Before any connection.                                                  *)
LEMMA PlaneInitially == PlaneInit => Init /\ PlaneInv
<1> SUFFICES ASSUME PlaneInit PROVE Init /\ PlaneInv
  OBVIOUS
<1>1. Closed.op # "hello" /\ Closed.op # "advertise"
  BY DEF Closed
<1>2. \A c \in Connections : task[c] = Closed /\ sessions[c] = NoSession
  BY DEF PlaneInit
<1> QED
  BY <1>1, <1>2 DEF PlaneInit, PlaneInv

(* The invariant of the plane, with the federation's types.                *)
THEOREM PlaneInvariant ==
  ASSUME \A claim : IsPlaneClaim(claim) => claim \in Claims
  PROVE  PlaneSpec => [](TypeInv /\ PlaneInv)
<1>1. PlaneInit => TypeInv /\ PlaneInv
  BY PlaneInitially, InitType
<1>2. TypeInv /\ PlaneInv /\ [PlaneNext]_planeVars => TypeInv' /\ PlaneInv'
  BY PlaneStep, TypeStep
<1> QED
  BY <1>1, <1>2, PTL DEF PlaneSpec

(* The control plane implements the federation: requests of any number of  *)
(* connections, handlers cut short anywhere, sessions that end or are      *)
(* replaced, add no behaviour to the federation's own.                     *)
THEOREM PlaneImplementsFederation ==
  ASSUME \A claim : IsPlaneClaim(claim) => claim \in Claims
  PROVE  PlaneSpec => Spec
<1>1. PlaneInit => Init
  BY PlaneInitially
<1>2. TypeInv /\ PlaneInv /\ [PlaneNext]_planeVars => [Next]_vars
  BY PlaneStep
<1> QED
  BY <1>1, <1>2, PlaneInvariant, PTL DEF PlaneSpec, Spec

(* An advertisement's handler never works for a session that has left the  *)
(* table, was replaced or belongs to an earlier run.                       *)
THEOREM HandlersHaveTheirSession ==
  ASSUME \A claim : IsPlaneClaim(claim) => claim \in Claims
  PROVE  PlaneSpec => []HandlersKeepTheirSession
<1>1. PlaneInv => HandlersKeepTheirSession
  BY Zenon DEF PlaneInv, AdvertisementOK, HandlersKeepTheirSession
<1> QED
  BY <1>1, PlaneInvariant, PTL

(* Under the control plane, too, a device of an agent is never represented *)
(* by two members that are not retired.                                    *)
THEOREM PlaneKeepsOneIncarnation ==
  ASSUME \A claim : IsPlaneClaim(claim) => claim \in Claims
  PROVE  PlaneSpec => []OneLiveIncarnation
BY PlaneImplementsFederation, OneLiveIncarnationHolds, PTL

-----------------------------------------------------------------------------
(* Members that accept work.                                               *)

Working(a) == a \in Known /\ AcceptsNewWork(members[a].state)

Exempt(a) == Owner(a) \in released \/ a \in adopted

Covered(a) == HasSession(a) \/ WillFence(a) \/ Exempt(a)

(* Observing an accelerator, even again with new capabilities, activates   *)
(* nobody.                                                                 *)
LEMMA ObserveActivatesNobody ==
  ASSUME TypeInv, NEW claim, NEW b \in Accelerators, NEW caps, NEW local,
         ObserveNew(claim, b, caps, local) \/ ObserveAgain(claim, b, caps, local),
         NEW a \in Accelerators, Working(a)'
  PROVE  Working(a)
<1>1. members \in MemberMap
  BY DEF TypeInv, TypeOK
<1>2. CASE ObserveNew(claim, b, caps, local)
  <2>1. members'[a] = IF a = b THEN NewMember(caps)
                      ELSE IF Superseded(b, a) THEN RetiredMember(members[a]) ELSE members[a]
    BY <1>2, Zenon DEF ObserveNew
  <2>2. CASE a = b
    BY <2>1, <2>2 DEF NewMember, Working, AcceptsNewWork
  <2>3. CASE a # b /\ Superseded(b, a)
    <3>1. members[a] \in Member
      BY <1>1, <2>3 DEF Superseded, Incarnations, Known, MemberMap
    <3>2. members'[a].state = "Retired"
      BY <2>1, <2>3, <3>1, RetiredMemberType
    <3> QED
      BY <3>2 DEF Working, AcceptsNewWork
  <2>4. CASE a # b /\ ~Superseded(b, a)
    BY <2>1, <2>4, Zenon DEF Working, Known
  <2> QED
    BY <2>2, <2>3, <2>4
<1>3. CASE ObserveAgain(claim, b, caps, local)
  <2>1. b \in Known /\ members' = [members EXCEPT ![b] = ReobservedMember(members[b], caps)]
    BY <1>3, Zenon DEF ObserveAgain
  <2>2. members[b] \in Member
    BY <1>1, <2>1 DEF Known, MemberMap
  <2>3. /\ UpdatedMember(members[b], caps).state = members[b].state
        /\ RefreshedMember(members[b]).state = members[b].state
    BY <2>2 DEF UpdatedMember, RefreshedMember, Member
  <2>4. members'[a] = IF a = b THEN ReobservedMember(members[b], caps) ELSE members[a]
    BY <1>1, <2>1 DEF MemberMap
  <2> QED
    BY <2>1, <2>3, <2>4, Zenon DEF ReobservedMember, Working, Known
<1> QED
  BY <1>2, <1>3

(* A transition activates its own member, and only when asked to.          *)
LEMMA TransitionActivates ==
  ASSUME TypeInv, NEW claim, NEW b, NEW target, Transition(claim, b, target),
         NEW a \in Accelerators, Working(a)'
  PROVE  (a # b /\ Working(a)) \/ (a = b /\ AcceptsNewWork(target))
<1>1. /\ members \in MemberMap /\ b \in Known
      /\ members' = [members EXCEPT ![b] = TransitionedMember(members[b], target)]
  BY Zenon DEF Transition, TypeInv, TypeOK
<1>2. members[b] \in Member
  BY <1>1 DEF Known, MemberMap
<1>3. TransitionedMember(members[b], target).state = target
  BY <1>2 DEF TransitionedMember, Member
<1>4. members'[a] = IF a = b THEN TransitionedMember(members[b], target) ELSE members[a]
  BY <1>1 DEF MemberMap, Known
<1> QED
  BY <1>3, <1>4, Zenon DEF Working, Known

(* A thread that neither ends nor fences covers nobody: what it does next  *)
(* uncovers nobody.                                                        *)
LEMMA CoverKept ==
  ASSUME PlaneInv, NEW c \in Connections, NEW t, Become(c, t), sessions' = sessions,
         ghosts' = ghosts, task[c].op # "ended", task[c].op # "fencing",
         NEW a, Covered(a)
  PROVE  Covered(a)'
<1>1. \A d \in Connections \ {c} : task'[d] = task[d]
  BY DEF PlaneInv, Become
<1>2. HasSession(a) => HasSession(a)'
  BY Zenon DEF HasSession, AgentOf, IsAgent
<1>3. WillFence(a) => WillFence(a)'
  BY <1>1, Zenon DEF WillFence
<1> QED
  BY <1>2, <1>3, Zenon DEF Covered, Exempt, ghosts

(* The session of one connection is replaced: whom it covered is covered   *)
(* by the new session, by the thread or as a boot that gave its session up,*)
(* and whoever is no longer exempt by the new session.                     *)
LEMMA CoverMoved ==
  ASSUME PlaneInv, NEW c \in Connections, NEW t, NEW s, Become(c, t),
         sessions' = [sessions EXCEPT ![c] = s],
         task[c].op # "ended", task[c].op # "fencing", NEW a, Covered(a),
         Exempt(a) \/ Owner(a) \in AgentOf(sessions[c]) =>
           \/ Owner(a) \in AgentOf(s) \/ Exempt(a)'
           \/ t.op = "ended" /\ t.identity = Owner(a)
  PROVE  Covered(a)'
<1>1. task'[c] = t /\ \A d \in Connections \ {c} : task'[d] = task[d]
  BY DEF PlaneInv, Become
<1>2. sessions'[c] = s /\ \A d \in Connections \ {c} : sessions'[d] = sessions[d]
  BY DEF PlaneInv
<1>3. WillFence(a) => WillFence(a)'
  BY <1>1, Zenon DEF WillFence
<1>4. ASSUME Exempt(a) \/ Owner(a) \in AgentOf(sessions[c]) PROVE Covered(a)'
  <2>1. CASE Owner(a) \in AgentOf(s)
    BY <1>2, <2>1, Zenon DEF Covered, HasSession, AgentOf, IsAgent, Owner
  <2>2. CASE t.op = "ended" /\ t.identity = Owner(a)
    <3>1. WillFence(a)'
      BY <1>1, <2>2, Zenon DEF WillFence, Owner
    <3> QED
      BY <3>1, Zenon DEF Covered
  <2>3. CASE Exempt(a)'
    BY <2>3, Zenon DEF Covered
  <2> QED
    BY <1>4, <2>1, <2>2, <2>3
<1>5. ASSUME NEW d \in Connections \ {c}, Owner(a) \in AgentOf(sessions[d]) PROVE Covered(a)'
  BY <1>2, <1>5, Zenon DEF Covered, HasSession, AgentOf, IsAgent, Owner
<1> QED
  BY <1>3, <1>4, <1>5, Zenon DEF Covered, HasSession

WorkersInv == mode = "up" => \A a \in Accelerators : Working(a) => Covered(a)

(* HELLO, GOODBYE and the end of a connection uncover nobody.              *)
LEMMA SessionStepsCover ==
  ASSUME TypeInv, PlaneInv, mode = "up", NEW c \in Connections,
         HelloInsert(c) \/ Goodbye(c) \/ Disconnect(c), NEW a \in Accelerators, Covered(a)
  PROVE  Covered(a)'
<1>1. Idle.op = "idle" /\ Closed.op = "closed"
  BY DEF Idle, Closed
<1>2. CASE HelloInsert(c)
  <2> DEFINE s == [identity |-> task[c].identity, epoch |-> epoch]
  <2>1. /\ task[c].op = "hello" /\ Become(c, Idle) /\ sessions' = [sessions EXCEPT ![c] = s]
        /\ released' = (released \cup AgentOf(sessions[c])) \ {task[c].identity}
        /\ adopted' = {b \in adopted : Owner(b) # task[c].identity}
    BY <1>2, Zenon DEF HelloInsert
  <2>2. task[c].op # "ended" /\ task[c].op # "fencing"
    BY <2>1, Zenon
  <2>3. s \in [identity: Identities \cup {Inspector}, epoch: Gens]
    BY <2>1, ZenonT(60) DEF PlaneInv, TypeInv, TypeOK
  <2>4. s # NoSession /\ s.identity = task[c].identity
    BY <2>3, SessionAssumption
  <2>5. Owner(a) \in Identities
    BY SessionAssumption, ZenonT(60)
  <2>6. CASE Owner(a) = task[c].identity
    <3>1. Owner(a) \in AgentOf(s)
      BY <2>4, <2>5, <2>6, SessionAssumption DEF AgentOf, IsAgent
    <3> HIDE DEF s
    <3> QED
      BY <2>1, <2>2, <3>1, CoverMoved, Zenon
  <2>7. CASE Owner(a) # task[c].identity
    <3>1. Exempt(a) \/ Owner(a) \in AgentOf(sessions[c]) => Exempt(a)'
      BY <2>1, <2>7, Zenon DEF Exempt, Owner
    <3> HIDE DEF s
    <3> QED
      BY <2>1, <2>2, <3>1, CoverMoved, Zenon
  <2> QED
    BY <2>6, <2>7
<1>3. CASE Goodbye(c)
  <2>1. /\ task[c] = Idle /\ Become(c, Closed) /\ sessions' = [sessions EXCEPT ![c] = NoSession]
        /\ released' = released \cup AgentOf(sessions[c]) /\ adopted' = adopted
    BY <1>3, ZenonT(60) DEF Goodbye
  <2>2. task[c].op # "ended" /\ task[c].op # "fencing"
    BY <1>1, <2>1
  <2>3. Exempt(a) \/ Owner(a) \in AgentOf(sessions[c]) => Exempt(a)'
    BY <2>1, Zenon DEF Exempt, Owner
  <2> QED
    BY <2>1, <2>2, <2>3, CoverMoved, Zenon
<1>4. CASE Disconnect(c)
  <2> DEFINE t == IF IsAgent(sessions[c]) THEN Ended(sessions[c].identity) ELSE Closed
  <2>1. /\ task[c] = Idle /\ Become(c, t) /\ sessions' = [sessions EXCEPT ![c] = NoSession]
        /\ released' = released /\ adopted' = adopted
    BY <1>4, ZenonT(60) DEF Disconnect, ghosts
  <2>2. task[c].op # "ended" /\ task[c].op # "fencing"
    BY <1>1, <2>1
  <2>3. Ended(sessions[c].identity).op = "ended"
        /\ Ended(sessions[c].identity).identity = sessions[c].identity
    BY DEF Ended
  <2>4. Owner(a) \in AgentOf(sessions[c]) => t.op = "ended" /\ t.identity = Owner(a)
    BY <2>3, Zenon DEF AgentOf
  <2>5. Exempt(a) => Exempt(a)'
    BY <2>1, Zenon DEF Exempt, Owner
  <2> HIDE DEF t
  <2> QED
    BY <2>1, <2>2, <2>4, <2>5, CoverMoved, Zenon
<1> QED
  BY <1>2, <1>3, <1>4

(* A thread that lists or fences the members of an ended session.          *)
LEMMA FencingCovers ==
  ASSUME TypeInv, PlaneInv, WorkersInv, mode = "up", NEW c \in Connections,
         ListMembers(c) \/ FenceMember(c), NEW a \in Accelerators, Working(a)'
  PROVE  Covered(a)'
<1>1. sessions' = sessions /\ released' = released /\ adopted' = adopted
  BY Zenon DEF ListMembers, FenceMember, ghosts
<1>2. HasSession(a) => HasSession(a)'
  BY <1>1, Zenon DEF HasSession, AgentOf, IsAgent
<1> DEFINE Fences(d) == \/ task[d].op = "ended" /\ task[d].identity = Owner(a)
                        \/ task[d].op = "fencing" /\ a \in task[d].pending
<1>3. ASSUME NEW t, Become(c, t), Working(a), Fences(c) => t.op = "fencing" /\ a \in t.pending
      PROVE  Covered(a)'
  <2>1. task'[c] = t /\ \A d \in Connections \ {c} : task'[d] = task[d]
    BY <1>3 DEF PlaneInv, Become
  <2>2. Covered(a)
    BY <1>3, Zenon DEF WorkersInv
  <2>3. WillFence(a) => WillFence(a)'
    BY <1>3, <2>1, Zenon DEF WillFence
  <2> QED
    BY <1>1, <1>2, <2>2, <2>3, ZenonT(60) DEF Covered, Exempt, Owner
<1>4. ASSUME NEW devices, a \in devices
      PROVE  FenceOrClose(devices).op = "fencing" /\ a \in FenceOrClose(devices).pending
  BY <1>4 DEF FenceOrClose, Fencing
<1>5. CASE ListMembers(c)
  <2>1. /\ task[c].op = "ended" /\ UNCHANGED vars
        /\ Become(c, FenceOrClose(LiveMembersOf(task[c].identity)))
    BY <1>5, Zenon DEF ListMembers
  <2>2. Working(a)
    BY <2>1, Zenon DEF Working, Known, vars, memory
  <2>3. Fences(c) => task[c].identity = Owner(a)
    BY <2>1, Zenon
  <2>4. Fences(c) => a \in LiveMembersOf(task[c].identity)
    BY <2>2, <2>3 DEF LiveMembersOf, Working, AcceptsNewWork, IsLive
  <2> HIDE DEF Fences
  <2> QED
    BY <1>3, <1>4, <2>1, <2>2, <2>4, Zenon
<1>6. CASE FenceMember(c)
  <2>1. PICK b \in task[c].pending :
           /\ task[c].op = "fencing" /\ Become(c, FenceOrClose(task[c].pending \ {b}))
           /\ \/ Transition(FenceClaim(b), b, "Fenced")
              \/ UNCHANGED vars /\ members[b].state = "Fenced"
              \/ UNCHANGED vars /\ TransitionRefused(FenceClaim(b), b, "Fenced")
    BY <1>6, Zenon DEF FenceMember, CallTransition
  <2>2. ~AcceptsNewWork("Fenced")
    BY DEF AcceptsNewWork
  <2>3. a # b /\ Working(a)
    <3>1. CASE Transition(FenceClaim(b), b, "Fenced")
      BY <2>2, <3>1, TransitionActivates, Zenon
    <3>2. CASE UNCHANGED vars /\ members[b].state = "Fenced"
      BY <2>2, <3>2, Zenon DEF Working, Known, vars, memory
    <3>3. CASE UNCHANGED vars /\ TransitionRefused(FenceClaim(b), b, "Fenced")
      <4>1. Working(a)
        BY <3>3, Zenon DEF Working, Known, vars, memory
      <4>2. ASSUME a = b PROVE FALSE
        <5>1. /\ FenceClaim(b).generation = Unchecked /\ FenceClaim(b).epoch = epoch
              /\ FenceClaim(b).capGen = Unchecked /\ FenceClaim(b).policy = Unchecked
              /\ FenceClaim(b).agent = Agent[b] /\ FenceClaim(b).boot = Boot[b]
          BY DEF FenceClaim, AnyClaim
        <5>2. ValidateAuthority(FenceClaim(b)) /\ ValidateMemberAuthority(FenceClaim(b), b)
          BY <5>1 DEF ValidateAuthority, ValidateMemberAuthority
        <5>3. b \in Known /\ LegalTransition(members[b].state, "Fenced")
          BY <4>1, <4>2 DEF Working, AcceptsNewWork, LegalTransition
        <5> QED
          BY <3>3, <5>2, <5>3, Zenon DEF TransitionRefused
      <4> QED
        BY <4>1, <4>2
    <3> QED
      BY <2>1, <3>1, <3>2, <3>3
  <2>4. Fences(c) => a \in task[c].pending \ {b}
    BY <2>1, <2>3
  <2> HIDE DEF Fences
  <2> QED
    BY <1>3, <1>4, <2>1, <2>3, <2>4, Zenon
<1> QED
  BY <1>5, <1>6

(* An advertisement activates members of its own session only.             *)
LEMMA AdvertisingCovers ==
  ASSUME TypeInv, PlaneInv, WorkersInv, mode = "up", NEW c \in Connections,
         AdvertiseObserve(c) \/ AdvertiseTransition(c), NEW a \in Accelerators, Working(a)'
  PROVE  Covered(a)'
<1>1. sessions' = sessions /\ ghosts' = ghosts /\ task[c].op = "advertise"
  BY Zenon DEF AdvertiseObserve, AdvertiseTransition
<1>2. task[c].op # "ended" /\ task[c].op # "fencing"
  BY <1>1
<1>3. \E t : Become(c, t)
  BY Zenon DEF AdvertiseObserve, AdvertiseTransition, CallTransition, Continue, RefuseClaim
<1>4. ASSUME Working(a) PROVE Covered(a)'
  <2>1. Covered(a)
    BY <1>4, Zenon DEF WorkersInv
  <2> QED
    BY <1>1, <1>2, <1>3, <2>1, CoverKept, Zenon
<1>5. CASE AdvertiseObserve(c)
  <2>1. CASE UNCHANGED vars
    BY <1>4, <2>1, Zenon DEF Working, Known, vars, memory
  <2>2. ASSUME NEW b \in task[c].todo, NEW caps \in Capabilities,
               ObserveNew(AnyClaim, b, caps, FALSE) \/ ObserveAgain(AnyClaim, b, caps, FALSE)
        PROVE  Covered(a)'
    <3>1. b \in Accelerators
      BY <1>1, <2>2 DEF PlaneInv, AdvertisementOK
    <3> QED
      BY <1>4, <2>2, <3>1, ObserveActivatesNobody, Zenon
  <2> QED
    BY <1>5, <2>1, <2>2, ZenonT(60) DEF AdvertiseObserve, RefuseClaim
<1>6. CASE AdvertiseTransition(c)
  <2> DEFINE b == task[c].device
  <2>1. PICK target : Transition(AnyClaim, b, target) \/ UNCHANGED vars
    BY <1>6, Zenon DEF AdvertiseTransition, CallTransition, RefuseClaim
  <2>2. b \in task[c].todo /\ IsAgent(sessions[c]) /\ Owner(b) = sessions[c].identity
    BY <1>1, <1>6, Zenon DEF AdvertiseTransition, PlaneInv, AdvertisementOK
  <2>3. CASE UNCHANGED vars
    BY <1>4, <2>3, Zenon DEF Working, Known, vars, memory
  <2>4. CASE a = b
    <3>1. HasSession(a)'
      BY <1>1, <2>2, <2>4, Zenon DEF HasSession, AgentOf, IsAgent, Owner
    <3> QED
      BY <3>1, Zenon DEF Covered
  <2>5. CASE a # b /\ Transition(AnyClaim, b, target)
    <3> HIDE DEF b
    <3> QED
      BY <1>4, <2>5, TransitionActivates, Zenon
  <2> QED
    BY <2>1, <2>3, <2>4, <2>5
<1> QED
  BY <1>5, <1>6

(* A TRANSITION request activates the member it names; when that member's  *)
(* boot has no session, the member is adopted.                             *)
LEMMA TransitionRequestCovers ==
  ASSUME TypeInv, PlaneInv, WorkersInv, mode = "up", NEW c \in Connections,
         NEW b \in Accelerators, NEW target, TransitionRequest(c, b, target),
         NEW a \in Accelerators, Working(a)'
  PROVE  Covered(a)'
<1>1. /\ Transition(AnyClaim, b, target)
      /\ adopted' = IF AcceptsNewWork(target) /\ ~HasSession(b) /\ ~WillFence(b)
                    THEN adopted \cup {b} ELSE adopted
      /\ sessions' = sessions /\ task' = task /\ released' = released
  BY Zenon DEF TransitionRequest
<1>2. /\ HasSession(a) => HasSession(a)'
      /\ WillFence(a) => WillFence(a)'
      /\ Exempt(a) => Exempt(a)'
  BY <1>1, Zenon DEF HasSession, WillFence, Exempt, AgentOf, IsAgent, Owner
<1>3. CASE a # b /\ Working(a)
  <2>1. Covered(a)
    BY <1>3, Zenon DEF WorkersInv
  <2> QED
    BY <1>2, <2>1, Zenon DEF Covered
<1>4. CASE a = b /\ AcceptsNewWork(target)
  <2>1. CASE HasSession(b) \/ WillFence(b)
    BY <1>2, <1>4, <2>1, Zenon DEF Covered
  <2>2. CASE ~HasSession(b) /\ ~WillFence(b)
    BY <1>1, <1>4, <2>2, Zenon DEF Covered, Exempt
  <2> QED
    BY <2>1, <2>2
<1> QED
  BY <1>1, <1>3, <1>4, TransitionActivates, Zenon

(* The other requests leave members, sessions and threads that fence as    *)
(* they are.                                                               *)
LEMMA OtherRequestsCover ==
  ASSUME TypeInv, PlaneInv, WorkersInv, mode = "up", NEW c \in Connections,
         \/ Connect(c) \/ \E id : HelloCheck(c, id) \/ \E devices : AdvertiseStart(c, devices)
         \/ \E w, b, s : EvaluateRequest(c, w, b, s)
         \/ \E w, s, d : PlanRequest(c, w, s, d)
         \/ \E w, r : RegisterWorkloadRequest(c, w, r),
         NEW a \in Accelerators, Working(a)'
  PROVE  Covered(a)'
<1>1. CASE \/ Connect(c) \/ \E id : HelloCheck(c, id) \/ \E devices : AdvertiseStart(c, devices)
  <2>1. /\ UNCHANGED vars /\ sessions' = sessions /\ ghosts' = ghosts
        /\ \E t : Become(c, t) /\ (task[c] = Idle \/ task[c] = Closed)
    BY <1>1, Zenon DEF Connect, HelloCheck, AdvertiseStart, EstablishedAgent, Established
  <2>2. task[c].op # "ended" /\ task[c].op # "fencing"
    <3>1. task[c] = Idle \/ task[c] = Closed
      BY <2>1, Zenon
    <3>2. Idle.op # "ended" /\ Idle.op # "fencing" /\ Closed.op # "ended" /\ Closed.op # "fencing"
      BY DEF Idle, Closed
    <3> QED
      BY <3>1, <3>2, Zenon
  <2>3. Covered(a)
    BY <2>1, Zenon DEF Working, Known, vars, memory, WorkersInv
  <2> QED
    BY <2>1, <2>2, <2>3, CoverKept, Zenon
<1>2. CASE \/ \E w, b, s : EvaluateRequest(c, w, b, s)
           \/ \E w, s, d : PlanRequest(c, w, s, d)
           \/ \E w, r : RegisterWorkloadRequest(c, w, r)
  <2>1. UNCHANGED plane
    BY <1>2, Zenon DEF EvaluateRequest, PlanRequest, RegisterWorkloadRequest
  <2>2. members' = members
    BY <1>2, Zenon DEF EvaluateRequest, PlanRequest, RegisterWorkloadRequest, Evaluate, PlanMigration,
                       PlanOntoItself, RegisterWorkload, memory
  <2>3. Covered(a)
    BY <2>2, Zenon DEF Working, Known, WorkersInv
  <2> QED
    BY <2>1, <2>3, Zenon DEF plane, ghosts, Covered, Exempt, HasSession, WillFence, AgentOf, IsAgent, Owner
<1> QED
  BY <1>1, <1>2

(* A restarted coordinator has no member that accepts work.                *)
LEMMA NobodyWorksAfterOpen ==
  ASSUME TypeInv, Open, NEW a \in Accelerators
  PROVE  ~Working(a)'
<1>1. CASE OpenFresh
  BY <1>1, Zenon DEF OpenFresh, NoMembers, Working, Known
<1>2. CASE Recover
  <2>1. CASE store.members[a] = NoMember
    BY <1>2, <2>1, Zenon DEF Recover, Working, Known
  <2>2. CASE store.members[a] # NoMember
    <3>1. members'[a] = RestoredMember(store.members[a], epoch')
      BY <1>2, <2>2, ZenonT(60) DEF Recover
    <3>2. store.members[a] \in Member
      BY <1>2, <2>2 DEF Recover, TypeInv, TypeOK, SnapshotRecord, MemberMap
    <3>3. members'[a].state = IF IsLive(store.members[a].state) THEN "Degraded" ELSE store.members[a].state
      BY <3>1, <3>2 DEF RestoredMember, Member
    <3> QED
      BY <3>3 DEF Working, AcceptsNewWork, IsLive
  <2> QED
    BY <2>1, <2>2
<1> QED
  BY <1>1, <1>2 DEF Open

(* Workers stay covered.                                                   *)
LEMMA WorkersStep ==
  ASSUME TypeInv, PlaneInv, WorkersInv, [PlaneNext]_planeVars
  PROVE  WorkersInv'
<1> SUFFICES ASSUME mode' = "up", NEW a \in Accelerators, Working(a)' PROVE Covered(a)'
  BY Zenon DEF WorkersInv
<1>1. CASE ((Open \/ Shutdown) /\ UNCHANGED plane) \/ PlaneCrash
  <2>1. CASE Open
    BY <2>1, NobodyWorksAfterOpen, Zenon
  <2>2. CASE Shutdown \/ PlaneCrash
    BY <2>2 DEF Shutdown, PlaneCrash, Crash
  <2> QED
    BY <1>1, <2>1, <2>2
<1>2. CASE UNCHANGED planeVars
  <2>1. UNCHANGED vars /\ UNCHANGED plane /\ mode = "up"
    BY <1>2, Zenon DEF planeVars, vars
  <2>2. Covered(a)
    BY <2>1, Zenon DEF Working, Known, vars, memory, WorkersInv
  <2> QED
    BY <2>1, <2>2, Zenon DEF plane, ghosts, Covered, Exempt, HasSession, WillFence, AgentOf, IsAgent, Owner
<1>3. ASSUME NEW c \in Connections, ThreadStep(c) \/ PeerStep(c) PROVE Covered(a)'
  <2>1. FederationCall
    BY <1>3, ThreadCalls, PeerCalls
  <2>2. mode = "up"
    <3>1. ASSUME NEW w, NEW b, NEW s, Evaluate(w, b, s) PROVE mode = "up"
      BY <3>1, Zenon DEF Evaluate
    <3> QED
      BY <2>1, <3>1, MutateRuns, Zenon DEF FederationCall, vars
  <2>3. CASE HelloInsert(c) \/ Goodbye(c) \/ Disconnect(c)
    <3>1. Working(a)
      BY <2>3, Zenon DEF HelloInsert, Goodbye, Disconnect, Working, Known, vars, memory
    <3>2. Covered(a)
      BY <2>2, <3>1, Zenon DEF WorkersInv
    <3> QED
      BY <2>2, <2>3, <3>2, SessionStepsCover
  <2>4. CASE ListMembers(c) \/ FenceMember(c)
    BY <2>2, <2>4, FencingCovers
  <2>5. CASE AdvertiseObserve(c) \/ AdvertiseTransition(c)
    BY <2>2, <2>5, AdvertisingCovers
  <2>6. ASSUME NEW b \in Accelerators, NEW target \in RequestedStates, TransitionRequest(c, b, target)
        PROVE  Covered(a)'
    BY <2>2, <2>6, TransitionRequestCovers
  <2>7. CASE \/ Connect(c) \/ \E id : HelloCheck(c, id) \/ \E devices : AdvertiseStart(c, devices)
             \/ \E w, b, s : EvaluateRequest(c, w, b, s)
             \/ \E w, s, d : PlanRequest(c, w, s, d)
             \/ \E w, r : RegisterWorkloadRequest(c, w, r)
    BY <2>2, <2>7, OtherRequestsCover
  <2> QED
    BY <1>3, <2>3, <2>4, <2>5, <2>6, <2>7, Zenon DEF ThreadStep, PeerStep
<1> QED
  BY <1>1, <1>2, <1>3, Zenon DEF PlaneNext

(* For any number of connections, agents and devices: a member that        *)
(* accepts new work has a session of its agent boot, or a thread is about  *)
(* to fence it, or its boot gave its session up by GOODBYE or a second     *)
(* HELLO, or another boot's agent has put it to work since.                *)
THEOREM WorkersAreCovered ==
  ASSUME \A claim : IsPlaneClaim(claim) => claim \in Claims
  PROVE  PlaneSpec => []WorkersHaveSessions
<1>1. PlaneInit => WorkersInv
  BY DEF PlaneInit, Init, WorkersInv
<1>2. TypeInv /\ PlaneInv /\ WorkersInv /\ [PlaneNext]_planeVars => WorkersInv'
  BY WorkersStep
<1>3. WorkersInv => WorkersHaveSessions
  BY Zenon DEF WorkersInv, Working, Covered, Exempt, WorkersHaveSessions, Known
<1> QED
  BY <1>1, <1>2, <1>3, PlaneInvariant, PTL DEF PlaneSpec

-----------------------------------------------------------------------------
(* What a holder that checks the epoch may rely on, accepted or not: its   *)
(* epoch is not ahead of the federation's, and in the same run of the      *)
(* coordinator neither is its generation, which has not moved unless the   *)
(* state it saw is still the present one; and likewise for the capability  *)
(* generation and the capabilities of the member it read.                  *)
SawGeneration(h) ==
  h.claim.generation # Unchecked =>
    /\ h.claim.generation \in Gens /\ h.claim.generation <= generation
    /\ h.claim.generation = generation /\ generation < MaxValue => h.seen = Authoritative

SawCapabilities(h) ==
  h.claim.capGen # Unchecked =>
    /\ h.accelerator \in Known
    /\ h.claim.capGen \in Gens /\ h.claim.capGen <= members[h.accelerator].capGen
    /\ h.claim.capGen = members[h.accelerator].capGen /\ h.claim.capGen < MaxValue
         => members[h.accelerator].caps = h.seen[2][h.accelerator].caps

SameRun(h) == mode # "down" /\ h.claim.epoch = epoch /\ epoch < MaxValue

Informed(h) ==
  h.claim.epoch # Unchecked =>
    /\ h.claim.epoch \in Gens /\ h.claim.epoch <= epoch
    /\ SameRun(h) => SawGeneration(h) /\ SawCapabilities(h)

HeldClaims == {held[u] : u \in Users} \ {NoClaim}

(* The invariant: the store knows the epoch, so that a restart cannot      *)
(* bring an epoch back, and every held claim is informed.                  *)
CallersInv ==
  /\ TypeInv /\ EpochDurable
  /\ held = [u \in Users |-> held[u]]
  /\ \A h \in HeldClaims : Informed(h)

-----------------------------------------------------------------------------
(* What a step does to what a holder saw.                                  *)

(* Capabilities never change under the capability generation they had.     *)
LEMMA CapabilitiesMove ==
  ASSUME NEW m \in Member, NEW n, Becomes(m, n)
  PROVE  (n.capGen = m.capGen /\ n.caps = m.caps) \/ n.capGen = NextGen(m.capGen)
<1>1. CASE n \in {m, RetiredMember(m)}
  BY <1>1, Zenon DEF RetiredMember, Member
<1>2. CASE n = ReleasedSource(m)
  BY <1>2 DEF ReleasedSource, Member
<1>3. CASE n = RefreshedMember(m)
  BY <1>3 DEF RefreshedMember, Member
<1>4. ASSUME NEW caps, n = UpdatedMember(m, caps) PROVE n.capGen = NextGen(m.capGen)
  BY <1>4 DEF UpdatedMember, Member
<1>5. ASSUME NEW t, n = TransitionedMember(m, t) PROVE n.capGen = m.capGen /\ n.caps = m.caps
  BY <1>5 DEF TransitionedMember, Member
<1>6. ASSUME NEW p, n = [m EXCEPT !.policy = p] PROVE n.capGen = m.capGen /\ n.caps = m.caps
  BY <1>6 DEF Member
<1> QED
  BY <1>1, <1>2, <1>3, <1>4, <1>5, <1>6, Zenon DEF Becomes

(* A mutation moves on from every generation a holder may have read.       *)
LEMMA MutateInforms ==
  ASSUME TypeInv, TypeInv', NEW c, Mutate(c), NEW h, Informed(h)
  PROVE  Informed(h)'
<1>1. mode = "up" /\ epoch' = epoch /\ mode' # "down"
  BY MutateRuns, Zenon DEF RunningStepOf
<1>2. generation \in Gens /\ generation' = NextGen(generation)
  BY <1>1, MutateAdvances DEF TypeInv, TypeOK
<1>3. ASSUME SawGeneration(h) PROVE SawGeneration(h)'
  <2> SUFFICES ASSUME h.claim.generation # Unchecked
               PROVE  /\ h.claim.generation \in Gens /\ h.claim.generation <= generation'
                      /\ ~(h.claim.generation = generation' /\ generation' < MaxValue)
    BY Zenon DEF SawGeneration
  <2>1. h.claim.generation \in Gens /\ h.claim.generation <= generation
    BY <1>3, ZenonT(60) DEF SawGeneration
  <2> QED
    BY <1>2, <2>1, BoundsAssumption DEF NextGen, Gens
<1>4. ASSUME SawCapabilities(h) PROVE SawCapabilities(h)'
  <2> DEFINE a == h.accelerator
  <2> SUFFICES ASSUME h.claim.capGen # Unchecked
               PROVE  /\ a \in Known' /\ h.claim.capGen \in Gens
                      /\ h.claim.capGen <= members'[a].capGen
                      /\ h.claim.capGen = members'[a].capGen /\ h.claim.capGen < MaxValue
                           => members'[a].caps = h.seen[2][a].caps
    BY Zenon DEF SawCapabilities
  <2>1. /\ a \in Known /\ h.claim.capGen \in Gens /\ h.claim.capGen <= members[a].capGen
        /\ h.claim.capGen = members[a].capGen /\ h.claim.capGen < MaxValue
             => members[a].caps = h.seen[2][a].caps
    BY <1>4, ZenonT(60) DEF SawCapabilities
  <2> HIDE DEF a
  <2>2. a \in Accelerators /\ members[a] \in Member
    BY <2>1 DEF Known, TypeInv, TypeOK, MemberMap
  <2>3. a \in Known'
    BY <2>1, <2>2, MutateKeeps, Zenon DEF Known, KeepsMember
  <2>4. \/ members'[a].capGen = members[a].capGen /\ members'[a].caps = members[a].caps
        \/ members'[a].capGen = NextGen(members[a].capGen)
    BY <2>1, <2>2, MutateBecomes, CapabilitiesMove, Zenon
  <2>5. members[a].capGen \in Gens
    BY <2>2 DEF Member
  <2>6. CASE members'[a].capGen = members[a].capGen /\ members'[a].caps = members[a].caps
    BY <2>1, <2>3, <2>6, Zenon
  <2>7. CASE members'[a].capGen = NextGen(members[a].capGen)
    <3>1. /\ h.claim.capGen <= members'[a].capGen
          /\ ~(h.claim.capGen = members'[a].capGen /\ h.claim.capGen < MaxValue)
      <4>1. ASSUME NEW g \in Gens, NEW k \in Gens, k <= g
            PROVE  k <= NextGen(g) /\ ~(k = NextGen(g) /\ k < MaxValue)
        BY <4>1, BoundsAssumption DEF NextGen, Gens
      <4>2. h.claim.capGen \in Gens /\ h.claim.capGen <= members[a].capGen
        BY <2>1, Zenon
      <4> QED
        BY <4>1, <4>2, <2>5, <2>7, Zenon
    <3> QED
      BY <2>1, <2>3, <3>1, Zenon
  <2> QED
    BY <2>4, <2>6, <2>7
<1>5. SameRun(h)' => SameRun(h)
  BY <1>1 DEF SameRun
<1> QED
  BY <1>1, <1>3, <1>4, <1>5, Zenon DEF Informed

(* A restart leaves every earlier epoch behind.                            *)
LEMMA OpenInforms ==
  ASSUME TypeInv, TypeInv', EpochDurable, Open, NEW h, Informed(h)
  PROVE  Informed(h)'
<1> SUFFICES ASSUME h.claim.epoch # Unchecked
             PROVE  /\ h.claim.epoch \in Gens /\ h.claim.epoch <= epoch'
                    /\ ~(h.claim.epoch = epoch' /\ epoch' < MaxValue)
  BY Zenon DEF Informed, SameRun
<1>1. h.claim.epoch \in Gens /\ h.claim.epoch <= epoch
  BY Zenon DEF Informed
<1>2. epoch \in 0..MaxValue /\ epoch' \in 0..MaxValue
  BY DEF TypeInv, TypeOK
<1>3. epoch' > epoch \/ (epoch = MaxValue /\ epoch' = MaxValue)
  BY OpenRaises
<1> QED
  BY <1>1, <1>2, <1>3, BoundsAssumption DEF Gens

(* Whatever the federation does, every holder stays informed.              *)
LEMMA StepInforms ==
  ASSUME PersistMode = "mutation", TypeInv, TypeInv', EpochDurable,
         [Next]_vars \/ \E c : Mutate(c), NEW h, Informed(h)
  PROVE  EpochDurable' /\ Informed(h)'
<1>1. CASE \E c : Mutate(c)
  <2>1. RunningStepOf
    BY <1>1, MutateRuns, Zenon
  <2> QED
    BY <1>1, <2>1, EpochDurableRunning, MutateInforms, Zenon
<1>2. CASE [Next]_vars
  <2>1. EpochDurable'
    BY <1>2, EpochDurableStep, Zenon
  <2>2. CASE Open
    BY <2>1, <2>2, OpenInforms, Zenon
  <2>3. CASE Crash
    <3>1. mode' = "down" /\ epoch' = epoch
      BY <2>3, Zenon DEF Crash
    <3> QED
      BY <2>1, <3>1, Zenon DEF Informed, SameRun
  <2>4. CASE QuietStep /\ ~Open
    <3>1. mode' # "down" => mode # "down"
      BY <1>2, <2>4, StepKinds, Zenon DEF Crash, RunningStepOf, vars
    <3>2. SameRun(h)' => SameRun(h)
      BY <2>4, <3>1 DEF SameRun, QuietStep
    <3>3. SawGeneration(h)' = SawGeneration(h) /\ SawCapabilities(h)' = SawCapabilities(h)
      BY <2>4, Zenon DEF QuietStep, SawGeneration, SawCapabilities, Authoritative, Known
    <3>4. epoch' = epoch
      BY <2>4 DEF QuietStep
    <3> QED
      BY <2>1, <3>2, <3>3, <3>4, Zenon DEF Informed
  <2>5. ASSUME NEW c, Mutate(c) PROVE EpochDurable' /\ Informed(h)'
    BY <1>1, <2>5
  <2> QED
    BY <1>2, <2>2, <2>3, <2>4, <2>5, QuietOrMutate, Zenon
<1> QED
  BY <1>1, <1>2

(* A claim just made describes the present.                                *)
LEMMA MadeInformed ==
  ASSUME TypeInv, NEW u \in Users, NEW a \in Accelerators, NEW checked \in Shapes,
         TakeClaim(u, a, checked), NEW h,
         h = [claim |-> MakeClaim(a, checked), accelerator |-> a, seen |-> Authoritative]
  PROVE  Informed(h)'
<1> DEFINE c == MakeClaim(a, checked)
<1>1. mode = "up" /\ ("capGen" \in checked => a \in Known) /\ UNCHANGED vars
  BY Zenon DEF TakeClaim
<1>2. epoch \in Gens /\ generation \in Gens
  BY <1>1 DEF TypeInv, TypeOK
<1>3. c.epoch # Unchecked => c.epoch = epoch
  BY Zenon DEF MakeClaim
<1>4. c.generation # Unchecked => c.generation = generation
  BY Zenon DEF MakeClaim
<1>5. c.capGen # Unchecked => a \in Known /\ c.capGen = members[a].capGen
  BY <1>1, ZenonT(60) DEF MakeClaim
<1>6. a \in Known => members[a].capGen \in Gens
  BY DEF Known, TypeInv, TypeOK, MemberMap, Member
<1>7. h.claim = c /\ h.accelerator = a /\ h.seen = Authoritative /\ h.seen[2] = members
  BY DEF Authoritative
<1> HIDE DEF c
<1>8. SawGeneration(h)
  BY <1>2, <1>4, <1>7 DEF SawGeneration, Gens
<1>9. SawCapabilities(h)
  <2>1. ASSUME c.capGen # Unchecked
        PROVE  a \in Known /\ c.capGen \in Gens /\ c.capGen = members[a].capGen
    BY <2>1, <1>5, <1>6, Zenon
  <2>2. \A g \in Gens : g <= g
    BY DEF Gens
  <2> QED
    BY <2>1, <2>2, <1>7, Zenon DEF SawCapabilities
<1>10. Informed(h)
  BY <1>2, <1>3, <1>7, <1>8, <1>9 DEF Informed, Gens
<1> QED
  BY <1>1, <1>10, Zenon
  DEF vars, memory, Informed, SameRun, SawGeneration, SawCapabilities, Known, Authoritative

-----------------------------------------------------------------------------
(* The theorems.                                                           *)

(* The invariant is kept by every step of callers and federation.          *)
LEMMA CallersStep ==
  ASSUME PersistMode = "mutation", CallersInv, [CallersNext]_callerVars
  PROVE  CallersInv'
<1>1. CASE /\ UNCHANGED held
           /\ [Next]_vars \/ \E c : Mutate(c)
  <2>1. TypeInv'
    BY <1>1, TypeStep, MutateType, Zenon DEF CallersInv
  <2>2. EpochDurable'
    <3>1. CASE [Next]_vars
      BY <3>1, EpochDurableStep, Zenon DEF CallersInv
    <3>2. CASE \E c : Mutate(c)
      BY <2>1, <3>2, MutateRuns, EpochDurableRunning, Zenon DEF CallersInv
    <3> QED
      BY <1>1, <3>1, <3>2
  <2>3. ASSUME NEW h \in HeldClaims' PROVE Informed(h)'
    <3>1. h \in HeldClaims
      BY <1>1, Zenon DEF HeldClaims
    <3>2. Informed(h)
      BY <3>1, Zenon DEF CallersInv
    <3> QED
      BY <1>1, <2>1, <3>2, StepInforms, Zenon DEF CallersInv
  <2>4. (held = [u \in Users |-> held[u]])'
    BY <1>1, Zenon DEF CallersInv
  <2> QED
    BY <2>1, <2>2, <2>3, <2>4, Zenon DEF CallersInv
<1>2. ASSUME NEW u \in Users, NEW a \in Accelerators, NEW checked \in Shapes,
             TakeClaim(u, a, checked)
      PROVE  CallersInv'
  <2> DEFINE made == [claim |-> MakeClaim(a, checked), accelerator |-> a, seen |-> Authoritative]
  <2>1. UNCHANGED vars /\ held' = [held EXCEPT ![u] = made]
    BY <1>2, Zenon DEF TakeClaim
  <2>2. TypeInv'
    BY <2>1, TypeStep, Zenon DEF CallersInv
  <2>3. EpochDurable'
    BY <2>1, EpochDurableStep, Zenon DEF CallersInv
  <2>4. ASSUME NEW h \in HeldClaims' PROVE Informed(h)'
    <3>1. h = made \/ h \in HeldClaims
      <4>1. PICK v \in Users : h = held'[v] /\ h # NoClaim
        BY <2>4 DEF HeldClaims
      <4>2. h = made \/ h = held[v]
        BY <2>1, <4>1, Zenon DEF CallersInv
      <4> QED
        BY <4>1, <4>2, Zenon DEF HeldClaims
    <3>2. CASE h = made
      BY <1>2, <3>2, MadeInformed, Zenon DEF CallersInv
    <3>3. CASE h \in HeldClaims
      BY <2>1, <2>2, <3>3, StepInforms, Zenon DEF CallersInv
    <3> QED
      BY <3>1, <3>2, <3>3
  <2>5. (held = [v \in Users |-> held[v]])'
    BY <2>1 DEF CallersInv
  <2> QED
    BY <2>2, <2>3, <2>4, <2>5, Zenon DEF CallersInv
<1> QED
  BY <1>1, <1>2, Zenon DEF CallersNext, callerVars, FederationAlone, PresentClaim

(* The invariant behind the theorems below holds in every state.           *)
THEOREM CallersSafe == ASSUME PersistMode = "mutation" PROVE CallersSpec => []CallersInv
<1>1. CallersInit => CallersInv
  <2> SUFFICES ASSUME CallersInit PROVE CallersInv
    OBVIOUS
  <2>1. Init /\ held = [u \in Users |-> NoClaim]
    BY DEF CallersInit
  <2>2. HeldClaims = {}
    BY <2>1 DEF HeldClaims
  <2>3. TypeInv
    BY <2>1, InitType
  <2>4. EpochDurable
    BY <2>1 DEF Init, EpochDurable
  <2>5. held = [u \in Users |-> held[u]]
    BY <2>1
  <2> QED
    BY <2>2, <2>3, <2>4, <2>5, Zenon DEF CallersInv
<1>2. CallersInv /\ [CallersNext]_callerVars => CallersInv'
  BY CallersStep
<1> QED
  BY <1>1, <1>2, PTL DEF CallersSpec

(* validate_authority_locked accepts a claim that checks the epoch and the *)
(* federation generation only while members, policy, workloads and plans   *)
(* are those its holder saw, through any number of mutations by others,    *)
(* crashes, restarts and failed writes in between.                         *)
THEOREM ClaimsSeeThePresent ==
  ASSUME PersistMode = "mutation" PROVE CallersSpec => []AcceptedClaimsSawThePresent
<1>1. CallersInv => AcceptedClaimsSawThePresent
  <2> SUFFICES ASSUME CallersInv, NEW u \in Users,
                      held[u] # NoClaim, held[u].claim.epoch # Unchecked,
                      held[u].claim.generation # Unchecked,
                      ValidateAuthority(held[u].claim), epoch < MaxValue, generation < MaxValue
               PROVE  held[u].seen = Authoritative
    BY DEF AcceptedClaimsSawThePresent
  <2>1. Informed(held[u])
    BY Zenon DEF CallersInv, HeldClaims
  <2>2. /\ mode = "up" /\ held[u].claim.epoch = epoch /\ held[u].claim.generation = generation
    BY DEF ValidateAuthority
  <2> QED
    BY <2>1, <2>2 DEF Informed, SameRun, SawGeneration
<1> QED
  BY <1>1, CallersSafe, PTL

(* validate_member_authority_locked accepts a claim that checks the epoch  *)
(* and a member's capability generation only while the member has the      *)
(* capabilities its holder saw.                                            *)
THEOREM ClaimsSeeTheCapabilities ==
  ASSUME PersistMode = "mutation" PROVE CallersSpec => []ScopedClaimsSawTheCapabilities
<1>1. CallersInv => ScopedClaimsSawTheCapabilities
  <2> SUFFICES ASSUME CallersInv, NEW u \in Users,
                      held[u] # NoClaim, held[u].claim.epoch # Unchecked,
                      held[u].claim.capGen # Unchecked,
                      ValidateMemberAuthority(held[u].claim, held[u].accelerator),
                      epoch < MaxValue, held[u].claim.capGen < MaxValue
               PROVE  members[held[u].accelerator].caps
                        = held[u].seen[2][held[u].accelerator].caps
    BY DEF ScopedClaimsSawTheCapabilities
  <2>1. Informed(held[u])
    BY ZenonT(60) DEF CallersInv, HeldClaims
  <2>2. /\ mode = "up" /\ held[u].claim.epoch = epoch
        /\ held[u].claim.capGen = members[held[u].accelerator].capGen
    BY DEF ValidateAuthority, ValidateMemberAuthority
  <2> QED
    BY <2>1, <2>2, ZenonT(60) DEF Informed, SameRun, SawCapabilities
<1> QED
  BY <1>1, CallersSafe, PTL
=============================================================================
