---------------------------- MODULE ControlPlane ----------------------------
(***************************************************************************)
(* The control plane of src/net/control_plane.cpp on top of the federation:*)
(* one thread per connection runs the handlers, the table of sessions has  *)
(* a lock of its own, and every call of the federation is a step that      *)
(* other threads can come between.  A connection is served one request at  *)
(* a time; its end is noticed between two requests.                        *)
(***************************************************************************)
EXTENDS Federation

CONSTANTS
  Connections,
  Identities,      \* the <<agent, boot>> pairs agents present in HELLO
  Inspector,       \* the identity of a session that is not an agent's
  NoSession,
  NoTarget,
  RequestedStates, \* what agents ask for in TRANSITION
  RequestedSources,\* the sources named in EVALUATE
  StrictPolicies,  \* policies that require real evidence for active members
  RealEvidence     \* accelerators whose evidence is real

Owner(a) == <<Agent[a], Boot[a]>>

ASSUME SessionAssumption ==
  /\ Identities = {Owner(a) : a \in Accelerators} /\ Inspector \notin Identities
  /\ \A id \in Identities : Unchecked \notin {id[1], id[2]}   \* nil identities are refused
  /\ NoSession \notin [identity: Identities \cup {Inspector}, epoch: Gens]
  /\ NoTarget \notin MemberStates /\ RequestedStates \subseteq MemberStates

VARIABLES
  sessions,  \* sessions_: the session of each connection
  task,      \* what the thread of each connection is doing
  released,  \* identities whose last session was given up by GOODBYE or by a
             \* second HELLO
  adopted    \* members that another boot's session put to work by TRANSITION while
             \* theirs had none; no code keeps these two, only properties use them

ghosts == <<released, adopted>>
plane == <<sessions, task, ghosts>>
planeVars == <<vars, plane>>

Closed == [op |-> "closed"]
Idle == [op |-> "idle"]
Greeting(id) == [op |-> "hello", identity |-> id]
Advertising(devices, d, state) ==
  [op |-> "advertise", todo |-> devices, device |-> d, observed |-> state, rules |-> policy]
Ended(id) == [op |-> "ended", identity |-> id]
Fencing(devices) == [op |-> "fencing", pending |-> devices]

IsAgent(s) == s # NoSession /\ s.identity # Inspector

AgentOf(s) == IF IsAgent(s) THEN {s.identity} ELSE {}

Become(c, t) == task' = [task EXCEPT ![c] = t]

PlaneInit ==
  /\ Init
  /\ sessions = [c \in Connections |-> NoSession]
  /\ task = [c \in Connections |-> Closed]
  /\ released = {} /\ adopted = {}

-----------------------------------------------------------------------------
(* Sessions.                                                               *)

Connect(c) ==
  /\ mode # "down" /\ task[c] = Closed
  /\ Become(c, Idle)
  /\ UNCHANGED <<vars, sessions, ghosts>>

(* The table is searched under its lock, which is then released.           *)
HelloCheck(c, id) ==
  /\ task[c] = Idle
  /\ id # Inspector => \A d \in Connections \ {c} : id \notin AgentOf(sessions[d])
  /\ Become(c, Greeting(id))
  /\ UNCHANGED <<vars, sessions, ghosts>>

(* A session the connection already had is overwritten.                    *)
HelloInsert(c) ==
  /\ task[c].op = "hello"
  /\ LET id == task[c].identity IN
       /\ sessions' = [sessions EXCEPT ![c] = [identity |-> id, epoch |-> epoch]]
       /\ released' = (released \cup AgentOf(sessions[c])) \ {id}
       /\ adopted' = {a \in adopted : Owner(a) # id}
  /\ Become(c, Idle)
  /\ UNCHANGED vars

(* validate_session_authority                                              *)
Established(c) == task[c] = Idle /\ sessions[c] # NoSession /\ sessions[c].epoch = epoch

EstablishedAgent(c) == Established(c) /\ IsAgent(sessions[c])

(* The session is erased before the server leaves its loop, which then     *)
(* finds nothing to fence.                                                 *)
Goodbye(c) ==
  /\ task[c] = Idle
  /\ released' = released \cup AgentOf(sessions[c])
  /\ sessions' = [sessions EXCEPT ![c] = NoSession]
  /\ Become(c, Closed)
  /\ UNCHANGED <<vars, adopted>>

(* Mutant: the connection's end is acted on while a handler is running.    *)
DisconnectAnytime(c) ==
  /\ task[c].op \in {"idle", "advertise"}
  /\ sessions' = [sessions EXCEPT ![c] = NoSession]
  /\ Become(c, IF task[c].op = "advertise" THEN task[c]
               ELSE IF IsAgent(sessions[c]) THEN Ended(sessions[c].identity) ELSE Closed)
  /\ UNCHANGED <<vars, ghosts>>

(* on_disconnected: the session is copied and erased under the lock.       *)
Disconnect(c) ==
  /\ task[c] = Idle
  /\ sessions' = [sessions EXCEPT ![c] = NoSession]
  /\ Become(c, IF IsAgent(sessions[c]) THEN Ended(sessions[c].identity) ELSE Closed)
  /\ UNCHANGED <<vars, ghosts>>

(* Mutant: draining members are all that is fenced.                        *)
DrainingMembersOf(id) == {a \in Known : Owner(a) = id /\ members[a].state = "Draining"}

LiveMembersOf(id) ==
  {a \in Known : Owner(a) = id /\ IsLive(members[a].state) /\ members[a].state # "Fenced"}

FenceOrClose(devices) == IF devices = {} THEN Closed ELSE Fencing(devices)

(* members() returns a copy; what changes afterwards is not seen.          *)
ListMembers(c) ==
  /\ task[c].op = "ended"
  /\ Become(c, FenceOrClose(LiveMembersOf(task[c].identity)))
  /\ UNCHANGED <<vars, sessions, ghosts>>

-----------------------------------------------------------------------------
(* Calls of the federation by handlers.                                    *)

AnyClaim == [generation |-> Unchecked, epoch |-> Unchecked, agent |-> Unchecked,
             boot |-> Unchecked, capGen |-> Unchecked, policy |-> Unchecked]

(* What on_disconnected claims when it fences a member of the session.     *)
FenceClaim(a) == [AnyClaim EXCEPT !.epoch = epoch, !.agent = Agent[a], !.boot = Boot[a]]

(* Whether the call that is being made reports success.                    *)
Reported == Writes(FALSE) => store' = Snapshot'

TransitionRefused(claim, a, target) ==
  \/ ~ValidateAuthority(claim) \/ a \notin Known
  \/ ~ValidateMemberAuthority(claim, a)
  \/ members[a].state # target /\ ~LegalTransition(members[a].state, target)

(* Federation::transition with what follows a success and a failure; the   *)
(* state a member already has is a success that changes nothing.           *)
CallTransition(claim, a, target, Done, Failed) ==
  \/ Transition(claim, a, target) /\ (IF Reported THEN Done ELSE Failed)
  \/ /\ ~TransitionRefused(claim, a, target) /\ members[a].state = target
     /\ UNCHANGED vars /\ Done
  \/ TransitionRefused(claim, a, target) /\ UNCHANGED vars /\ Failed

(* Mutant: the loop is left after the first member.                        *)
FenceFirstMember(c) ==
  /\ task[c].op = "fencing"
  /\ \E a \in task[c].pending :
       CallTransition(FenceClaim(a), a, "Fenced",
                      Become(c, Closed), Become(c, Closed))
  /\ UNCHANGED <<sessions, ghosts>>

(* on_disconnected, one member: a refusal is ignored.                      *)
FenceMember(c) ==
  /\ task[c].op = "fencing"
  /\ \E a \in task[c].pending :
       LET rest == Become(c, FenceOrClose(task[c].pending \ {a}))
       IN  CallTransition(FenceClaim(a), a, "Fenced", rest, rest)
  /\ UNCHANGED <<sessions, ghosts>>

-----------------------------------------------------------------------------
(* Advertisement: observe, admit and activate each device, in an order     *)
(* the agent chose; the first failure ends the request.  The claim is the  *)
(* peer's: agent and boot are the session's, as are the devices, and every *)
(* call is refused if the claim checks a generation that has moved on.     *)

AdvertiseStart(c, devices) ==
  /\ EstablishedAgent(c) /\ devices # {}
  /\ \A a \in devices : Owner(a) = sessions[c].identity
  /\ Become(c, Advertising(devices, NoMember, NoTarget))
  /\ UNCHANGED <<vars, sessions, ghosts>>

(* The transition that follows when a call has returned a member in state. *)
NextTarget(a, state, rules) ==
  CASE state = "Observed" -> "Admitted"
    [] state = "Admitted" /\ (rules \in StrictPolicies => a \in RealEvidence) -> "Active"
    [] state = "Degraded" -> "Active"
    [] OTHER -> NoTarget

(* Mutant: a finished device stays on the list.                            *)
ContinueSame(c, a, state) ==
  LET t == task[c] IN
    Become(c, IF NextTarget(a, state, t.rules) # NoTarget
              THEN [t EXCEPT !.device = a, !.observed = state]
              ELSE [t EXCEPT !.device = NoMember, !.observed = NoTarget])

(* What is left of the advertisement once device a is in state.            *)
Continue(c, a, state) ==
  LET t == task[c] IN
    Become(c, IF NextTarget(a, state, t.rules) # NoTarget
              THEN [t EXCEPT !.device = a, !.observed = state]
              ELSE IF t.todo = {a} THEN Idle
              ELSE [t EXCEPT !.todo = @ \ {a}, !.device = NoMember, !.observed = NoTarget])

RefuseClaim(c) == UNCHANGED vars /\ Become(c, Idle)

AdvertiseObserve(c) ==
  /\ task[c].op = "advertise" /\ task[c].device = NoMember
  /\ \/ \E a \in task[c].todo, caps \in Capabilities :
          /\ ObserveNew(AnyClaim, a, caps, FALSE) \/ ObserveAgain(AnyClaim, a, caps, FALSE)
          /\ IF Reported THEN Continue(c, a, members'[a].state) ELSE Become(c, Idle)
     \/ RefuseClaim(c)
  /\ UNCHANGED <<sessions, ghosts>>

AdvertiseTransition(c) ==
  /\ task[c].op = "advertise" /\ task[c].device # NoMember
  /\ \/ LET a == task[c].device
            target == NextTarget(a, task[c].observed, task[c].rules)
        IN  CallTransition(AnyClaim, a, target, Continue(c, a, target), Become(c, Idle))
     \/ RefuseClaim(c)
  /\ UNCHANGED <<sessions, ghosts>>

-----------------------------------------------------------------------------
(* Requests that make one call.  QUERY and HEARTBEAT change nothing.  The  *)
(* claims are the peers', so each of these calls may be refused as well.   *)

HasSession(a) == \E c \in Connections : Owner(a) \in AgentOf(sessions[c])

(* A thread that will still fence a.                                       *)
WillFence(a) ==
  \E c \in Connections :
    \/ task[c].op = "ended" /\ task[c].identity = Owner(a)
    \/ task[c].op = "fencing" /\ a \in task[c].pending

(* The claim names the session's agent and boot, but whether they are      *)
(* compared with the member's is for the peer to say: a session can move   *)
(* the member of another agent.                                            *)
TransitionRequest(c, a, target) ==
  /\ EstablishedAgent(c)
  /\ Transition(AnyClaim, a, target)
  /\ adopted' = IF AcceptsNewWork(target) /\ ~HasSession(a) /\ ~WillFence(a)
                THEN adopted \cup {a} ELSE adopted
  /\ UNCHANGED <<sessions, task, released>>

EvaluateRequest(c, w, a, s) == Established(c) /\ Evaluate(w, a, s) /\ UNCHANGED plane

PlanRequest(c, w, s, d) ==
  /\ Established(c)
  /\ PlanMigration(AnyClaim, w, s, d) \/ (s = d /\ PlanOntoItself(AnyClaim, w, s))
  /\ UNCHANGED plane

RegisterWorkloadRequest(c, w, r) ==
  Established(c) /\ RegisterWorkload(AnyClaim, w, r) /\ UNCHANGED plane

-----------------------------------------------------------------------------

(* Death of the coordinator ends every connection.                         *)
PlaneCrash ==
  /\ Crash
  /\ sessions' = [c \in Connections |-> NoSession]
  /\ task' = [c \in Connections |-> Closed]
  /\ released' = {} /\ adopted' = {}

(* What a thread does of its own accord once a request or the end of the   *)
(* connection has been noticed.                                            *)
ThreadStep(c) ==
  HelloInsert(c) \/ AdvertiseObserve(c) \/ AdvertiseTransition(c) \/ ListMembers(c) \/ FenceMember(c)

PeerStep(c) ==
  \/ Connect(c) \/ Goodbye(c) \/ Disconnect(c)
  \/ \E id \in Identities \cup {Inspector} : HelloCheck(c, id)
  \/ \E devices \in SUBSET Accelerators : AdvertiseStart(c, devices)
  \/ \E a \in Accelerators, target \in RequestedStates : TransitionRequest(c, a, target)
  \/ \E w \in Workloads, a \in Accelerators, s \in RequestedSources : EvaluateRequest(c, w, a, s)
  \/ \E w \in Workloads, s, d \in Accelerators : PlanRequest(c, w, s, d)
  \/ \E w \in Workloads, r \in Profiles : RegisterWorkloadRequest(c, w, r)

PlaneNext ==
  \/ (Open \/ Shutdown) /\ UNCHANGED plane
  \/ PlaneCrash
  \/ \E c \in Connections : ThreadStep(c) \/ PeerStep(c)

(* A thread inside a handler keeps running; peers promise nothing.         *)
PlaneSpec ==
  PlaneInit /\ [][PlaneNext]_planeVars /\ \A c \in Connections : WF_planeVars(ThreadStep(c))

-----------------------------------------------------------------------------
(* Properties.                                                             *)

(* The session a handler of an advertisement looked up, and keeps a        *)
(* pointer to while it calls the federation, is in the table until the     *)
(* handler returns, and the devices are that session's.                    *)
HandlersKeepTheirSession ==
  \A c \in Connections : task[c].op = "advertise" =>
    /\ IsAgent(sessions[c]) /\ sessions[c].epoch = epoch
    /\ \A a \in task[c].todo : Owner(a) = sessions[c].identity

(* A member that accepts new work has a session of its agent boot, or a    *)
(* thread is about to fence it, whichever connections of the boot overlap  *)
(* and wherever advertisements stopped.  The exceptions, until the boot is *)
(* back with another HELLO: its session was given up by GOODBYE or by a    *)
(* second HELLO (on_disconnected then finds none), or another boot's agent *)
(* has put the member to work since the session ended (handle_transition). *)
WorkersHaveSessions ==
  mode = "up" => \A a \in Known : AcceptsNewWork(members[a].state) =>
    HasSession(a) \/ WillFence(a) \/ Owner(a) \in released \/ a \in adopted

Orphan(a) ==
  /\ mode = "up" /\ a \in Known /\ AcceptsNewWork(members[a].state)
  /\ ~HasSession(a) /\ Owner(a) \notin released /\ a \notin adopted

(* A member whose session is lost is fenced before long, unless its agent  *)
(* comes back meanwhile or the coordinator stops.                          *)
OrphansAreFenced == \A a \in Accelerators : Orphan(a) ~> ~Orphan(a)

(* Every handler and every end of a session runs to completion.            *)
ThreadsComeToRest ==
  \A c \in Connections : task[c] \notin {Idle, Closed} ~> task[c] \in {Idle, Closed}

(* README.md: "An agent session that ends fences every member it owned, so *)
(* a dead or half-open session can never keep a device eligible for new    *)
(* work."                                                                  *)
EndedSessionsKeepNoWork ==
  mode = "up" => \A a \in Known :
    AcceptsNewWork(members[a].state) => HasSession(a) \/ WillFence(a)
=============================================================================
