---------------------------- MODULE AgentProgram ----------------------------
(***************************************************************************)
(* The agent program (apps/agent_main.cpp) on its connection: HELLO, one   *)
(* ADVERTISE, heartbeats, GOODBYE.  At the other end the handlers of the   *)
(* control plane, reduced to what they do to this connection's session and *)
(* to the agent's device; ControlPlane has them in full.                   *)
(***************************************************************************)
EXTENDS Channel

VARIABLES
  step,      \* where the program is
  session,   \* whether the connection has a session
  device,    \* the agent's member: "unknown", "live" or "fenced"
  farewell   \* whether a GOODBYE was handled

agentVars == <<channel, step, session, device, farewell>>

ExitStep == "exit"

Init ==
  /\ ChannelInit
  /\ step = "Hello" /\ session = FALSE /\ device = "unknown" /\ farewell = FALSE

-----------------------------------------------------------------------------
(* The program.  The last sequence number is kept for GOODBYE.             *)

AgentSends ==
  /\ step \in Types /\ Send(step)
  /\ step = "Heartbeat" => sequence < MaxSequence
  /\ UNCHANGED <<step, session, device, farewell>>

(* Mutant: an advertisement that was refused is not noticed.               *)
AfterAnswerTrusting(error) ==
  CASE step = "Hello" /\ ~error -> "Advertise"
    [] step = "Advertise" -> "Heartbeat"
    [] step = "Heartbeat" -> IF error THEN "Goodbye" ELSE "Heartbeat"
    [] OTHER -> ExitStep

AfterAnswer(error) ==
  CASE step = "Hello" /\ ~error -> "Advertise"
    [] step = "Advertise" /\ ~error -> "Heartbeat"
    [] step = "Heartbeat" -> IF error THEN "Goodbye" ELSE "Heartbeat"
    [] OTHER -> ExitStep

AgentReceives ==
  /\ Receive
  /\ step' = AfterAnswer(Head(toClient).error)
  /\ UNCHANGED <<session, device, farewell>>

(* After a failed heartbeat the program still says GOODBYE.                *)
AgentFails ==
  /\ Fail
  /\ step' = IF step = "Heartbeat" THEN "Goodbye" ELSE ExitStep
  /\ UNCHANGED <<session, device, farewell>>

AgentStops ==
  /\ step = "Heartbeat" /\ pending = NoRequest
  /\ step' = "Goodbye"
  /\ UNCHANGED <<channel, session, device, farewell>>

AgentExits ==
  /\ step = ExitStep /\ CloseClient
  /\ step' = "exited"
  /\ UNCHANGED <<session, device, farewell>>

AgentDies ==
  /\ step # "exited"
  /\ step' = "exited" /\ clientOpen' = FALSE /\ pending' = NoRequest /\ toClient' = <<>>
  /\ UNCHANGED <<toServer, sequence, delivered, server, session, device, farewell>>

-----------------------------------------------------------------------------
(* The handlers.                                                           *)

HandleHello(refused) ==
  session' = (session \/ ~refused) /\ UNCHANGED <<device, farewell>>

(* A refused advertisement may have been carried out for some devices.     *)
HandleAdvertise(refused) ==
  /\ ~session => refused
  /\ device' \in IF ~session THEN {device}
                 ELSE IF refused THEN {device, "live"} ELSE {"live"}
  /\ UNCHANGED <<session, farewell>>

(* The program's claim names its agent and boot and no generation, so only *)
(* the session is looked at.                                               *)
HandleHeartbeat(refused) ==
  (~session <=> refused) /\ UNCHANGED <<session, device, farewell>>

HandleGoodbye(refused) ==
  ~refused /\ session' = FALSE /\ farewell' = TRUE /\ UNCHANGED device

Handle(r, refused) ==
  CASE r.type = "Hello" -> HandleHello(refused)
    [] r.type = "Advertise" -> HandleAdvertise(refused)
    [] r.type = "Heartbeat" -> HandleHeartbeat(refused)
    [] r.type = "Goodbye" -> HandleGoodbye(refused)

WorkerReads ==
  /\ \E refused \in BOOLEAN :
       /\ Read(refused)
       /\ IF Repeats(Head(toServer)) THEN UNCHANGED <<session, device, farewell>>
          ELSE Handle(Head(toServer), refused)
  /\ UNCHANGED step

(* Mutant: the end of a connection with a session leaves the device alone. *)
WorkerJustCloses ==
  /\ Teardown
  /\ session' = FALSE /\ UNCHANGED <<device, step, farewell>>

WorkerTearsDown ==
  /\ Teardown
  /\ session' = FALSE
  /\ device' = IF session /\ device = "live" THEN "fenced" ELSE device
  /\ UNCHANGED <<step, farewell>>

WorkerSteps ==
  \/ WorkerReads \/ WorkerTearsDown
  \/ (ReadUnsound \/ Write) /\ UNCHANGED <<step, session, device, farewell>>

WorkerGivesUp == GiveUp /\ UNCHANGED <<step, session, device, farewell>>

ProgramSteps == AgentSends \/ AgentReceives \/ AgentFails \/ AgentExits

Next ==
  \/ ProgramSteps \/ AgentStops \/ AgentDies \/ WorkerSteps \/ WorkerGivesUp
  \/ Resend /\ UNCHANGED <<step, session, device, farewell>>

(* Both threads run; a read of a closed connection fails, and a request    *)
(* that is not answered times out.  The bound on heartbeats ends the       *)
(* program's loop.                                                         *)
Spec ==
  /\ Init /\ [][Next]_agentVars
  /\ WF_agentVars(ProgramSteps) /\ WF_agentVars(WorkerSteps)
  /\ WF_agentVars(AgentStops /\ sequence = MaxSequence)
  /\ WF_agentVars(WorkerGivesUp /\ ~clientOpen /\ toServer = <<>>)

-----------------------------------------------------------------------------
(* Properties.                                                             *)

(* A response that request() returns is the answer to that request, though *)
(* earlier requests may have timed out with their answers still on the way *)
(* and the stream may have lost its frame boundaries.                      *)
AnswersMatchRequests ==
  delivered # <<>> =>
    delivered[1].type = delivered[2].answers /\ delivered[1].sequence = delivered[2].sequence

(* The handler sees the requests of a connection in order, each at most    *)
(* once, whatever is sent again.                                           *)
HandledInOrder == \A i, j \in DOMAIN handled : i < j => handled[i] < handled[j]

(* While the program sends heartbeats and its connection is served, the    *)
(* coordinator has its session and its device.                             *)
ReadyMeansEstablished ==
  step = "Heartbeat" /\ worker \in {"reading", "writing"} => session /\ device = "live"

(* When the program is gone, wherever it died, its session ends, and its   *)
(* device does not stay live unless it said GOODBYE.                       *)
DeadAgentsAreFenced == step = "exited" ~> ~session /\ (device # "live" \/ farewell)

(* A program whose connection the coordinator has given up notices and     *)
(* exits.                                                                  *)
AgentsNotice == worker = "closed" ~> step = "exited"
=============================================================================
