------------------------------- MODULE Server -------------------------------
(***************************************************************************)
(* ControlServer of src/net/server.cpp: the accept thread, one detached    *)
(* worker thread per connection, and the thread that calls start() and     *)
(* stop().  What a worker does with its requests is in Channel.            *)
(***************************************************************************)
EXTENDS Integers, FiniteSets, Sequences

CONSTANTS
  Connections,     \* connections that peers may open
  MaxConnections   \* config_.max_connections

ASSUME LimitAssumption == MaxConnections \in Nat \ {0} /\ IsFiniteSet(Connections)

VARIABLES
  stopping,  \* stopping_
  acceptor,  \* the accept thread
  backlog,   \* connections the listener has queued
  inHand,    \* the connection accept() has returned, as a set of at most one
  conn,      \* the state of each connection and of its worker thread
  live,      \* live_sockets_
  shut,      \* sockets that stop() has closed
  active,    \* active_
  caller     \* the thread that starts and stops the server

vars == <<stopping, acceptor, backlog, inHand, conn, live, shut, active, caller>>

(* A worker inside connection_loop: about to test stopping_, reading a     *)
(* request, handling it, or in send() with the response.                   *)
InLoop == {"running", "reading", "handling", "busy"}

(* From there to its end it erases its entry, counts itself down and       *)
(* notifies; active_ counts it until the second of these.                  *)
Counted == InLoop \cup {"left", "erased"}

Init ==
  /\ stopping = FALSE /\ acceptor = "none" /\ backlog = <<>> /\ inHand = {}
  /\ live = {} /\ shut = {} /\ active = 0
  /\ conn = [c \in Connections |-> "none"]
  /\ caller = "stopped"

Set(c, s) == conn' = [conn EXCEPT ![c] = s]

-----------------------------------------------------------------------------
(* Peers.                                                                  *)

Arrive(c) ==
  /\ caller = "serving" /\ conn[c] = "none"
  /\ Set(c, "waiting") /\ backlog' = Append(backlog, c)
  /\ UNCHANGED <<stopping, acceptor, inHand, live, shut, active, caller>>

-----------------------------------------------------------------------------
(* The accept thread.                                                      *)

(* The loop looks at stopping_ before every accept(), not after it.        *)
Accept ==
  /\ acceptor = "accepting"
  /\ \/ /\ stopping /\ acceptor' = "none"
        /\ UNCHANGED <<backlog, inHand, conn>>
     \/ /\ backlog # <<>>
        /\ inHand' = {Head(backlog)} /\ backlog' = Tail(backlog) /\ Set(Head(backlog), "accepted")
        /\ acceptor' = "deciding"
  /\ UNCHANGED <<stopping, live, shut, active, caller>>

(* Mutant: one connection more than the limit is let in.                   *)
FullOffByOne == active > MaxConnections

Full == active >= MaxConnections

(* Mutant: the accept thread ends when the limit is reached.               *)
DecideOrGiveUp ==
  /\ acceptor = "deciding"
  /\ \E c \in inHand :
       IF Full
       THEN Set(c, "none") /\ acceptor' = "none" /\ inHand' = {} /\ live' = live
       ELSE live' = live \cup {c} /\ acceptor' = "starting" /\ UNCHANGED <<inHand, conn>>
  /\ caller # "holding"
  /\ UNCHANGED <<stopping, backlog, shut, active, caller>>

(* A connection over the limit is told so and closed; one within it gets   *)
(* an entry in live_sockets_.                                              *)
Decide ==
  /\ acceptor = "deciding"
  /\ \E c \in inHand :
       IF Full
       THEN Set(c, "none") /\ acceptor' = "accepting" /\ inHand' = {} /\ live' = live
       ELSE live' = live \cup {c} /\ acceptor' = "starting" /\ UNCHANGED <<inHand, conn>>
  /\ caller # "holding"
  /\ UNCHANGED <<stopping, backlog, shut, active, caller>>

StartWorker ==
  /\ acceptor = "starting"
  /\ \E c \in inHand : Set(c, "running")
  /\ acceptor' = "accepting" /\ inHand' = {}
  /\ active' = active + 1
  /\ UNCHANGED <<stopping, backlog, live, shut, caller>>

-----------------------------------------------------------------------------
(* Worker threads.                                                         *)

WorkerMoves(c, from, to) ==
  /\ conn[c] = from /\ Set(c, to)
  /\ UNCHANGED <<stopping, acceptor, backlog, inHand, live, shut, active, caller>>

(* stopping_ is tested before a request is read, and at no other place.    *)
TestLoop(c) == WorkerMoves(c, "running", IF stopping THEN "left" ELSE "reading")

(* A request is there, or a frame that is malformed: that is answered too, *)
(* and then the loop ends.                                                 *)
Serve(c) == c \notin shut /\ WorkerMoves(c, "reading", "handling")

(* Mutant: a read that fails is tried again, without a look at stopping_.  *)
ReadAgain(c) == conn[c] = "reading" /\ UNCHANGED vars

(* The peer or stop() has closed the socket, or a part of the request has  *)
(* not come for thirty seconds.                                            *)
ReadFails(c) == WorkerMoves(c, "reading", "left")

(* write_all() finds the socket closed, or has to send; a response that    *)
(* cannot be encoded ends the loop too.                                    *)
Handled(c) ==
  \/ c \notin shut /\ WorkerMoves(c, "handling", "busy")
  \/ WorkerMoves(c, "handling", "left")

(* send() has no timeout: it ends when the peer reads or is gone.  The     *)
(* loop ends when it failed or the request was GOODBYE.                    *)
Written(c) == WorkerMoves(c, "busy", "running") \/ WorkerMoves(c, "busy", "left")

EraseEntry(c) ==
  /\ conn[c] = "left" /\ caller # "holding"
  /\ Set(c, "erased") /\ live' = live \ {c} /\ shut' = shut \ {c}
  /\ UNCHANGED <<stopping, acceptor, backlog, inHand, active, caller>>

CountDown(c) ==
  /\ conn[c] = "erased"
  /\ Set(c, "counted") /\ active' = active - 1
  /\ UNCHANGED <<stopping, acceptor, backlog, inHand, live, shut, caller>>

(* notify_all is called without the mutex: it wakes stop() only if that is *)
(* already blocked.                                                        *)
Notify(c) ==
  /\ conn[c] = "counted"
  /\ Set(c, "none")
  /\ caller' = IF caller = "blocked" THEN "checking" ELSE caller
  /\ UNCHANGED <<stopping, acceptor, backlog, inHand, live, shut, active>>

-----------------------------------------------------------------------------
(* start() and stop().                                                     *)

Start ==
  /\ caller = "stopped"
  /\ caller' = "serving" /\ acceptor' = "accepting" /\ stopping' = FALSE
  /\ UNCHANGED <<backlog, inHand, conn, live, shut, active>>

(* Closing the listener refuses the peers that are still waiting.          *)
Stop ==
  /\ caller = "serving"
  /\ caller' = "joining" /\ stopping' = TRUE /\ backlog' = <<>>
  /\ conn' = [c \in Connections |-> IF conn[c] = "waiting" THEN "none" ELSE conn[c]]
  /\ UNCHANGED <<acceptor, inHand, live, shut, active>>

(* Mutant: the accept thread is not waited for.                            *)
JoinNothing ==
  /\ caller = "joining"
  /\ caller' = "closing"
  /\ UNCHANGED <<stopping, acceptor, backlog, inHand, conn, live, shut, active>>

Join ==
  /\ caller = "joining" /\ acceptor = "none"
  /\ caller' = "closing"
  /\ UNCHANGED <<stopping, acceptor, backlog, inHand, conn, live, shut, active>>

CloseSockets ==
  /\ caller = "closing"
  /\ shut' = shut \cup live
  /\ caller' = "checking"
  /\ UNCHANGED <<stopping, acceptor, backlog, inHand, conn, live, active>>

(* The condition is evaluated with the mutex held.                         *)
Check ==
  /\ caller = "checking"
  /\ IF active = 0 THEN caller' = "stopped" /\ live' = {} ELSE caller' = "holding" /\ live' = live
  /\ UNCHANGED <<stopping, acceptor, backlog, inHand, conn, shut, active>>

Block ==
  /\ caller = "holding"
  /\ caller' = "blocked"
  /\ UNCHANGED <<stopping, acceptor, backlog, inHand, conn, live, shut, active>>

(* Mutant: the wait is repeated until the workers are gone.                *)
WaitAgain ==
  /\ caller = "blocked"
  /\ caller' = "checking"
  /\ UNCHANGED <<stopping, acceptor, backlog, inHand, conn, live, shut, active>>

(* After thirty seconds stop() returns whatever is still running.          *)
WaitTimeout ==
  /\ caller = "blocked"
  /\ caller' = "stopped" /\ live' = {}
  /\ UNCHANGED <<stopping, acceptor, backlog, inHand, conn, shut, active>>

AcceptStep == Accept \/ Decide \/ StartWorker

StopStep == Join \/ CloseSockets \/ Check \/ Block \/ WaitTimeout

(* What a worker does without waiting for its peer: reads time out.        *)
WorkerStep(c) ==
  \/ TestLoop(c) \/ Serve(c) \/ ReadFails(c) \/ Handled(c)
  \/ EraseEntry(c) \/ CountDown(c) \/ Notify(c)

Next ==
  \/ Start \/ Stop \/ StopStep \/ AcceptStep
  \/ \E c \in Connections : Arrive(c) \/ Written(c) \/ WorkerStep(c)

(* The threads run, handlers return, accept() and reads time out and an    *)
(* accept() that fails succeeds later; a peer need not read its responses, *)
(* so Written is not fair.                                                 *)
Spec ==
  /\ Init /\ [][Next]_vars
  /\ WF_vars(AcceptStep) /\ WF_vars(StopStep)
  /\ \A c \in Connections : WF_vars(WorkerStep(c))

-----------------------------------------------------------------------------
(* Properties.                                                             *)

(* Never more workers than the limit, through any number of restarts of    *)
(* the server with old workers still running; the counter the limit is     *)
(* checked against counts every worker that can still touch a connection.  *)
WorkersWithinLimit ==
  /\ active <= MaxConnections
  /\ Cardinality({c \in Connections : conn[c] \in Counted}) = active

(* When stop() waits for the workers, every connection that is still       *)
(* served has had its socket closed: none was accepted behind its back.    *)
StopClosesEveryone ==
  caller \in {"checking", "holding", "blocked"} =>
    /\ acceptor = "none" /\ inHand = {}
    /\ \A c \in Connections : conn[c] \in InLoop => c \in shut

(* stop() returns, even when a worker is stuck sending to a peer that does *)
(* not read, and when the last worker's wake-up comes before stop() sleeps.*)
StopReturns == caller = "joining" ~> caller = "stopped"

(* A peer that connected is served, told that the limit is reached, or     *)
(* disconnected because the server stops; it is never left waiting.        *)
PeersAreAnswered == \A c \in Connections : conn[c] = "waiting" ~> conn[c] # "waiting"

(* Once the server stops every worker ends, so that its members are fenced *)
(* and its place is free, wherever in its loop it was: the request it was  *)
(* reading may still be handled and answered, and only a peer that never   *)
(* reads the answer keeps the worker in send() for good.                   *)
WorkersEnd ==
  \A c \in Connections :
    []<>(conn[c] # "busy") => (stopping /\ conn[c] \in InLoop ~> conn[c] = "none" \/ ~stopping)
=============================================================================
