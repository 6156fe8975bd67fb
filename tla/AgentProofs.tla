----------------------------- MODULE AgentProofs -----------------------------
(***************************************************************************)
(* Proofs about one connection and the agent program on it, for any number *)
(* of requests, however many of them time out, are sent again, damaged or  *)
(* answered after their sender gave up.                                    *)
(***************************************************************************)
EXTENDS AgentProgram, TLAPS

Response == [answers: Types \cup {"none", "remainder"}, sequence: 0..MaxSequence, error: BOOLEAN]

(* The types of the state.                                                 *)
TypeOK ==
  /\ toServer \in Seq(Request) /\ toClient \in Seq(Response)
  /\ sequence \in 1..(MaxSequence + 1)
  /\ pending \in Request \cup {NoRequest}
  /\ clientOpen \in BOOLEAN
  /\ worker \in {"reading", "writing", "leaving", "closed"}
  /\ reply \in Seq(Response)
  /\ last \in 0..MaxSequence /\ handled \in Seq(0..MaxSequence)
  /\ step \in Types \cup {ExitStep, "exited"}
  /\ session \in BOOLEAN /\ device \in {"unknown", "live", "fenced"} /\ farewell \in BOOLEAN

(* What is on its way or in work.                                          *)
Requests == ToSet(toServer) \cup ({pending} \ {NoRequest})
Responses == ToSet(toClient) \cup ToSet(reply)

(* A sequence number means one request: what is around under the same      *)
(* number has the same type, and the next number is unused.                *)
SequencesIdentify ==
  /\ \A q \in Requests : q.sequence < sequence
  /\ \A m \in Responses : m.sequence < sequence
  /\ \A q, r \in Requests : q.sequence = r.sequence => q.type = r.type
  /\ \A q \in Requests, m \in Responses : q.sequence = m.sequence => q.type = m.answers

(* last_request_sequence is that of the last request handled.              *)
HandledSoFar == HandledInOrder /\ \A i \in DOMAIN handled : handled[i] <= last

Early == {"Hello", "Advertise", "Heartbeat"}
Serving == worker \in {"reading", "writing"}
Established == session /\ device = "live"

(* GOODBYE is on the way only when the program has left its loop, and      *)
(* nothing else ends a session that is served; so the answer to the        *)
(* advertisement, once it is under way, stays true.                        *)
ReadyInv ==
  /\ pending # NoRequest => pending.type = step
  /\ step \in Early => \A q \in ToSet(toServer) : q.type # "Goodbye"
  /\ step \in Early /\ Serving =>
       \A m \in Responses : m.answers = "Advertise" /\ ~m.error => Established
  /\ step = "Heartbeat" /\ Serving => Established

AgentInv == TypeOK /\ SequencesIdentify /\ AnswersMatchRequests /\ HandledSoFar /\ ReadyInv

-----------------------------------------------------------------------------
(* Streams.                                                                *)

(* What is in a stream of some type has that type.                         *)
LEMMA ElementType ==
  ASSUME NEW S, NEW s \in Seq(S), NEW i \in DOMAIN s
  PROVE  s[i] \in S
OBVIOUS

(* Reading the first element of a stream.                                  *)
LEMMA HeadAndTail ==
  ASSUME NEW S, NEW s \in Seq(S), s # <<>>
  PROVE  /\ Head(s) \in ToSet(s) /\ Head(s) \in S
         /\ Tail(s) \in Seq(S) /\ ToSet(Tail(s)) \subseteq ToSet(s)
<1>1. Len(s) \in Nat \ {0} /\ Head(s) = s[1] /\ DOMAIN s = 1..Len(s)
  OBVIOUS
<1>2. Head(s) \in ToSet(s) /\ Head(s) \in S
  BY <1>1 DEF ToSet
<1>3. Tail(s) \in Seq(S) /\ Len(Tail(s)) = Len(s) - 1
  BY <1>1
<1>4. ASSUME NEW i \in 1..Len(Tail(s)) PROVE Tail(s)[i] = s[i + 1] /\ i + 1 \in 1..Len(s)
  BY <1>1, <1>3
<1>5. DOMAIN Tail(s) = 1..Len(Tail(s))
  BY <1>3
<1>6. ToSet(Tail(s)) \subseteq ToSet(s)
  BY <1>1, <1>4, <1>5 DEF ToSet
<1> QED
  BY <1>2, <1>3, <1>6

(* Joining two streams.                                                    *)
LEMMA Joined ==
  ASSUME NEW S, NEW s \in Seq(S), NEW t \in Seq(S)
  PROVE  s \o t \in Seq(S) /\ ToSet(s \o t) \subseteq ToSet(s) \cup ToSet(t)
<1>1. s \o t \in Seq(S) /\ Len(s \o t) = Len(s) + Len(t)
  OBVIOUS
<1>2. ASSUME NEW i \in 1..Len(s \o t)
      PROVE  (s \o t)[i] \in ToSet(s) \cup ToSet(t)
  <2>1. CASE i <= Len(s)
    BY <1>1, <2>1 DEF ToSet
  <2>2. CASE i > Len(s)
    <3>1. (s \o t)[i] = t[i - Len(s)] /\ i - Len(s) \in 1..Len(t)
      BY <1>1, <2>2
    <3> QED
      BY <3>1 DEF ToSet
  <2> QED
    BY <2>1, <2>2
<1>3. DOMAIN (s \o t) = 1..Len(s \o t)
  BY <1>1
<1> QED
  BY <1>1, <1>2, <1>3 DEF ToSet

(* Writing one element to a stream.                                        *)
LEMMA Appended ==
  ASSUME NEW S, NEW s \in Seq(S), NEW e \in S
  PROVE  Append(s, e) \in Seq(S) /\ ToSet(Append(s, e)) \subseteq ToSet(s) \cup {e}
<1>1. Append(s, e) \in Seq(S) /\ Len(Append(s, e)) = Len(s) + 1
  OBVIOUS
<1>2. ASSUME NEW i \in 1..Len(Append(s, e))
      PROVE  Append(s, e)[i] \in ToSet(s) \cup {e}
  BY <1>1 DEF ToSet
<1>3. DOMAIN Append(s, e) = 1..Len(Append(s, e))
  BY <1>1
<1> QED
  BY <1>1, <1>2, <1>3 DEF ToSet

(* A stream nothing was written to, or that was closed.                    *)
LEMMA EmptyStream ==
  ASSUME NEW S
  PROVE  <<>> \in Seq(S) /\ ToSet(<<>>) = {}
BY DEF ToSet

(* A response by itself.                                                   *)
LEMMA ShortStreams ==
  ASSUME NEW S, NEW e \in S
  PROVE  <<e>> \in Seq(S) /\ ToSet(<<e>>) = {e}
BY DEF ToSet

-----------------------------------------------------------------------------
(* Types.                                                                  *)

(* A failed request leaves at the client responses that were there and, at *)
(* most, the remainder of one.                                             *)
LEMMA FailStream ==
  ASSUME TypeOK, Fail
  PROVE  toClient' \in Seq(Response) /\ ToSet(toClient') \subseteq ToSet(toClient) \cup {Remainder}
<1>1. Remainder \in Response
  BY SequenceAssumption DEF Remainder, Response
<1>2. <<Remainder>> \in Seq(Response) /\ ToSet(<<Remainder>>) = {Remainder}
  BY <1>1, ShortStreams
<1>3. toClient \in Seq(Response)
  BY DEF TypeOK
<1>4. CASE toClient' = toClient
  BY <1>3, <1>4
<1>5. ASSUME toClient # <<>>, toClient' \in {Tail(toClient), <<Remainder>> \o Tail(toClient)}
      PROVE  toClient' \in Seq(Response) /\ ToSet(toClient') \subseteq ToSet(toClient) \cup {Remainder}
  <2>1. Tail(toClient) \in Seq(Response) /\ ToSet(Tail(toClient)) \subseteq ToSet(toClient)
    BY <1>3, <1>5, HeadAndTail
  <2>2. /\ <<Remainder>> \o Tail(toClient) \in Seq(Response)
        /\ ToSet(<<Remainder>> \o Tail(toClient)) \subseteq {Remainder} \cup ToSet(Tail(toClient))
    BY <1>2, <2>1, Joined, Zenon
  <2> QED
    BY <1>5, <2>1, <2>2, Zenon
<1>6. ASSUME toClient # <<>>, toClient' \in Misread(toClient)
      PROVE  toClient' \in Seq(Response) /\ ToSet(toClient') \subseteq ToSet(toClient) \cup {Remainder}
  <2>1. Tail(toClient) \in Seq(Response) /\ ToSet(Tail(toClient)) \subseteq ToSet(toClient)
    BY <1>3, <1>6, HeadAndTail
  <2>2. CASE toClient' \in {toClient, Tail(toClient)}
    BY <1>3, <2>1, <2>2, Zenon
  <2>3. CASE Len(toClient) > 1 /\ toClient' = <<Remainder>> \o Tail(Tail(toClient))
    <3>1. Tail(toClient) # <<>>
      <4>1. Len(Tail(toClient)) = Len(toClient) - 1 /\ Len(toClient) \in Nat
        BY <1>3, <1>6
      <4>2. Len(Tail(toClient)) > 0
        BY <2>3, <4>1
      <4> QED
        BY <4>2
    <3>2. /\ Tail(Tail(toClient)) \in Seq(Response)
          /\ ToSet(Tail(Tail(toClient))) \subseteq ToSet(Tail(toClient))
      BY <2>1, <3>1, HeadAndTail, Zenon
    <3>3. /\ <<Remainder>> \o Tail(Tail(toClient)) \in Seq(Response)
          /\ ToSet(<<Remainder>> \o Tail(Tail(toClient)))
               \subseteq {Remainder} \cup ToSet(Tail(Tail(toClient)))
      BY <1>2, <3>2, Joined, Zenon
    <3> QED
      BY <2>1, <2>3, <3>2, <3>3
  <2> QED
    BY <1>6, <2>2, <2>3, Zenon DEF Misread
<1> QED
  BY <1>4, <1>5, <1>6, Zenon DEF Fail

(* Sending a request.                                                      *)
LEMMA SendType ==
  ASSUME TypeOK, NEW type \in Types, Send(type)
  PROVE  \E r \in Request :
           /\ r.type = type /\ r.sequence = sequence /\ pending' = r
           /\ sequence \in 1..MaxSequence /\ sequence' = sequence + 1
           /\ toServer' \in Seq(Request) /\ ToSet(toServer') \subseteq ToSet(toServer) \cup {r}
<1>1. PICK ok \in BOOLEAN :
        LET r == [type |-> type, sequence |-> sequence, sound |-> ok] IN
          /\ toServer' = IF worker = "closed" THEN toServer ELSE Append(toServer, r)
          /\ pending' = r
  BY Zenon DEF Send
<1> DEFINE r == [type |-> type, sequence |-> sequence, sound |-> ok]
<1>2. sequence \in 1..MaxSequence /\ sequence' = sequence + 1
  BY SequenceAssumption DEF Send, TypeOK
<1>3. r \in Request /\ r.type = type /\ r.sequence = sequence
  BY <1>2 DEF Request
<1>4. toServer \in Seq(Request)
  BY DEF TypeOK
<1>5. toServer' = toServer \/ toServer' = Append(toServer, r)
  BY <1>1, Zenon
<1>6. pending' = r
  BY <1>1, Zenon
<1> HIDE DEF r
<1>7. toServer' \in Seq(Request) /\ ToSet(toServer') \subseteq ToSet(toServer) \cup {r}
  <2>1. /\ Append(toServer, r) \in Seq(Request)
        /\ ToSet(Append(toServer, r)) \subseteq ToSet(toServer) \cup {r}
    BY <1>3, <1>4, Appended, Zenon
  <2> QED
    BY <1>4, <1>5, <2>1, Zenon
<1> QED
  BY <1>2, <1>3, <1>6, <1>7

(* The request a worker reads.                                             *)
LEMMA NextRequest ==
  ASSUME TypeOK, toServer # <<>>
  PROVE  /\ Head(toServer) \in Request /\ Head(toServer) \in Requests
         /\ Tail(toServer) \in Seq(Request) /\ ToSet(Tail(toServer)) \subseteq ToSet(toServer)
BY HeadAndTail DEF TypeOK, Requests

(* What the worker makes of a sound request.                               *)
LEMMA ReadType ==
  ASSUME TypeOK, NEW refused \in BOOLEAN, Read(refused)
  PROVE  \E m \in Response :
           /\ reply' = <<m>> /\ reply' \in Seq(Response) /\ ToSet(reply') = {m}
           /\ m.answers = Head(toServer).type /\ m.sequence = Head(toServer).sequence
           /\ ~m.error => ~Repeats(Head(toServer)) /\ ~refused
<1> DEFINE r == Head(toServer)
           m == [answers |-> r.type, sequence |-> r.sequence, error |-> Repeats(r) \/ refused]
<1>1. r \in Request
  BY NextRequest DEF Read
<1>2. m \in Response
  <2>1. r.type \in Types /\ r.sequence \in 0..MaxSequence
    BY <1>1, SequenceAssumption DEF Request
  <2>2. (Repeats(r) \/ refused) \in BOOLEAN
    OBVIOUS
  <2> HIDE DEF r
  <2> QED
    BY <2>1, <2>2 DEF Response
<1>3. reply' = <<m>>
  BY Zenon DEF Read
<1>4. m.answers = r.type /\ m.sequence = r.sequence /\ (~m.error => ~Repeats(r) /\ ~refused)
  BY Zenon
<1> HIDE DEF m
<1>5. reply' \in Seq(Response) /\ ToSet(reply') = {m}
  BY <1>2, <1>3, ShortStreams
<1> QED
  BY <1>2, <1>3, <1>4, <1>5

(* The handlers: only GOODBYE ends the session, none takes the device      *)
(* away, and an advertisement that succeeds leaves both.                   *)
LEMMA HandleEffect ==
  ASSUME TypeOK, NEW r \in Request, NEW refused \in BOOLEAN, Handle(r, refused)
  PROVE  /\ session' \in BOOLEAN /\ device' \in {"unknown", "live", "fenced"} /\ farewell' \in BOOLEAN
         /\ r.type # "Goodbye" /\ Established => Established'
         /\ r.type = "Advertise" /\ ~refused => Established'
<1>1. CASE r.type = "Hello"
  <2>1. HandleHello(refused)
    BY <1>1 DEF Handle
  <2> QED
    BY <1>1, <2>1 DEF HandleHello, TypeOK, Established
<1>2. CASE r.type = "Advertise"
  <2>1. HandleAdvertise(refused)
    BY <1>2 DEF Handle
  <2> QED
    BY <1>2, <2>1 DEF HandleAdvertise, TypeOK, Established
<1>3. CASE r.type = "Heartbeat"
  <2>1. HandleHeartbeat(refused)
    BY <1>3 DEF Handle
  <2> QED
    BY <1>3, <2>1 DEF HandleHeartbeat, TypeOK, Established
<1>4. CASE r.type = "Goodbye"
  <2>1. HandleGoodbye(refused)
    BY <1>4 DEF Handle
  <2> QED
    BY <1>4, <2>1, Zenon DEF HandleGoodbye, TypeOK, Established
<1> QED
  BY <1>1, <1>2, <1>3, <1>4 DEF Request, Types

(* The state is well typed after every step.                               *)
LEMMA TypeStep ==
  ASSUME TypeOK, [Next]_agentVars
  PROVE  TypeOK'
<1>1. CASE AgentSends
  <2>1. /\ pending' \in Request /\ toServer' \in Seq(Request)
        /\ sequence \in 1..MaxSequence /\ sequence' = sequence + 1
    BY <1>1, SendType DEF AgentSends
  <2>2. sequence' \in 1..(MaxSequence + 1)
    BY <2>1, SequenceAssumption
  <2>3. UNCHANGED <<toClient, clientOpen, worker, reply, last, handled, step, session, device, farewell>>
    BY <1>1, Zenon DEF AgentSends, Send, server
  <2> QED
    BY <2>1, <2>2, <2>3, Zenon DEF TypeOK
<1>2. CASE AgentReceives
  <2>1. toClient' \in Seq(Response)
    BY <1>2, HeadAndTail DEF AgentReceives, Receive, TypeOK
  <2>2. AfterAnswer(Head(toClient).error) \in Types \cup {ExitStep, "exited"}
    BY DEF AfterAnswer, Types
  <2>3. /\ step' = AfterAnswer(Head(toClient).error) /\ pending' = NoRequest
        /\ UNCHANGED <<toServer, sequence, clientOpen, worker, reply, last, handled,
                       session, device, farewell>>
    BY <1>2, Zenon DEF AgentReceives, Receive, server
  <2> QED
    BY <2>1, <2>2, <2>3, Zenon DEF TypeOK
<1>3. CASE AgentFails
  <2>1. toClient' \in Seq(Response)
    BY <1>3, FailStream DEF AgentFails
  <2>2. step' \in Types \cup {ExitStep, "exited"}
    BY <1>3 DEF AgentFails, Types
  <2>3. /\ pending' = NoRequest
        /\ UNCHANGED <<toServer, sequence, clientOpen, worker, reply, last, handled,
                       session, device, farewell>>
    BY <1>3, Zenon DEF AgentFails, Fail, server
  <2> QED
    BY <2>1, <2>2, <2>3, Zenon DEF TypeOK
<1>4. CASE AgentExits \/ AgentDies
  <2>1. toClient' = <<>> /\ clientOpen' = FALSE
    BY <1>4, Zenon DEF AgentExits, AgentDies, CloseClient
  <2>4. toClient' \in Seq(Response) /\ clientOpen' \in BOOLEAN
    BY <2>1, EmptyStream, Zenon
  <2>2. step' \in Types \cup {ExitStep, "exited"} /\ pending' \in {pending, NoRequest}
    BY <1>4, Zenon DEF AgentExits, AgentDies, CloseClient
  <2>3. UNCHANGED <<toServer, sequence, worker, reply, last, handled, session, device, farewell>>
    BY <1>4, Zenon DEF AgentExits, AgentDies, CloseClient, server
  <2> QED
    BY <2>2, <2>3, <2>4, Zenon DEF TypeOK
<1>5. CASE AgentStops
  <2>1. step' \in Types \cup {ExitStep, "exited"}
    BY <1>5 DEF AgentStops, Types
  <2>2. UNCHANGED <<toServer, toClient, sequence, pending, clientOpen, worker, reply, last, handled,
                    session, device, farewell>>
    BY <1>5, Zenon DEF AgentStops, channel, client, server
  <2> QED
    BY <2>1, <2>2, Zenon DEF TypeOK
<1>6. CASE WorkerReads
  <2>1. PICK refused \in BOOLEAN :
          /\ Read(refused)
          /\ IF Repeats(Head(toServer)) THEN UNCHANGED <<session, device, farewell>>
             ELSE Handle(Head(toServer), refused)
    BY <1>6, Zenon DEF WorkerReads
  <2>2. Head(toServer) \in Request /\ toServer' \in Seq(Request)
    BY <2>1, NextRequest DEF Read
  <2>3. reply' \in Seq(Response) /\ worker' = "writing"
    BY <2>1, ReadType DEF Read
  <2>4. session' \in BOOLEAN /\ device' \in {"unknown", "live", "fenced"} /\ farewell' \in BOOLEAN
    BY <2>1, <2>2, HandleEffect DEF TypeOK
  <2>5. Head(toServer).sequence \in 0..MaxSequence
    BY <2>2, SequenceAssumption DEF Request
  <2>6. last' \in 0..MaxSequence /\ handled' \in Seq(0..MaxSequence)
    BY <2>1, <2>5, Appended, Zenon DEF Read, TypeOK
  <2>7. UNCHANGED <<toClient, sequence, pending, clientOpen, step>>
    BY <1>6, <2>1, Zenon DEF WorkerReads, Read, client
  <2> QED
    BY <2>2, <2>3, <2>4, <2>6, <2>7 DEF TypeOK
<1>7. CASE WorkerTearsDown
  <2>1. toServer' \in Seq(Request) /\ worker' = "closed"
    BY <1>7 DEF WorkerTearsDown, Teardown
  <2>2. session' \in BOOLEAN /\ device' \in {"unknown", "live", "fenced"}
    BY <1>7, Zenon DEF WorkerTearsDown, TypeOK
  <2>3. UNCHANGED <<toClient, sequence, pending, clientOpen, reply, last, handled, step, farewell>>
    BY <1>7, Zenon DEF WorkerTearsDown, Teardown, client
  <2> QED
    BY <2>1, <2>2, <2>3, Zenon DEF TypeOK
<1>8. CASE ReadUnsound /\ UNCHANGED <<step, session, device, farewell>>
  <2>1. toServer' \in Seq(Request) /\ worker' = "leaving"
    BY <1>8, NextRequest DEF ReadUnsound
  <2>2. [answers |-> "none", sequence |-> 0, error |-> TRUE] \in Response
    BY SequenceAssumption DEF Response
  <2>3. toClient' \in Seq(Response)
    BY <1>8, <2>2, Appended DEF ReadUnsound, TypeOK
  <2>4. UNCHANGED <<sequence, pending, clientOpen, reply, last, handled>>
    BY <1>8, Zenon DEF ReadUnsound, client
  <2> QED
    BY <1>8, <2>1, <2>3, <2>4, Zenon DEF TypeOK
<1>9. CASE Write /\ UNCHANGED <<step, session, device, farewell>>
  <2>1. worker' \in {"reading", "leaving"} /\ reply' \in Seq(Response)
    BY <1>9 DEF Write
  <2>2. toClient' \in Seq(Response)
    BY <1>9, Joined DEF Write, TypeOK
  <2>3. UNCHANGED <<toServer, sequence, pending, clientOpen, last, handled>>
    BY <1>9, Zenon DEF Write, client
  <2> QED
    BY <1>9, <2>1, <2>2, <2>3, Zenon DEF TypeOK
<1>10. CASE WorkerGivesUp
  BY <1>10, Zenon DEF WorkerGivesUp, GiveUp, client, TypeOK
<1>11. CASE Resend /\ UNCHANGED <<step, session, device, farewell>>
  <2>1. pending \in Request /\ toServer' = Append(toServer, pending)
    BY <1>11 DEF Resend, TypeOK
  <2>2. toServer' \in Seq(Request)
    BY <2>1, Appended DEF TypeOK
  <2>3. UNCHANGED <<toClient, sequence, pending, clientOpen, worker, reply, last, handled>>
    BY <1>11, Zenon DEF Resend, client, server
  <2> QED
    BY <1>11, <2>2, <2>3, Zenon DEF TypeOK
<1>12. CASE UNCHANGED agentVars
  BY <1>12, Zenon DEF agentVars, channel, client, server, TypeOK
<1> QED
  BY <1>1, <1>2, <1>3, <1>4, <1>5, <1>6, <1>7, <1>8, <1>9, <1>10, <1>11, <1>12, Zenon
  DEF Next, ProgramSteps, WorkerSteps

-----------------------------------------------------------------------------
(* What is on its way.                                                     *)

(* A response that was not there before answers a request that was there,  *)
(* or is an error under sequence zero.                                     *)
FromRequest(m) == \E q \in Requests : m.sequence = q.sequence /\ m.answers = q.type

(* Sending is the only step that adds a request, and reading one the only  *)
(* step that adds an answer.                                               *)
LEMMA Flow ==
  ASSUME TypeOK, [Next]_agentVars, ~AgentSends
  PROVE  /\ sequence' = sequence
         /\ ToSet(toServer') \subseteq Requests
         /\ pending' \in {pending, NoRequest}
         /\ \A m \in ToSet(toClient') \cup ToSet(reply') :
              m \in Responses \/ m.sequence = 0 \/ FromRequest(m)
<1> DEFINE Goal == /\ sequence' = sequence
                   /\ ToSet(toServer') \subseteq Requests
                   /\ pending' \in {pending, NoRequest}
                   /\ \A m \in ToSet(toClient') \cup ToSet(reply') :
                        m \in Responses \/ m.sequence = 0 \/ FromRequest(m)
<1>1. ASSUME AgentReceives PROVE Goal
  <2>1. ToSet(toClient') \subseteq ToSet(toClient)
    BY <1>1, HeadAndTail DEF AgentReceives, Receive, TypeOK
  <2>2. UNCHANGED <<toServer, sequence, reply>> /\ pending' = NoRequest
    BY <1>1, Zenon DEF AgentReceives, Receive, server
  <2> QED
    BY <2>1, <2>2, Zenon DEF Requests, Responses
<1>2. ASSUME AgentFails PROVE Goal
  <2>1. ToSet(toClient') \subseteq ToSet(toClient) \cup {Remainder}
    BY <1>2, FailStream DEF AgentFails
  <2>2. UNCHANGED <<toServer, sequence, reply>> /\ pending' = NoRequest
    BY <1>2, Zenon DEF AgentFails, Fail, server
  <2>3. Remainder.sequence = 0
    BY DEF Remainder
  <2> QED
    BY <2>1, <2>2, <2>3, Zenon DEF Requests, Responses
<1>3. ASSUME AgentExits \/ AgentDies PROVE Goal
  <2>1. UNCHANGED <<toServer, sequence, reply>> /\ pending' \in {pending, NoRequest} /\ toClient' = <<>>
    BY <1>3, Zenon DEF AgentExits, AgentDies, CloseClient, server
  <2>2. ToSet(toClient') = {}
    BY <2>1, EmptyStream, Zenon
  <2> QED
    BY <2>1, <2>2, Zenon DEF Requests, Responses
<1>4. ASSUME AgentStops \/ WorkerGivesUp \/ UNCHANGED agentVars PROVE Goal
  <2>1. UNCHANGED <<toServer, toClient, sequence, pending, reply>>
    BY <1>4, Zenon DEF AgentStops, WorkerGivesUp, GiveUp, agentVars, channel, client, server
  <2> QED
    BY <2>1, Zenon DEF Requests, Responses
<1>5. ASSUME NEW refused \in BOOLEAN, Read(refused) PROVE Goal
  <2>1. PICK m \in Response :
          /\ ToSet(reply') = {m}
          /\ m.answers = Head(toServer).type /\ m.sequence = Head(toServer).sequence
    BY <1>5, ReadType, Zenon
  <2>2. FromRequest(m)
    BY <1>5, <2>1, NextRequest, Zenon DEF Read, FromRequest
  <2>3. ToSet(toServer') \subseteq ToSet(toServer)
    BY <1>5, NextRequest, Zenon DEF Read
  <2>4. UNCHANGED <<toClient, sequence, pending>>
    BY <1>5, Zenon DEF Read, client
  <2> QED
    BY <2>1, <2>2, <2>3, <2>4, Zenon DEF Requests, Responses
<1>6. ASSUME WorkerTearsDown PROVE Goal
  <2>1. UNCHANGED <<toClient, sequence, pending, reply>> /\ toServer' = <<>>
    BY <1>6, Zenon DEF WorkerTearsDown, Teardown, client
  <2>2. ToSet(toServer') = {}
    BY <2>1, EmptyStream, Zenon
  <2> QED
    BY <2>1, <2>2, Zenon DEF Requests, Responses
<1>7. ASSUME ReadUnsound PROVE Goal
  <2> DEFINE e == [answers |-> "none", sequence |-> 0, error |-> TRUE]
  <2>1. e \in Response /\ e.sequence = 0
    BY SequenceAssumption DEF Response
  <2>2. toClient' \in {toClient, Append(toClient, e)}
    BY <1>7, Zenon DEF ReadUnsound
  <2> HIDE DEF e
  <2>3. ToSet(toClient') \subseteq ToSet(toClient) \cup {e}
    BY <2>1, <2>2, Appended, Zenon DEF TypeOK
  <2>4. ToSet(toServer') \subseteq ToSet(toServer)
    BY <1>7, NextRequest, Zenon DEF ReadUnsound
  <2>5. UNCHANGED <<sequence, pending, reply>>
    BY <1>7, Zenon DEF ReadUnsound, client
  <2> QED
    BY <2>1, <2>3, <2>4, <2>5, Zenon DEF Requests, Responses
<1>8. ASSUME Write PROVE Goal
  <2>1. toClient' \in {toClient, toClient \o reply} /\ reply' = <<>>
    BY <1>8, Zenon DEF Write
  <2>2. ToSet(toClient') \subseteq ToSet(toClient) \cup ToSet(reply) /\ ToSet(reply') = {}
    BY <2>1, Joined, EmptyStream, Zenon DEF TypeOK
  <2>3. UNCHANGED <<toServer, sequence, pending>>
    BY <1>8, Zenon DEF Write, client
  <2> QED
    BY <2>2, <2>3, Zenon DEF Requests, Responses
<1>9. ASSUME Resend PROVE Goal
  <2>1. pending \in Request /\ pending # NoRequest /\ toServer' = Append(toServer, pending)
    BY <1>9 DEF Resend, TypeOK
  <2>2. ToSet(toServer') \subseteq ToSet(toServer) \cup {pending}
    BY <2>1, Appended, Zenon DEF TypeOK
  <2>3. UNCHANGED <<toClient, sequence, pending, reply>>
    BY <1>9, Zenon DEF Resend, client, server
  <2>4. ToSet(toServer') \subseteq Requests
    BY <2>1, <2>2 DEF Requests
  <2> QED
    BY <2>3, <2>4, Zenon DEF Responses
<1> HIDE DEF Goal
<1>10. Goal
  BY <1>1, <1>2, <1>3, <1>4, <1>5, <1>6, <1>7, <1>8, <1>9, Zenon
  DEF Next, ProgramSteps, WorkerSteps, WorkerReads
<1> QED
  BY <1>10, Zenon DEF Goal

(* What is on its way has a type.                                          *)
LEMMA InTransit ==
  ASSUME TypeOK
  PROVE  /\ \A q \in Requests : q \in Request
         /\ \A m \in Responses : m \in Response
BY DEF TypeOK, Requests, Responses, ToSet

(* Sequence numbers keep identifying requests.                             *)
LEMMA IdentifyStep ==
  ASSUME TypeOK, SequencesIdentify, [Next]_agentVars
  PROVE  SequencesIdentify'
<1>1. ASSUME ~AgentSends PROVE SequencesIdentify'
  <2>1. sequence' = sequence /\ \A q \in Requests' : q \in Requests
    BY <1>1, Flow, Zenon DEF Requests
  <2>2. \A m \in Responses' : m \in Responses \/ m.sequence = 0 \/ FromRequest(m)
    BY <1>1, Flow, Zenon DEF Responses
  <2>3. \A q \in Requests : q.sequence \in 1..MaxSequence
    BY InTransit DEF Request
  <2>4. sequence \in 1..(MaxSequence + 1)
    BY DEF TypeOK
  <2>5. ASSUME NEW m \in Responses' PROVE m.sequence < sequence
    <3>1. CASE m \in Responses \/ m.sequence = 0
      BY <2>4, <3>1 DEF SequencesIdentify
    <3>2. CASE FromRequest(m)
      BY <3>2, Zenon DEF FromRequest, SequencesIdentify
    <3> QED
      BY <2>2, <3>1, <3>2
  <2>6. ASSUME NEW q \in Requests, NEW m \in Responses', q.sequence = m.sequence
        PROVE  q.type = m.answers
    <3>1. CASE m \in Responses
      BY <2>6, <3>1, Zenon DEF SequencesIdentify
    <3>2. CASE m.sequence = 0
      <4>1. q.sequence \in 1..MaxSequence /\ q.sequence = 0
        BY <2>3, <2>6, <3>2
      <4> QED
        BY <4>1
    <3>3. CASE FromRequest(m)
      BY <2>6, <3>3, Zenon DEF FromRequest, SequencesIdentify
    <3> QED
      BY <2>2, <3>1, <3>2, <3>3
  <2> QED
    BY <2>1, <2>5, <2>6, Zenon DEF SequencesIdentify
<1>2. CASE AgentSends
  <2>1. PICK r \in Request :
          /\ r.sequence = sequence /\ pending' = r /\ sequence' = sequence + 1
          /\ sequence \in 1..MaxSequence
          /\ ToSet(toServer') \subseteq ToSet(toServer) \cup {r}
    BY <1>2, SendType, Zenon DEF AgentSends
  <2>2. UNCHANGED <<toClient, reply>>
    BY <1>2, Zenon DEF AgentSends, Send, server
  <2>3. \A q \in Requests' : q \in Requests \/ q = r
    BY <2>1, Zenon DEF Requests
  <2>4. Responses' = Responses
    BY <2>2, Zenon DEF Responses
  <2>5. /\ \A q \in Requests : q.sequence < sequence /\ q.sequence \in Int
        /\ \A m \in Responses : m.sequence < sequence /\ m.sequence \in Int
    BY InTransit DEF SequencesIdentify, Request, Response
  <2>6. /\ \A q \in Requests' : q.sequence < sequence'
        /\ \A m \in Responses' : m.sequence < sequence'
    BY <2>1, <2>3, <2>4, <2>5
  <2>7. \A q, p \in Requests' : q.sequence = p.sequence => q.type = p.type
    <3> SUFFICES ASSUME NEW q \in Requests', NEW p \in Requests', q.sequence = p.sequence
                 PROVE  q.type = p.type
      BY Zenon
    <3>1. CASE q = r /\ p = r
      BY <3>1
    <3>2. CASE q \in Requests /\ p \in Requests
      BY <3>2, Zenon DEF SequencesIdentify
    <3>3. ASSUME q = r, p \in Requests PROVE FALSE
      BY <2>1, <2>5, <3>3
    <3>4. ASSUME p = r, q \in Requests PROVE FALSE
      BY <2>1, <2>5, <3>4
    <3> QED
      BY <2>3, <3>1, <3>2, <3>3, <3>4, Zenon
  <2>8. \A q \in Requests', m \in Responses' : q.sequence = m.sequence => q.type = m.answers
    <3> SUFFICES ASSUME NEW q \in Requests', NEW m \in Responses, q.sequence = m.sequence
                 PROVE  q.type = m.answers
      BY <2>4, Zenon
    <3>1. q # r
      BY <2>1, <2>5
    <3> QED
      BY <2>3, <3>1, Zenon DEF SequencesIdentify
  <2> QED
    BY <2>6, <2>7, <2>8, Zenon DEF SequencesIdentify
<1> QED
  BY <1>1, <1>2

(* What request() returns is matched.                                      *)
LEMMA MatchStep ==
  ASSUME TypeOK, SequencesIdentify, AnswersMatchRequests, [Next]_agentVars
  PROVE  AnswersMatchRequests'
<1>1. CASE AgentReceives
  <2>1. /\ pending # NoRequest /\ toClient # <<>> /\ pending.sequence = Head(toClient).sequence
        /\ delivered' = <<pending, Head(toClient)>>
    BY <1>1, Zenon DEF AgentReceives, Receive, IsAnswer
  <2>2. pending \in Requests /\ Head(toClient) \in Responses
    BY <2>1, HeadAndTail DEF TypeOK, Requests, Responses
  <2>3. pending.type = Head(toClient).answers
    BY <2>1, <2>2, Zenon DEF SequencesIdentify
  <2>4. delivered'[1] = pending /\ delivered'[2] = Head(toClient)
    BY <2>1
  <2> QED
    BY <2>1, <2>3, <2>4, Zenon DEF AnswersMatchRequests
<1>2. CASE AgentSends
  BY <1>2, Zenon DEF AgentSends, Send, AnswersMatchRequests
<1>3. ASSUME ~AgentReceives, ~AgentSends PROVE delivered' = delivered
  BY <1>3, Zenon
  DEF Next, ProgramSteps, AgentFails, Fail, AgentExits, CloseClient, AgentStops, AgentDies,
      WorkerSteps, WorkerReads, Read, WorkerTearsDown, Teardown, ReadUnsound, Write,
      WorkerGivesUp, GiveUp, Resend, agentVars, channel, client
<1> QED
  BY <1>1, <1>2, <1>3, Zenon DEF AnswersMatchRequests

(* The handler sees larger and larger sequence numbers.                    *)
LEMMA HandledStep ==
  ASSUME TypeOK, HandledSoFar, [Next]_agentVars
  PROVE  HandledSoFar'
<1>1. ASSUME NEW refused \in BOOLEAN, Read(refused) PROVE HandledSoFar'
  <2> DEFINE n == Head(toServer).sequence
  <2>1. n \in 0..MaxSequence
    BY <1>1, NextRequest, SequenceAssumption DEF Read, Request
  <2>2. CASE Repeats(Head(toServer))
    BY <1>1, <2>2, Zenon DEF Read, HandledSoFar, HandledInOrder
  <2>3. CASE ~Repeats(Head(toServer))
    <3>1. n > last /\ last' = n /\ handled' = Append(handled, n)
      BY <1>1, <2>1, <2>3 DEF Read, Repeats, TypeOK
    <3> HIDE DEF n
    <3>2. handled \in Seq(0..MaxSequence) /\ last \in 0..MaxSequence
      BY DEF TypeOK
    <3>3. \A i \in DOMAIN handled : handled[i] \in Int /\ handled[i] <= last
      <4>1. ASSUME NEW i \in DOMAIN handled PROVE handled[i] \in Int
        <5>1. handled[i] \in 0..MaxSequence
          BY <3>2, ElementType, Zenon
        <5> QED
          BY <5>1, SequenceAssumption
      <4> QED
        BY <4>1, Zenon DEF HandledSoFar
    <3>4. /\ DOMAIN handled' = 1..(Len(handled) + 1) /\ DOMAIN handled = 1..Len(handled)
          /\ \A i \in DOMAIN handled' : handled'[i] = IF i = Len(handled) + 1 THEN n ELSE handled[i]
      BY <2>1, <3>1, <3>2
    <3>5. \A i \in DOMAIN handled' : handled'[i] <= last'
      BY <2>1, <3>1, <3>2, <3>3, <3>4
    <3>6. ASSUME NEW i \in DOMAIN handled', NEW j \in DOMAIN handled', i < j
          PROVE  handled'[i] < handled'[j]
      <4>1. i \in DOMAIN handled /\ handled'[i] = handled[i]
        BY <3>2, <3>4, <3>6
      <4>2. CASE j \in DOMAIN handled
        <5>1. handled'[j] = handled[j]
          BY <3>2, <3>4, <4>2
        <5> QED
          BY <3>6, <4>1, <4>2, <5>1, Zenon DEF HandledSoFar, HandledInOrder
      <4>3. CASE j \notin DOMAIN handled
        <5>1. handled'[j] = n
          BY <3>2, <3>4, <4>3
        <5> QED
          BY <2>1, <3>1, <3>2, <3>3, <4>1, <5>1
      <4> QED
        BY <4>2, <4>3
    <3> QED
      BY <3>5, <3>6, Zenon DEF HandledSoFar, HandledInOrder
  <2> QED
    BY <2>2, <2>3
<1>2. ASSUME ~\E refused \in BOOLEAN : Read(refused) PROVE UNCHANGED <<handled, last>>
  BY <1>2, Zenon
  DEF Next, ProgramSteps, AgentSends, Send, AgentReceives, Receive, AgentFails, Fail, AgentExits,
      CloseClient, AgentStops, AgentDies, WorkerSteps, WorkerReads, WorkerTearsDown, Teardown,
      ReadUnsound, Write, WorkerGivesUp, GiveUp, Resend, agentVars, channel, server
<1> QED
  BY <1>1, <1>2, Zenon DEF HandledSoFar, HandledInOrder

-----------------------------------------------------------------------------
(* The program's view of the coordinator.                                  *)

(* The program does not go back to its loop once it has left it, and comes *)
(* to it only by an answer to the advertisement that is no error.          *)
LEMMA AfterAnswerSteps ==
  ASSUME NEW error \in BOOLEAN, AfterAnswer(error) \in Early
  PROVE  /\ step \in Early
         /\ AfterAnswer(error) = "Heartbeat" => step = "Heartbeat" \/ (step = "Advertise" /\ ~error)
<1>1. CASE step = "Hello"
  BY <1>1 DEF AfterAnswer, Early, ExitStep
<1>2. CASE step = "Advertise"
  BY <1>2 DEF AfterAnswer, Early, ExitStep
<1>3. CASE step = "Heartbeat"
  BY <1>3 DEF Early
<1>4. CASE step \notin Early
  BY <1>4 DEF AfterAnswer, Early, ExitStep
<1> QED
  BY <1>1, <1>2, <1>3, <1>4 DEF Early

(* An answer arrives.                                                      *)
LEMMA ReadyReceive ==
  ASSUME TypeOK, SequencesIdentify, ReadyInv, AgentReceives
  PROVE  ReadyInv'
<1> DEFINE h == Head(toClient)
<1>1. /\ pending # NoRequest /\ pending' = NoRequest /\ toClient # <<>>
      /\ pending.sequence = h.sequence /\ toClient' = Tail(toClient)
      /\ step' = AfterAnswer(h.error)
      /\ UNCHANGED <<toServer, worker, reply, session, device>>
  BY Zenon DEF AgentReceives, Receive, IsAnswer, server
<1>2. h \in ToSet(toClient) /\ h \in Response /\ ToSet(toClient') \subseteq ToSet(toClient)
  BY <1>1, HeadAndTail DEF TypeOK
<1>3. h.error \in BOOLEAN /\ h \in Responses
  BY <1>2 DEF Response, Responses
<1>4. pending \in Requests
  BY <1>1 DEF Requests
<1>5. h.answers = step
  BY <1>1, <1>3, <1>4, Zenon DEF SequencesIdentify, ReadyInv
<1> HIDE DEF h
<1>6. step' \in Early => step \in Early
  BY <1>1, <1>3, AfterAnswerSteps, Zenon
<1>7. step' = "Heartbeat" /\ Serving => Established
  <2> SUFFICES ASSUME step' = "Heartbeat", Serving PROVE Established
    OBVIOUS
  <2>1. step' \in Early
    BY DEF Early
  <2>2. step = "Heartbeat" \/ (step = "Advertise" /\ ~h.error)
    BY <1>1, <1>3, <2>1, AfterAnswerSteps, Zenon
  <2>3. CASE step = "Heartbeat"
    BY <2>3, Zenon DEF ReadyInv
  <2>4. CASE step = "Advertise" /\ ~h.error
    BY <1>3, <1>5, <1>6, <2>1, <2>4, Zenon DEF ReadyInv
  <2> QED
    BY <2>2, <2>3, <2>4
<1>8. Serving' = Serving /\ Established' = Established
  BY <1>1, Zenon DEF Serving, Established
<1>9. \A m \in Responses' : m \in Responses
  BY <1>1, <1>2, Zenon DEF Responses
<1> QED
  BY <1>1, <1>6, <1>7, <1>8, <1>9, Zenon DEF ReadyInv

(* The worker reads a request.                                             *)
LEMMA ReadyRead ==
  ASSUME TypeOK, ReadyInv, WorkerReads
  PROVE  ReadyInv'
<1> DEFINE r == Head(toServer)
<1>1. PICK refused \in BOOLEAN :
        /\ Read(refused)
        /\ IF Repeats(r) THEN UNCHANGED <<session, device, farewell>> ELSE Handle(r, refused)
  BY Zenon DEF WorkerReads
<1>2. PICK n \in Response :
        /\ ToSet(reply') = {n} /\ n.answers = r.type
        /\ ~n.error => ~Repeats(r) /\ ~refused
  BY <1>1, ReadType, Zenon
<1>3. toServer # <<>> /\ worker = "reading" /\ UNCHANGED <<toClient, pending, step>>
  BY <1>1, Zenon DEF WorkerReads, Read, client
<1>4. r \in Request /\ r \in ToSet(toServer) /\ ToSet(toServer') \subseteq ToSet(toServer)
  BY <1>1, <1>3, HeadAndTail DEF Read, TypeOK
<1> HIDE DEF r
<1>5. /\ r.type # "Goodbye" /\ Established => Established'
      /\ ~n.error /\ r.type = "Advertise" => Established'
  <2>1. CASE Repeats(r)
    BY <1>1, <1>2, <2>1, Zenon DEF Established
  <2>2. CASE ~Repeats(r)
    BY <1>1, <1>2, <1>4, <2>2, HandleEffect, Zenon
  <2> QED
    BY <2>1, <2>2
<1>6. Serving
  BY <1>3 DEF Serving
<1>7. step \in Early => r.type # "Goodbye"
  BY <1>4, Zenon DEF ReadyInv
<1>8. step = "Heartbeat" => step \in Early
  BY DEF Early
<1>9. ASSUME step \in Early, NEW m \in Responses', m.answers = "Advertise", ~m.error
      PROVE  Established'
  <2>1. m = n \/ m \in Responses
    BY <1>2, <1>3, Zenon DEF Responses
  <2>2. CASE m = n
    BY <1>2, <1>5, <1>9, <2>2, Zenon
  <2>3. CASE m \in Responses
    BY <1>5, <1>6, <1>7, <1>9, <2>3, Zenon DEF ReadyInv
  <2> QED
    BY <2>1, <2>2, <2>3
<1> QED
  BY <1>3, <1>4, <1>5, <1>6, <1>7, <1>8, <1>9, Zenon DEF ReadyInv

(* Whatever happens to the connection, ReadyInv is kept.                   *)
LEMMA ReadyStep ==
  ASSUME TypeOK, SequencesIdentify, ReadyInv, [Next]_agentVars
  PROVE  ReadyInv'
<1>1. CASE AgentReceives
  BY <1>1, ReadyReceive
<1>2. CASE WorkerReads
  BY <1>2, ReadyRead
<1>3. CASE AgentSends
  <2>1. PICK r \in Request :
          /\ r.type = step /\ pending' = r
          /\ ToSet(toServer') \subseteq ToSet(toServer) \cup {r}
    BY <1>3, SendType, Zenon DEF AgentSends
  <2>2. UNCHANGED <<toClient, reply, worker, step, session, device>>
    BY <1>3, Zenon DEF AgentSends, Send, server
  <2>3. step \in Early => step # "Goodbye"
    BY DEF Early
  <2>4. Responses' = Responses /\ Serving' = Serving /\ Established' = Established
    BY <2>2, Zenon DEF Responses, Serving, Established
  <2> QED
    BY <2>1, <2>2, <2>3, <2>4, Zenon DEF ReadyInv
<1>4. CASE AgentFails \/ AgentStops \/ AgentExits \/ AgentDies
  <2>1. step' \notin Early
    BY <1>4 DEF AgentFails, AgentStops, AgentExits, AgentDies, Early, ExitStep
  <2>2. pending' = NoRequest
    BY <1>4, Zenon
    DEF AgentFails, Fail, AgentStops, AgentExits, CloseClient, AgentDies, channel, client
  <2>3. step' # "Heartbeat"
    BY <2>1 DEF Early
  <2> QED
    BY <2>1, <2>2, <2>3, Zenon DEF ReadyInv
<1>5. CASE WorkerTearsDown \/ WorkerGivesUp \/ (ReadUnsound /\ UNCHANGED step)
  <2>1. ~Serving' /\ UNCHANGED <<step, pending>>
    BY <1>5 DEF WorkerTearsDown, Teardown, WorkerGivesUp, GiveUp, ReadUnsound, client, Serving
  <2>2. ToSet(toServer') \subseteq ToSet(toServer)
    <3>1. CASE WorkerTearsDown
      BY <3>1, EmptyStream DEF WorkerTearsDown, Teardown
    <3>2. CASE WorkerGivesUp
      BY <3>2 DEF WorkerGivesUp, GiveUp
    <3>3. CASE ReadUnsound
      BY <3>3, NextRequest DEF ReadUnsound
    <3> QED
      BY <1>5, <3>1, <3>2, <3>3
  <2> QED
    BY <2>1, <2>2, Zenon DEF ReadyInv
<1>6. CASE Write /\ UNCHANGED <<step, session, device, farewell>>
  <2>1. Serving /\ UNCHANGED <<toServer, pending, step, session, device>>
    BY <1>6 DEF Write, Serving, client
  <2>2. toClient' \in {toClient, toClient \o reply} /\ reply' = <<>>
    BY <1>6, Zenon DEF Write
  <2>3. ToSet(toClient') \subseteq ToSet(toClient) \cup ToSet(reply) /\ ToSet(reply') = {}
    BY <2>2, Joined, EmptyStream, Zenon DEF TypeOK
  <2>4. \A m \in Responses' : m \in Responses
    BY <2>3, Zenon DEF Responses
  <2>5. Established' = Established
    BY <2>1, Zenon DEF Established
  <2> QED
    BY <2>1, <2>4, <2>5, Zenon DEF ReadyInv
<1>7. CASE Resend /\ UNCHANGED <<step, session, device, farewell>>
  <2>1. pending \in Request /\ pending # NoRequest /\ toServer' = Append(toServer, pending)
    BY <1>7 DEF Resend, TypeOK
  <2>2. ToSet(toServer') \subseteq ToSet(toServer) \cup {pending}
    BY <2>1, Appended, Zenon DEF TypeOK
  <2>3. UNCHANGED <<toClient, pending, reply, worker, step, session, device>>
    BY <1>7, Zenon DEF Resend, client, server
  <2>4. Responses' = Responses /\ Serving' = Serving /\ Established' = Established
    BY <2>3, Zenon DEF Responses, Serving, Established
  <2>5. step \in Early => pending.type # "Goodbye"
    BY <2>1 DEF ReadyInv, Early
  <2> QED
    BY <2>2, <2>3, <2>4, <2>5, Zenon DEF ReadyInv
<1>8. CASE UNCHANGED agentVars
  BY <1>8, Zenon DEF agentVars, channel, client, server, ReadyInv, Responses, Serving, Established
<1> QED
  BY <1>1, <1>2, <1>3, <1>4, <1>5, <1>6, <1>7, <1>8, Zenon DEF Next, ProgramSteps, WorkerSteps

-----------------------------------------------------------------------------
(* The theorems.                                                           *)

(* The invariant behind them holds in every state.                         *)
THEOREM AgentSafe == Spec => []AgentInv
<1>1. Init => AgentInv
  <2> SUFFICES ASSUME Init PROVE AgentInv
    OBVIOUS
  <2>1. /\ toServer = <<>> /\ toClient = <<>> /\ reply = <<>> /\ handled = <<>> /\ delivered = <<>>
        /\ pending = NoRequest /\ sequence = 1 /\ last = 0 /\ clientOpen = TRUE /\ worker = "reading"
        /\ step = "Hello" /\ session = FALSE /\ device = "unknown" /\ farewell = FALSE
    BY Zenon DEF Init, ChannelInit
  <2>2. Requests = {} /\ Responses = {} /\ ToSet(toServer) = {}
    BY <2>1, EmptyStream, Zenon DEF Requests, Responses
  <2>3. TypeOK
    <3>1. /\ toServer \in Seq(Request) /\ toClient \in Seq(Response) /\ reply \in Seq(Response)
          /\ handled \in Seq(0..MaxSequence)
      BY <2>1, EmptyStream, Zenon
    <3>2. sequence \in 1..(MaxSequence + 1) /\ last \in 0..MaxSequence
      BY <2>1, SequenceAssumption
    <3> QED
      BY <2>1, <3>1, <3>2, Zenon DEF TypeOK, Types
  <2>4. SequencesIdentify
    BY <2>2, Zenon DEF SequencesIdentify
  <2>5. DOMAIN handled = {}
    BY <2>1
  <2>6. HandledSoFar
    BY <2>5, Zenon DEF HandledSoFar, HandledInOrder
  <2>7. ReadyInv
    BY <2>1, <2>2 DEF ReadyInv
  <2> QED
    BY <2>1, <2>3, <2>4, <2>6, <2>7, Zenon DEF AgentInv, AnswersMatchRequests
<1>2. AgentInv /\ [Next]_agentVars => AgentInv'
  BY TypeStep, IdentifyStep, MatchStep, HandledStep, ReadyStep, Zenon DEF AgentInv
<1> QED
  BY <1>1, <1>2, PTL DEF Spec

(* What request() returns is the answer to the request it was called with, *)
(* though earlier requests timed out with their answers still on the way   *)
(* and the stream may have lost its frame boundaries.                      *)
THEOREM AnswersMatch == Spec => []AnswersMatchRequests
<1>1. AgentInv => AnswersMatchRequests
  BY DEF AgentInv
<1> QED
  BY <1>1, AgentSafe, PTL

(* The handler of a connection is given the requests in the order of their *)
(* sequence numbers, and none twice, whatever the peer sends again.        *)
THEOREM HandlersSeeOrder == Spec => []HandledInOrder
<1>1. AgentInv => HandledInOrder
  BY DEF AgentInv, HandledSoFar
<1> QED
  BY <1>1, AgentSafe, PTL

(* While the program sends heartbeats on a connection that is served, the  *)
(* coordinator has its session and its device.                             *)
THEOREM HeartbeatsMeanEstablished == Spec => []ReadyMeansEstablished
<1>1. AgentInv => ReadyMeansEstablished
  BY DEF AgentInv, ReadyInv, Serving, Established, ReadyMeansEstablished
<1> QED
  BY <1>1, AgentSafe, PTL
=============================================================================
