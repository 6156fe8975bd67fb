------------------------------ MODULE Channel ------------------------------
(***************************************************************************)
(* One connection of the control protocol: ControlClient::request of       *)
(* src/net/client.cpp at one end, the loop of a worker thread of           *)
(* src/net/server.cpp at the other, and the two byte streams between them. *)
(* A request that fails at the client leaves its answer on the way.        *)
(***************************************************************************)
EXTENDS Integers, Sequences, SequencesExt

CONSTANTS
  MaxSequence,  \* bounds the requests of one connection
  MaxUnread,    \* bounds the answers to frames that are sent again
  NoRequest     \* no request is outstanding

Types == {"Hello", "Advertise", "Heartbeat", "Goodbye"}

(* A request has a type, a sequence number and says whether it arrives     *)
(* sound.  A response has the type of the request it answers ("none" for   *)
(* the error sent after a framing fault, whose sequence is zero), the      *)
(* sequence number and says whether it is an error.                        *)
Request == [type: Types, sequence: 1..MaxSequence, sound: BOOLEAN]

ASSUME SequenceAssumption == MaxSequence \in Nat /\ MaxUnread \in Nat

ASSUME NoRequestAssumption == NoRequest \notin Request

(* What is left of a response when its reader stopped after the header.    *)
Remainder == [answers |-> "remainder", sequence |-> 0, error |-> TRUE]

VARIABLES
  toServer, toClient,  \* what is on its way
  sequence,            \* sequence_ of the client: the next request's
  pending,             \* the request whose answer the client is reading
  delivered,           \* the last answer request() returned, and to what
  clientOpen,
  worker,              \* the worker thread: "reading", "writing", "leaving", "closed"
  reply,               \* the response it is writing
  last,                \* last_request_sequence, zero before the first request
  handled              \* the sequences of the requests given to the handler

client == <<sequence, pending, delivered, clientOpen>>
server == <<worker, reply, last, handled>>
channel == <<toServer, toClient, client, server>>

ChannelInit ==
  /\ toServer = <<>> /\ toClient = <<>>
  /\ sequence = 1 /\ pending = NoRequest /\ delivered = <<>> /\ clientOpen = TRUE
  /\ worker = "reading" /\ reply = <<>> /\ last = 0 /\ handled = <<>>

-----------------------------------------------------------------------------
(* The client.                                                             *)

(* Bytes can be damaged on the way, which the checksums show.  What is     *)
(* sent to a closed socket is lost.                                        *)
Send(type) ==
  /\ clientOpen /\ pending = NoRequest /\ sequence <= MaxSequence
  /\ \E ok \in BOOLEAN :
       LET r == [type |-> type, sequence |-> sequence, sound |-> ok] IN
         /\ toServer' = IF worker = "closed" THEN toServer ELSE Append(toServer, r)
         /\ pending' = r
  /\ sequence' = sequence + 1 /\ delivered' = <<>>
  /\ UNCHANGED <<toClient, clientOpen, server>>

(* Another implementation of the client may send a frame again.            *)
Resend ==
  /\ clientOpen /\ pending # NoRequest /\ pending.sound
  /\ worker # "closed" /\ toServer = <<>> /\ Len(toClient) < MaxUnread
  /\ toServer' = Append(toServer, pending)
  /\ UNCHANGED <<toClient, client, server>>

(* Mutant: the first response that arrives is taken for the answer.        *)
IsAnswerAny(h) == TRUE

IsAnswer(h) == h.sequence = pending.sequence

(* The stream after a header was read where none begins: the rest of the   *)
(* remainder, the next frame, or that frame without its first bytes.       *)
Misread(stream) ==
  {stream, Tail(stream)}
    \cup (IF Len(stream) > 1 THEN {<<Remainder>> \o Tail(Tail(stream))} ELSE {})

Receive ==
  /\ pending # NoRequest /\ toClient # <<>> /\ Head(toClient) # Remainder
  /\ IsAnswer(Head(toClient))
  /\ delivered' = <<pending, Head(toClient)>>
  /\ pending' = NoRequest /\ toClient' = Tail(toClient)
  /\ UNCHANGED <<toServer, sequence, clientOpen, server>>

(* Mutant: a wrong answer is all that ends the wait.                       *)
FailOnArrival ==
  /\ pending # NoRequest /\ toClient # <<>> /\ Head(toClient) # Remainder
  /\ ~IsAnswer(Head(toClient))
  /\ toClient' = <<Remainder>> \o Tail(toClient) /\ pending' = NoRequest
  /\ UNCHANGED <<toServer, sequence, delivered, clientOpen, server>>

(* request() returns an error: nothing or only a part arrived in time, the *)
(* connection was closed, or what arrived is damaged or not the answer.    *)
(* The socket stays open.                                                  *)
Fail ==
  /\ pending # NoRequest
  /\ \/ toClient' = toClient
     \/ /\ toClient # <<>> /\ Head(toClient) # Remainder
        /\ toClient' \in {Tail(toClient), <<Remainder>> \o Tail(toClient)}
     \/ /\ toClient # <<>> /\ Head(toClient) = Remainder
        /\ toClient' \in Misread(toClient)
  /\ pending' = NoRequest
  /\ UNCHANGED <<toServer, sequence, delivered, clientOpen, server>>

CloseClient ==
  /\ clientOpen /\ pending = NoRequest
  /\ clientOpen' = FALSE /\ toClient' = <<>>
  /\ UNCHANGED <<toServer, sequence, pending, delivered, server>>

-----------------------------------------------------------------------------
(* The worker thread.                                                      *)

(* A damaged frame is answered once, under sequence zero, and the          *)
(* connection is given up.                                                 *)
ReadUnsound ==
  /\ worker = "reading" /\ toServer # <<>> /\ ~Head(toServer).sound
  /\ toServer' = Tail(toServer)
  /\ toClient' = IF clientOpen
                 THEN Append(toClient, [answers |-> "none", sequence |-> 0, error |-> TRUE])
                 ELSE toClient
  /\ worker' = "leaving"
  /\ UNCHANGED <<client, reply, last, handled>>

(* Mutant: an old sequence number is handled again.                        *)
RepeatsNever(r) == FALSE

Repeats(r) == r.sequence <= last

(* handle() with the handler's verdict; a repeated sequence is answered    *)
(* with an error and not handled, and the connection stays.                *)
Read(refused) ==
  /\ worker = "reading" /\ toServer # <<>> /\ Head(toServer).sound
  /\ toServer' = Tail(toServer)
  /\ LET r == Head(toServer) IN
       /\ reply' = <<[answers |-> r.type, sequence |-> r.sequence,
                      error |-> Repeats(r) \/ refused]>>
       /\ last' = IF Repeats(r) THEN last ELSE r.sequence
       /\ handled' = IF Repeats(r) THEN handled ELSE Append(handled, r.sequence)
  /\ worker' = "writing"
  /\ UNCHANGED <<toClient, client>>

(* A response to GOODBYE, even to a repeated one, ends the loop; so does   *)
(* a failed send, which is noticed at once or not.                         *)
Write ==
  /\ worker = "writing"
  /\ toClient' = IF clientOpen THEN toClient \o reply ELSE toClient
  /\ worker' \in IF reply[1].answers = "Goodbye" THEN {"leaving"}
                 ELSE IF clientOpen THEN {"reading"} ELSE {"reading", "leaving"}
  /\ reply' = <<>>
  /\ UNCHANGED <<toServer, client, last, handled>>

(* The peer is gone, the server stops, or no request came in time.         *)
GiveUp ==
  /\ worker = "reading"
  /\ worker' = "leaving"
  /\ UNCHANGED <<toServer, toClient, client, reply, last, handled>>

(* on_disconnected, then the socket is closed.                             *)
Teardown ==
  /\ worker = "leaving"
  /\ worker' = "closed" /\ toServer' = <<>>
  /\ UNCHANGED <<toClient, client, reply, last, handled>>
=============================================================================
