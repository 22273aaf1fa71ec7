--------------------------- MODULE SubscriberClient ---------------------------
(***************************************************************************)
(* Client::subscribe and Subscriber of src/clients/client.rs, joined to    *)
(* the server's half of the conversation, module PubSub: requests travel   *)
(* one way, the frames PubSub writes the other, both in order.             *)
(*                                                                         *)
(* A frame carries no request's name: a call takes the next frames for its *)
(* confirmations, though published messages arrive between them.  Each     *)
(* await of a call is an action, and its future may be dropped at any.     *)
(* next_message() is one action, when there is a frame: until then dropping*)
(* it changes nothing.                                                     *)
(***************************************************************************)
EXTENDS PubSub, Subsequence

CONSTANTS
  MaxCalls,  \* bound of the model: the calls each client makes
  Abandons,  \* whether programs drop the futures of their calls
  GoesOn     \* whether they use a Subscriber after a call of it has failed

ASSUME ClientAssumption ==
  /\ MaxCalls \in Nat
  /\ Abandons \in BOOLEAN
  /\ GoesOn \in BOOLEAN

VARIABLES
  client,    \* where each client is
  listed,    \* its subscribed_channels
  argument,  \* the channels of its call
  left,      \* the confirmations its call has yet to read
  requests,  \* the commands on their way to the server
  inbound,   \* the frames on their way to the client
  calls,     \* the number of calls it has made
  failed     \* history: a call has returned an error, or its future was dropped

own == <<client, listed, argument, left, calls, failed>>
sockets == <<requests, inbound>>
sessionVars == <<vars, own, sockets>>

\* "client" is a Client; "joining" its subscribe(); the others are a Subscriber.
Calling      == {"joining", "subscribing", "unsubscribing"}
ClientStates == Calling \cup {"client", "idle", "gone"}

SessionInit ==
  /\ Init
  /\ client = [s \in Subscribers |-> "client"]
  /\ listed = [s \in Subscribers |-> <<>>]
  /\ argument = [s \in Subscribers |-> <<>>]
  /\ left = [s \in Subscribers |-> 0]
  /\ requests = [s \in Subscribers |-> <<>>]
  /\ inbound = [s \in Subscribers |-> <<>>]
  /\ calls = [s \in Subscribers |-> 0]
  /\ failed = [s \in Subscribers |-> FALSE]

-------------------------------------------------------------------------------
(* The calls of a client.                                                  *)

\* A call writes its command and has num confirmations to read.
Begin(s, state, op, channels, num) ==
  /\ calls[s] < MaxCalls
  /\ failed[s] => GoesOn
  /\ calls' = [calls EXCEPT ![s] = @ + 1]
  /\ client' = [client EXCEPT ![s] = state]
  /\ argument' = [argument EXCEPT ![s] = channels]
  /\ left' = [left EXCEPT ![s] = num]
  /\ requests' = [requests EXCEPT ![s] = Append(@, [op |-> op, channels |-> channels])]
  /\ UNCHANGED <<vars, listed, inbound, failed>>

\* Client::subscribe, which consumes the Client.
Join(s, channels) ==
  /\ client[s] = "client"
  /\ Begin(s, "joining", "subscribe", channels, Len(channels))

\* Subscriber::subscribe.
CallSubscribe(s, channels) ==
  /\ client[s] = "idle"
  /\ Begin(s, "subscribing", "subscribe", channels, Len(channels))

\* Mutant: as many confirmations as channels named.
CallUnsubscribeCountsNamed(s, channels) ==
  /\ client[s] = "idle"
  /\ Begin(s, "unsubscribing", "unsubscribe", channels, Len(channels))

\* Mutant: as many confirmations as channels listed.
CallUnsubscribeCountsListed(s, channels) ==
  /\ client[s] = "idle"
  /\ Begin(s, "unsubscribing", "unsubscribe", channels, Len(listed[s]))

\* Subscriber::unsubscribe; no channel stands for all those listed.
CallUnsubscribe(s, channels) ==
  /\ client[s] = "idle"
  /\ Begin(s, "unsubscribing", "unsubscribe", channels,
           IF channels = <<>> THEN Len(listed[s]) ELSE Len(channels))

\* The server has closed, and write_frame() fails: the call sends nothing.
WriteFails(s) ==
  /\ client[s] \in {"client", "idle"}
  /\ pc[s] = "ended"
  /\ calls[s] < MaxCalls
  /\ failed[s] => GoesOn
  /\ calls' = [calls EXCEPT ![s] = @ + 1]
  /\ client' = [client EXCEPT ![s] = IF @ = "client" THEN "gone" ELSE "idle"]
  /\ failed' = [failed EXCEPT ![s] = TRUE]
  /\ UNCHANGED <<vars, listed, argument, left, sockets>>

\* An error is returned, or the future dropped.  The Client that joins is
\* consumed; a Subscriber can be used further.
Fail(s) ==
  /\ client' = [client EXCEPT ![s] = IF @ = "joining" THEN "gone" ELSE "idle"]
  /\ failed' = [failed EXCEPT ![s] = TRUE]

\* Mutant: every confirmation is compared with the first channel.
ConfirmsFirst(s, frame) == frame.kind = "subscribe" /\ frame.channel = argument[s][1]

\* The confirmation subscribe_cmd() waits for: the channels in their order.
Confirms(s, frame) ==
  /\ frame.kind = "subscribe"
  /\ frame.channel = argument[s][Len(argument[s]) - left[s] + 1]

\* subscribe_cmd() reads a frame.
ReadSubscribed(s) ==
  /\ client[s] \in {"joining", "subscribing"}
  /\ left[s] > 0
  /\ inbound[s] # <<>>
  /\ inbound' = [inbound EXCEPT ![s] = Tail(@)]
  /\ \/ /\ Confirms(s, Head(inbound[s]))
        /\ left' = [left EXCEPT ![s] = @ - 1]
        /\ UNCHANGED <<client, failed>>
     \/ /\ ~Confirms(s, Head(inbound[s]))
        /\ Fail(s)
        /\ UNCHANGED left
  /\ UNCHANGED <<vars, listed, argument, calls, requests>>

\* The list once retain() has run.
Retained(s, ch) == Without(listed[s], ch)

\* unsubscribe() reads a frame.  A confirmation takes its channel off the list,
\* and is an error unless that was one entry.
ReadUnsubscribed(s) ==
  LET frame == Head(inbound[s])
      kept  == Retained(s, frame.channel)
  IN  /\ client[s] = "unsubscribing"
      /\ left[s] > 0
      /\ inbound[s] # <<>>
      /\ inbound' = [inbound EXCEPT ![s] = Tail(@)]
      /\ \/ /\ frame.kind # "unsubscribe"
            /\ Fail(s)
            /\ UNCHANGED <<listed, left>>
         \/ /\ frame.kind = "unsubscribe"
            /\ listed' = [listed EXCEPT ![s] = kept]
            /\ \/ /\ Len(kept) = Len(listed[s]) - 1
                  /\ left' = [left EXCEPT ![s] = @ - 1]
                  /\ UNCHANGED <<client, failed>>
               \/ /\ Len(kept) # Len(listed[s]) - 1
                  /\ Fail(s)
                  /\ UNCHANGED left
      /\ UNCHANGED <<vars, argument, calls, requests>>

\* The last confirmation has been read: subscribe() extends the list.
Return(s) ==
  /\ client[s] \in Calling
  /\ left[s] = 0
  /\ client' = [client EXCEPT ![s] = "idle"]
  /\ listed' = IF client[s] = "unsubscribing" THEN listed
               ELSE [listed EXCEPT ![s] = @ \o argument[s]]
  /\ UNCHANGED <<vars, argument, left, calls, failed, sockets>>

\* The server has closed: read_response() finds the end of the stream.
CallFails(s) ==
  /\ client[s] \in Calling
  /\ pc[s] = "ended"
  /\ inbound[s] = <<>>
  /\ Fail(s)
  /\ UNCHANGED <<vars, listed, argument, left, calls, sockets>>

\* The future of a call is dropped; what it has not read stays in the socket.
Abandon(s) ==
  /\ Abandons
  /\ client[s] \in Calling
  /\ Fail(s)
  /\ UNCHANGED <<vars, listed, argument, left, calls, sockets>>

\* next_message() reads a frame, and fails if it is no message.
TakeMessage(s) ==
  /\ client[s] = "idle"
  /\ failed[s] => GoesOn
  /\ inbound[s] # <<>>
  /\ inbound' = [inbound EXCEPT ![s] = Tail(@)]
  /\ failed' = [failed EXCEPT ![s] = @ \/ Head(inbound[s]).kind # "message"]
  /\ UNCHANGED <<vars, client, listed, argument, left, calls, requests>>

\* The Client or the Subscriber is dropped, and its socket closed.
Leave(s) ==
  /\ client[s] \in {"client", "idle"}
  /\ client' = [client EXCEPT ![s] = "gone"]
  /\ UNCHANGED <<vars, listed, argument, left, calls, failed, sockets>>

-------------------------------------------------------------------------------
(* The server's steps, and what they do to the sockets.                    *)

\* read_frame() wins the select!.  A SUBSCRIBE without channels is no command,
\* and ends the connection.
ServerReads(s) ==
  /\ requests[s] # <<>>
  /\ requests' = [requests EXCEPT ![s] = Tail(@)]
  /\ LET request == Head(requests[s])
     IN  \/ request.op = "subscribe" /\ Subscribe(s, request.channels)
         \/ request.op = "unsubscribe" /\ Unsubscribe(s, request.channels)
         \/ /\ request.op = "subscribe"
            /\ request.channels = <<>>
            /\ pc[s] = "serving" \/ InSelect(s)
            /\ End(s)
  /\ UNCHANGED <<own, inbound>>

ServerWorks(s) ==
  /\ DbSubscribe(s) \/ Insert(s) \/ Remove(s)
  /\ UNCHANGED <<own, sockets>>

ServerForwards(s, ch) ==
  /\ NextMessage(s, ch)
  /\ UNCHANGED <<own, sockets>>

ServerWrites(s) ==
  /\ FrameWritten(s)
  /\ inbound' = [inbound EXCEPT ![s] = Append(@, out[s])]
  /\ UNCHANGED <<own, requests>>

\* The connection ends on the server's side; a reset may lose what the client has
\* not read.
ServerEnds(s) ==
  /\ End(s)
  /\ inbound' \in {inbound, [inbound EXCEPT ![s] = <<>>]}
  /\ UNCHANGED <<own, requests>>

Published ==
  /\ \E ch \in Channels : Publish(ch)
  /\ UNCHANGED <<own, sockets>>

-------------------------------------------------------------------------------

\* A call goes on.
CallStep(s) == ReadSubscribed(s) \/ ReadUnsubscribed(s) \/ Return(s) \/ CallFails(s)

ClientNext(s) ==
  \/ \E channels \in Lists :
       Join(s, channels) \/ CallSubscribe(s, channels) \/ CallUnsubscribe(s, channels)
  \/ WriteFails(s)
  \/ CallStep(s)
  \/ Abandon(s)
  \/ TakeMessage(s)
  \/ Leave(s)

ServerNext(s) ==
  \/ ServerReads(s)
  \/ ServerWorks(s)
  \/ \E ch \in Channels : ServerForwards(s, ch)
  \/ ServerWrites(s)
  \/ ServerEnds(s)

SessionNext ==
  \/ \E s \in Subscribers : ClientNext(s) \/ ServerNext(s)
  \/ Published

\* A call that is awaited is polled; the server's task as in PubSub, its select!
\* taking requests and messages alike; the sockets have room.  No program has
\* to call, to read messages or to leave.
SessionFairness ==
  \A s \in Subscribers :
    /\ WF_sessionVars(CallStep(s))
    /\ WF_sessionVars(ServerWorks(s))
    /\ WF_sessionVars(ServerWrites(s))
    /\ SF_sessionVars(ServerReads(s))
    /\ \A ch \in Channels : SF_sessionVars(ServerForwards(s, ch))

SessionSafeSpec == SessionInit /\ [][SessionNext]_sessionVars

SessionSpec == SessionSafeSpec /\ SessionFairness

-------------------------------------------------------------------------------
(* Properties.                                                             *)

\* client.rs:396-399: between the calls of a Subscriber none of which has failed,
\* the list is what the server has it subscribed to, and the next frame is a
\* message, as next_message() takes for granted.
InStep ==
  \A s \in Subscribers :
    client[s] = "idle" /\ ~failed[s] /\ pc[s] # "ended" =>
      /\ {listed[s][i] : i \in DOMAIN listed[s]} = Subscribed(s)
      /\ out[s] # None => out[s].kind = "message"
      /\ \A i \in DOMAIN inbound[s] : inbound[s][i].kind = "message"

\* client.rs:344-366, 478-504: the first call of a Subscriber to fail fails
\* because the connection is over, because it was given up, because a message
\* came before a confirmation, or because it named a channel that is not on the
\* list exactly once.
FailsForCause ==
  [][\A s \in Subscribers :
       ~failed[s] /\ failed'[s] =>
         \/ pc[s] = "ended"
         \/ Abandon(s)
         \/ Head(inbound[s]).kind = "message"
         \/ /\ client[s] = "unsubscribing"
            /\ Cardinality({i \in DOMAIN listed[s] :
                              listed[s][i] = Head(inbound[s]).channel}) # 1]_sessionVars

\* client.rs:471-478: the number of confirmations a call waits for is the number
\* the server sends, so it returns, as long as none has failed before.
CallsReturn ==
  \A s \in Subscribers :
    client[s] \in Calling /\ ~failed[s] ~> client[s] \notin Calling

\* client.rs:468-470: unsubscribing from all channels, "server acknowledges as
\* unsubscribing from all subscribed channels", and the call returns, whatever
\* calls came before.  It does not once an unsubscribe() has failed on a message and
\* next_message() has then taken its late confirmation, as an error: the channel is
\* still listed, and the server has nothing left to confirm.
EveryCallReturns ==
  \A s \in Subscribers : client[s] = "unsubscribing" ~> client[s] # "unsubscribing"
===============================================================================
