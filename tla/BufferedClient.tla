---------------------------- MODULE BufferedClient ----------------------------
(***************************************************************************)
(* src/src/clients/buffered_client.rs: tasks that share one connection to  *)
(* the server through a bounded queue, and the task that owns the Client   *)
(* (src/src/clients/client.rs).                                            *)
(*                                                                         *)
(* A caller awaits twice, in tx.send and on its oneshot, and its future    *)
(* may be dropped at either (a timeout, a select!).  The owner awaits in   *)
(* recv, in write_frame and in read_response.  A reply carries no name:    *)
(* the client takes the next frame for the answer to its last request.     *)
(* The server applies a command in one step (module Db).                   *)
(***************************************************************************)
EXTENDS Naturals, Sequences, FiniteSets, SequencesExt, Subsequence

CONSTANTS
    Callers,        \* the tasks that hold a handle, one call at a time each
    Keys, Values,
    None,
    Capacity,       \* 32 in the code
    MaxCalls        \* bound: the calls of a caller

ASSUME BufferedClientAssumption ==
    /\ Capacity \in Nat \ {0}
    /\ MaxCalls \in Nat
    /\ None \notin Values

VARIABLES
    made,           \* per caller, the number of its calls
    call,           \* per caller, where its call is
    request,        \* per caller, the command of its call
    oneshot,        \* per caller, what its oneshot holds
    answer,         \* history: per caller, what its last call returned
    waiting,        \* callers in tx.send that wait for room, first come first
    queue,          \* the mpsc channel
    run,            \* where the task of run is
    current,        \* the message it works at
    response,       \* what client.get or client.set returned to it
    alive,          \* the connection works
    outbound,       \* requests in the socket
    inbound,        \* replies in the socket
    store,          \* the server's store
    result          \* history: per caller, the reply to its current request

callers == <<made, call, request, oneshot, answer>>
channel == <<waiting, queue>>
owner == <<run, current, response>>
server == <<alive, outbound, inbound, store, result>>
vars == <<callers, channel, owner, server>>

OK == "OK"
Nothing == [tag |-> "nothing"]
Value(v) == [tag |-> "ok", value |-> v]
Failed == [tag |-> "err"]

Commands ==
    [op : {"get"}, key : Keys] \cup [op : {"set"}, key : Keys, value : Values]

(* A message: a command and the oneshot of the call it belongs to. *)
Message(c) == [caller |-> c, n |-> made[c], cmd |-> request[c]]

(* The oneshot of the message is still there: its caller awaits it. *)
Awaited(m) == call[m.caller] = "waiting" /\ made[m.caller] = m.n

Init ==
    /\ made = [c \in Callers |-> 0]
    /\ call = [c \in Callers |-> "idle"]
    /\ request = [c \in Callers |-> None]
    /\ oneshot = [c \in Callers |-> Nothing]
    /\ answer = [c \in Callers |-> Value(None)]
    /\ waiting = <<>> /\ queue = <<>>
    /\ run = "recv" /\ current = None /\ response = Nothing
    /\ alive = TRUE /\ outbound = <<>> /\ inbound = <<>>
    /\ store = [k \in Keys |-> None]
    /\ result = [c \in Callers |-> Nothing]

-----------------------------------------------------------------------------
(* get and set: the command and the oneshot are made, tx.send asks for room. *)
Call(c) ==
    /\ call[c] = "idle" /\ made[c] < MaxCalls
    /\ \E cmd \in Commands : request' = [request EXCEPT ![c] = cmd]
    /\ made' = [made EXCEPT ![c] = @ + 1]
    /\ call' = [call EXCEPT ![c] = "sending"]
    /\ waiting' = Append(waiting, c)
    /\ result' = [result EXCEPT ![c] = Nothing]
    /\ UNCHANGED <<oneshot, answer, queue, owner, alive, outbound, inbound, store>>

(* Mutant: a queue without a limit. *)
SendUnbounded(c) ==
    /\ call[c] = "sending"
    /\ waiting' = SelectSeq(waiting, LAMBDA d : d # c)
    /\ queue' = Append(queue, Message(c))
    /\ call' = [call EXCEPT ![c] = "waiting"]
    /\ UNCHANGED <<made, request, oneshot, answer, owner, server>>

(* tx.send: room in the queue is given away in the order of asking, so the   *)
(* first callers in the line, as many as there is room for, may go on.       *)
Send(c) ==
    /\ call[c] = "sending"
    /\ \E i \in 1 .. Len(waiting) :
         /\ waiting[i] = c /\ i + Len(queue) <= Capacity
         /\ waiting' = RemoveAt(waiting, i)
    /\ queue' = Append(queue, Message(c))
    /\ call' = [call EXCEPT ![c] = "waiting"]
    /\ UNCHANGED <<made, request, oneshot, answer, owner, server>>

(* rx.await: the answer of the oneshot is the answer of the call. *)
Return(c) ==
    /\ call[c] = "waiting" /\ oneshot[c] # Nothing
    /\ answer' = [answer EXCEPT ![c] = oneshot[c]]
    /\ oneshot' = [oneshot EXCEPT ![c] = Nothing]
    /\ call' = [call EXCEPT ![c] = "idle"]
    /\ UNCHANGED <<made, request, channel, owner, server>>

(* Mutant: the owner gives up a request whose caller has gone, as a select!  *)
(* on tx.closed() around client.get would.                                   *)
AbandonStopsRequest(c) ==
    /\ call[c] \in {"sending", "waiting"}
    /\ waiting' = SelectSeq(waiting, LAMBDA d : d # c)
    /\ oneshot' = [oneshot EXCEPT ![c] = Nothing]
    /\ call' = [call EXCEPT ![c] = "idle"]
    /\ IF run = "read" /\ Awaited(current)
       THEN run' = "recv" /\ current' = None
       ELSE UNCHANGED <<run, current>>
    /\ UNCHANGED <<made, request, answer, queue, response, server>>

(* Mutant: the caller leaves its message unsent in the line for room. *)
AbandonStaysInLine(c) ==
    /\ call[c] \in {"sending", "waiting"}
    /\ oneshot' = [oneshot EXCEPT ![c] = Nothing]
    /\ call' = [call EXCEPT ![c] = "idle"]
    /\ UNCHANGED <<made, request, answer, channel, owner, server>>

(* The future of the call is dropped: out of the line, or the oneshot's      *)
(* receiver is gone.  A message that is queued stays queued.                 *)
Abandon(c) ==
    /\ \/ /\ call[c] = "sending"
          /\ \E i \in DOMAIN waiting : waiting[i] = c /\ waiting' = RemoveAt(waiting, i)
       \/ call[c] = "waiting" /\ UNCHANGED waiting
    /\ oneshot' = [oneshot EXCEPT ![c] = Nothing]
    /\ call' = [call EXCEPT ![c] = "idle"]
    /\ UNCHANGED <<made, request, answer, queue, owner, server>>

(* The handle is dropped, and with it a sender of the channel. *)
DropHandle(c) ==
    /\ call[c] = "idle"
    /\ call' = [call EXCEPT ![c] = "gone"]
    /\ UNCHANGED <<made, request, oneshot, answer, channel, owner, server>>

-----------------------------------------------------------------------------
(* Mutant: the newest message first. *)
ReceiveNewest ==
    /\ run = "recv" /\ queue # <<>>
    /\ current' = Last(queue)
    /\ queue' = Front(queue)
    /\ run' = "write"
    /\ UNCHANGED <<callers, waiting, response, server>>

(* rx.recv: the oldest message. *)
Receive ==
    /\ run = "recv" /\ queue # <<>>
    /\ current' = Head(queue)
    /\ queue' = Tail(queue)
    /\ run' = "write"
    /\ UNCHANGED <<callers, waiting, response, server>>

(* Mutant: the loop ends with the last handle, whatever is queued. *)
ReceiveNoneEarly ==
    /\ run = "recv"
    /\ \A c \in Callers : call[c] = "gone"
    /\ run' = "ended"
    /\ alive' = FALSE
    /\ UNCHANGED <<callers, channel, current, response, outbound, inbound, store, result>>

(* Mutant: the connection outlives the task. *)
EndKeepsConnection ==
    /\ run = "recv" /\ queue = <<>>
    /\ \A c \in Callers : call[c] = "gone"
    /\ run' = "ended"
    /\ UNCHANGED <<callers, channel, current, response, server>>

(* rx.recv returns None: no sender is left and the queue is empty.  The      *)
(* Client is dropped with its connection.                                    *)
ReceiveNone ==
    /\ run = "recv" /\ queue = <<>>
    /\ \A c \in Callers : call[c] = "gone"
    /\ run' = "ended"
    /\ alive' = FALSE
    /\ UNCHANGED <<callers, channel, current, response, outbound, inbound, store, result>>

(* write_frame in client.get or client.set.  On a broken connection it may   *)
(* fail, or fill a socket nobody reads.                                      *)
Write ==
    /\ run = "write"
    /\ \/ /\ alive
          /\ outbound' = Append(outbound, current)
          /\ run' = "read"
          /\ UNCHANGED response
       \/ /\ ~alive
          /\ run' = "read"
          /\ UNCHANGED <<outbound, response>>
       \/ /\ ~alive
          /\ response' = Failed
          /\ run' = "answer"
          /\ UNCHANGED outbound
    /\ UNCHANGED <<callers, channel, current, alive, inbound, store, result>>

(* Mutant: get knows no Null. *)
ReplyWithoutNull(cmd, frame) ==
    CASE cmd.op = "get" /\ frame # None -> Value(frame)
      [] cmd.op = "set" /\ frame = OK -> Value(None)
      [] OTHER -> Failed

(* What get and set make of a reply: a bulk, Null or OK. *)
Reply(cmd, frame) ==
    CASE cmd.op = "get" -> Value(frame)
      [] cmd.op = "set" /\ frame = OK -> Value(None)
      [] OTHER -> Failed

(* read_response: the next frame of the connection. *)
ReadResponse ==
    /\ run = "read" /\ inbound # <<>>
    /\ response' = Reply(current.cmd, Head(inbound))
    /\ inbound' = Tail(inbound)
    /\ run' = "answer"
    /\ UNCHANGED <<callers, channel, current, alive, outbound, store, result>>

(* read_response on a broken connection: the end of the stream or an error;  *)
(* replies on the way are lost.                                              *)
ReadFails ==
    /\ run = "read" /\ ~alive
    /\ response' = Failed
    /\ inbound' = <<>>
    /\ run' = "answer"
    /\ UNCHANGED <<callers, channel, current, alive, outbound, store, result>>

(* tx.send on the oneshot; a receiver that is gone is no error. *)
Answer ==
    /\ run = "answer"
    /\ IF Awaited(current)
       THEN oneshot' = [oneshot EXCEPT ![current.caller] = response]
       ELSE UNCHANGED oneshot
    /\ run' = "recv" /\ current' = None /\ response' = Nothing
    /\ UNCHANGED <<made, call, request, answer, channel, server>>

-----------------------------------------------------------------------------
(* Get::apply and Set::apply in the server, and their reply; it may do so    *)
(* for requests that were in its socket when the connection broke.           *)
Served(m) == IF m.cmd.op = "set" THEN None ELSE store[m.cmd.key]
Serve ==
    /\ outbound # <<>>
    /\ LET m == Head(outbound)
       IN  /\ store' = IF m.cmd.op = "set" THEN [store EXCEPT ![m.cmd.key] = m.cmd.value] ELSE store
           /\ inbound' = IF alive
                         THEN Append(inbound, IF m.cmd.op = "set" THEN OK ELSE store[m.cmd.key])
                         ELSE inbound
           /\ result' = IF Awaited(m)
                        THEN [result EXCEPT ![m.caller] = Value(Served(m))]
                        ELSE result
    /\ outbound' = Tail(outbound)
    /\ UNCHANGED <<callers, channel, owner, alive>>

(* The connection breaks, and requests that were on the way may be lost. *)
Break ==
    /\ alive
    /\ alive' = FALSE
    /\ outbound' \in {outbound, <<>>}
    /\ UNCHANGED <<callers, channel, owner, inbound, store, result>>

Next ==
    \/ \E c \in Callers : Call(c) \/ Send(c) \/ Return(c) \/ Abandon(c) \/ DropHandle(c)
    \/ Receive \/ ReceiveNone \/ Write \/ ReadResponse \/ ReadFails \/ Answer
    \/ Serve \/ Break

Spec == Init /\ [][Next]_vars

(* The tasks are scheduled, the server serves a connection that works; no    *)
(* caller has to call, and nobody has to give up.                            *)
Fairness ==
    /\ \A c \in Callers : WF_vars(Send(c)) /\ WF_vars(Return(c))
    /\ WF_vars(Receive \/ ReceiveNone \/ Write \/ ReadResponse \/ ReadFails \/ Answer)
    /\ WF_vars(Serve)

LiveSpec == Spec /\ Fairness

-----------------------------------------------------------------------------
Messages == [caller : Callers, n : 1 .. MaxCalls, cmd : Commands]

TypeOK ==
    /\ made \in [Callers -> 0 .. MaxCalls]
    /\ call \in [Callers -> {"idle", "sending", "waiting", "gone"}]
    /\ request \in [Callers -> Commands \cup {None}]
    /\ queue \in Seq(Messages) /\ Len(queue) <= Capacity
    /\ ToSet(waiting) = {c \in Callers : call[c] = "sending"}
    /\ run \in {"recv", "write", "read", "answer", "ended"}
    /\ current \in Messages \cup {None}
    /\ outbound \in Seq(Messages)
    /\ alive \in BOOLEAN
    /\ store \in [Keys -> Values \cup {None}]

(* A reply is matched with its request by position alone: so on a working     *)
(* connection a request or a reply is in the socket exactly while run reads,  *)
(* one of them, and a request is the current one.  Whoever gives up a call,   *)
(* and whenever.                                                              *)
OneInFlight ==
    alive =>
        /\ Len(outbound) + Len(inbound) = IF run = "read" THEN 1 ELSE 0
        /\ outbound # <<>> => Head(outbound) = current

(* No caller suffers for what another one does: a call fails only when the    *)
(* connection is broken.                                                      *)
FailsOnlyWhenBroken == \A c \in Callers : answer[c] = Failed => ~alive

(* The task ends when the last handle is gone, and not before the requests    *)
(* that were queued have been worked off.                                     *)
EndsDrained == run = "ended" => queue = <<>> /\ waiting = <<>> /\ current = None

(* The promise: see CallStore.  A command without effect is in the socket, at *)
(* hand, in the queue or on its way into it.                                  *)
Pipeline == outbound \o (IF run = "write" THEN <<current>> ELSE <<>>) \o queue
Line == [i \in DOMAIN waiting |-> Message(waiting[i])]
Own(c) == {m \in Messages : m.caller = c}
Calling(m) == call[m.caller] \in {"sending", "waiting"} /\ made[m.caller] = m.n
Item(m) == [cmd |-> m.cmd, live |-> Calling(m)]
Backlog(c) ==
    LET own == Within(Pipeline \o Line, Own(c))
    IN  [i \in DOMAIN own |-> Item(own[i])]

Progress(c) ==
    IF call[c] \in {"idle", "gone"} THEN [tag |-> "idle"]
    ELSE IF result[c] = Nothing THEN [tag |-> "pending"]
    ELSE [tag |-> "done", value |-> result[c].value]

Promise == INSTANCE CallStore WITH
    backlog <- [c \in Callers |-> Backlog(c)],
    call <- [c \in Callers |-> Progress(c)]
RefinesCallStore == Promise!Spec

(* Every call comes back: the queue moves on, callers get their turn, and a   *)
(* broken connection answers too.                                             *)
Answered ==
    \A c \in Callers : call[c] \in {"sending", "waiting"} ~> call[c] = "idle"

(* When the last handle is dropped the task ends and closes the connection.   *)
Ends == (\A c \in Callers : call[c] = "gone") ~> run = "ended" /\ ~alive

=============================================================================
