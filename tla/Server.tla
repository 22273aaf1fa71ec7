-------------------------------- MODULE Server --------------------------------
(***************************************************************************)
(* src/server.rs and src/shutdown.rs: the listener that accepts            *)
(* connections under a limit, the handler task of each connection, and the *)
(* graceful shutdown of server::run.                                       *)
(*                                                                         *)
(* What a connection's task owns is a set of resources, and how it gives   *)
(* them up, in Rust's drop order, is what the limit and the shutdown rely  *)
(* on.  The commands themselves are in Db and PubSub: here a command is a  *)
(* stretch of work between two reads of the socket.                        *)
(***************************************************************************)
EXTENDS Naturals, FiniteSets

CONSTANTS
  Conns,          \* the connections clients open, each once
  MaxConnections, \* MAX_CONNECTIONS
  MaxBackoff      \* the 64 of Listener::accept, in seconds

ASSUME ServerAssumption ==
  /\ IsFiniteSet(Conns)
  /\ MaxConnections \in Nat \ {0}
  /\ MaxBackoff \in Nat \ {0}

VARIABLES
  phase,     \* where server::run is
  listener,  \* where Listener::run is
  permits,   \* the permits available in limit_connections
  backoff,   \* the pause accept() makes after its next failure, in seconds
  notify,    \* server::run still holds notify_shutdown
  sender,    \* server::run still holds shutdown_complete_tx
  handler,   \* where each connection is
  holds,     \* what each connection's task still owns
  peer       \* the other end of each connection

vars == <<phase, listener, permits, backoff, notify, sender, handler, holds, peer>>

Phases == {"select", "closing", "draining", "returned"}

ListenerStates == {"acquire", "accept", "backoff", "ended"}

\* The permit captured by the task, and the fields of Handler.
Resources == {"permit", "db", "connection", "shutdown", "shutdown_complete"}

\* A handler that serves its connection, then one that only has to be dropped.
Serving == {"reading", "applying", "subscribed", "replying"}
Over    == {"returned", "panicked"}

\* "backlog": the kernel has the connection, the listener does not yet.
HandlerStates == {"none", "backlog"} \cup Serving \cup Over

\* "stalled": connected, but it does not read what the server writes.
PeerStates == {"open", "stalled", "closed"}

TypeOK ==
  /\ phase \in Phases
  /\ listener \in ListenerStates
  /\ permits \in 0 .. MaxConnections
  /\ backoff \in 1 .. 2 * MaxBackoff
  /\ notify \in BOOLEAN
  /\ sender \in BOOLEAN
  /\ handler \in [Conns -> HandlerStates]
  /\ holds \in [Conns -> SUBSET Resources]
  /\ peer \in [Conns -> PeerStates]

Init ==
  /\ phase = "select"
  /\ listener = "acquire"
  /\ permits = MaxConnections
  /\ backoff = 1
  /\ notify = TRUE
  /\ sender = TRUE
  /\ handler = [c \in Conns |-> "none"]
  /\ holds = [c \in Conns |-> {}]
  /\ peer = [c \in Conns |-> "closed"]

Goto(c, state) == handler' = [handler EXCEPT ![c] = state]

-------------------------------------------------------------------------------
(* Clients and the kernel.                                                 *)

Connect(c) ==
  /\ handler[c] = "none"
  /\ Goto(c, "backlog")
  /\ peer' = [peer EXCEPT ![c] = "open"]
  /\ UNCHANGED <<phase, listener, permits, backoff, notify, sender, holds>>

\* The peer stops or resumes reading.
Stall(c) ==
  /\ peer[c] # "closed"
  /\ peer' = [peer EXCEPT ![c] = IF @ = "open" THEN "stalled" ELSE "open"]
  /\ UNCHANGED <<phase, listener, permits, backoff, notify, sender, handler, holds>>

\* The peer closes its end, or the network does.  The step is the moment at
\* which that shows: what the peer has sent before has been read by then.
Disconnect(c) ==
  /\ peer[c] # "closed"
  /\ peer' = [peer EXCEPT ![c] = "closed"]
  /\ UNCHANGED <<phase, listener, permits, backoff, notify, sender, handler, holds>>

-------------------------------------------------------------------------------
(* Listener::run and Listener::accept.                                     *)

\* acquire_owned() completes: the listener owns a permit.
Acquire ==
  /\ listener = "acquire"
  /\ permits > 0
  /\ permits' = permits - 1
  /\ listener' = "accept"
  /\ backoff' = 1
  /\ UNCHANGED <<phase, notify, sender, handler, holds, peer>>

\* Mutant: the permit is not moved into the task, and returns to the semaphore
\* when the iteration ends.
AcceptKeepsPermit(c) ==
  /\ listener = "accept"
  /\ handler[c] = "backlog"
  /\ listener' = "acquire"
  /\ permits' = permits + 1
  /\ Goto(c, "reading")
  /\ holds' = [holds EXCEPT ![c] = Resources \ {"permit"}]
  /\ UNCHANGED <<phase, backoff, notify, sender, peer>>

\* accept() returns a socket, and a task is spawned that owns a handler and the
\* permit.  There is no await between the two.
Accept(c) ==
  /\ listener = "accept"
  /\ handler[c] = "backlog"
  /\ listener' = "acquire"
  /\ Goto(c, "reading")
  /\ holds' = [holds EXCEPT ![c] = Resources]
  /\ UNCHANGED <<phase, permits, backoff, notify, sender, peer>>

\* Mutant: the bound on the pause is tested nowhere.
AcceptFailsForever ==
  /\ listener = "accept"
  /\ listener' = "backoff"
  /\ UNCHANGED <<phase, permits, backoff, notify, sender, handler, holds, peer>>

\* accept() fails and pauses.
AcceptFails ==
  /\ listener = "accept"
  /\ backoff <= MaxBackoff
  /\ listener' = "backoff"
  /\ UNCHANGED <<phase, permits, backoff, notify, sender, handler, holds, peer>>

\* The pause is over, the next one is twice as long.
Retry ==
  /\ listener = "backoff"
  /\ listener' = "accept"
  /\ backoff' = 2 * backoff
  /\ UNCHANGED <<phase, permits, notify, sender, handler, holds, peer>>

\* The listener's future ends, with it the permit it owns, if any.
EndListener ==
  /\ phase = "select"
  /\ phase' = "closing"
  /\ listener' = "ended"
  /\ permits' = IF listener \in {"accept", "backoff"} THEN permits + 1 ELSE permits
  /\ UNCHANGED <<backoff, notify, sender, handler, holds, peer>>

\* accept() fails once more and returns the error: so does Listener::run, and
\* the select! of server::run.
GiveUp ==
  /\ listener = "accept"
  /\ backoff > MaxBackoff
  /\ EndListener

-------------------------------------------------------------------------------
(* server::run.                                                            *)

\* The shutdown future completes; select! drops the listener's future.
Shutdown ==
  EndListener

\* drop(notify_shutdown): every handler's recv() returns from now on.
DropNotifyShutdown ==
  /\ phase = "closing"
  /\ notify
  /\ notify' = FALSE
  /\ UNCHANGED <<phase, listener, permits, backoff, sender, handler, holds, peer>>

\* Mutant: the last sender is not dropped before recv().
KeepSender ==
  /\ phase = "closing"
  /\ ~notify
  /\ phase' = "draining"
  /\ UNCHANGED <<listener, permits, backoff, notify, sender, handler, holds, peer>>

\* drop(shutdown_complete_tx), then recv().await.
DropShutdownCompleteTx ==
  /\ phase = "closing"
  /\ ~notify
  /\ sender' = FALSE
  /\ phase' = "draining"
  /\ UNCHANGED <<listener, permits, backoff, notify, handler, holds, peer>>

\* recv() returns None: no sender is left.  server::run returns and drops what
\* was left of the Listener, the DbDropGuard included.
Drained ==
  /\ phase = "draining"
  /\ ~sender
  /\ \A c \in Conns : "shutdown_complete" \notin holds[c]
  /\ phase' = "returned"
  /\ UNCHANGED <<listener, permits, backoff, notify, sender, handler, holds, peer>>

-------------------------------------------------------------------------------
(* Handler::run.                                                           *)

HandlerStep(c, from, to) ==
  /\ handler[c] \in from
  /\ Goto(c, to)
  /\ UNCHANGED <<phase, listener, permits, backoff, notify, sender, holds, peer>>

\* read_frame() wins the select! with a command other than SUBSCRIBE.
ReadCommand(c) ==
  /\ peer[c] # "closed"
  /\ HandlerStep(c, {"reading"}, "applying")

\* The same with a SUBSCRIBE: Subscribe::apply does not return before the
\* connection ends or the server stops.
ReadSubscribe(c) ==
  /\ peer[c] # "closed"
  /\ HandlerStep(c, {"reading"}, "replying")

\* read_frame() wins with an error, or its frame is not a command.
ReadFails(c) ==
  /\ peer[c] # "closed"
  /\ HandlerStep(c, {"reading"}, "returned")

\* read_frame() finds the connection closed or reset.
ReadEof(c) ==
  /\ peer[c] = "closed"
  /\ HandlerStep(c, {"reading"}, "returned")

\* shutdown.recv() wins the select!, in Handler::run or in Subscribe::apply,
\* after which is_shutdown() ends the loop of Handler::run.
ObserveShutdown(c) ==
  /\ ~notify
  /\ HandlerStep(c, {"reading", "subscribed"}, "returned")

\* A command is applied and its response written, which takes a peer that reads.
ApplyDone(c) ==
  /\ peer[c] # "stalled"
  /\ HandlerStep(c, {"applying"}, "reading")

\* In subscribed mode, the frames a command or a message calls for are written.
ReplyDone(c) ==
  /\ peer[c] # "stalled"
  /\ HandlerStep(c, {"replying"}, "subscribed")

\* The response cannot be written, and apply() returns the error.
ApplyFails(c) ==
  /\ peer[c] # "stalled"
  /\ HandlerStep(c, {"applying", "replying"}, "returned")

\* An UNSUBSCRIBE outside subscribed mode: apply() returns an error and writes
\* nothing.
ApplyRefuses(c) == HandlerStep(c, {"applying"}, "returned")

\* apply() panics, on a poisoned Mutex or a deadline out of range.
ApplyPanics(c) == HandlerStep(c, {"applying", "replying"}, "panicked")

\* In subscribed mode: a command of the peer, or a published message.
ReadSubscribed(c) ==
  /\ peer[c] # "closed"
  /\ HandlerStep(c, {"subscribed"}, "replying")

ReceiveMessage(c) == HandlerStep(c, {"subscribed"}, "replying")

\* In subscribed mode read_frame() fails, or what it read is not a command.
SubscribedFails(c) ==
  /\ peer[c] # "closed"
  /\ HandlerStep(c, {"subscribed"}, "returned")

\* read_frame() panics, in either mode, as on a bulk length it cannot add 2 to:
\* module Frame says on which bytes and in which build.
ReadPanics(c) ==
  /\ peer[c] # "closed"
  /\ HandlerStep(c, {"reading", "subscribed"}, "panicked")

\* Mutant: the end of the stream is taken for an empty read.
IgnoreEof(c) ==
  /\ peer[c] = "closed"
  /\ HandlerStep(c, {"subscribed"}, "subscribed")

\* In subscribed mode the peer has closed: apply() returns, and the next read of
\* Handler::run finds the end of the stream again.
SubscribedEof(c) ==
  /\ peer[c] = "closed"
  /\ HandlerStep(c, {"subscribed"}, "reading")

-------------------------------------------------------------------------------
(* The end of a connection's task.                                         *)

\* Mutant: the sender is the first field of Handler.
MayDropSenderFirst(c, r) ==
  /\ r \in holds[c]
  /\ handler[c] = "returned" /\ r # "permit" => "permit" \notin holds[c]
  /\ r \in {"db", "connection", "shutdown"} => "shutdown_complete" \notin holds[c]
  /\ r \in {"connection", "shutdown"} => "db" \notin holds[c]
  /\ r \in {"shutdown"} => "connection" \notin holds[c]

\* What may be dropped next.  drop(permit) comes before the end of the async
\* block, where the handler is dropped field by field in the order of its
\* declaration.  A panic unwinds both, in an order we do not rely on.
MayDrop(c, r) ==
  /\ r \in holds[c]
  /\ handler[c] = "returned" /\ r # "permit" => "permit" \notin holds[c]
  /\ r \in {"connection", "shutdown", "shutdown_complete"} => "db" \notin holds[c]
  /\ r \in {"shutdown", "shutdown_complete"} => "connection" \notin holds[c]
  /\ r = "shutdown_complete" => "shutdown" \notin holds[c]

\* Mutant: the permit is forgotten, not dropped.
DropForgets(c, r) ==
  /\ handler[c] \in Over
  /\ MayDrop(c, r)
  /\ holds' = [holds EXCEPT ![c] = @ \ {r}]
  /\ UNCHANGED <<phase, listener, permits, backoff, notify, sender, handler, peer>>

\* One resource is dropped; a permit returns to the semaphore.
Drop(c, r) ==
  /\ handler[c] \in Over
  /\ MayDrop(c, r)
  /\ holds' = [holds EXCEPT ![c] = @ \ {r}]
  /\ permits' = IF r = "permit" THEN permits + 1 ELSE permits
  /\ UNCHANGED <<phase, listener, backoff, notify, sender, handler, peer>>

-------------------------------------------------------------------------------

ClientStep(c) == Connect(c) \/ Stall(c) \/ Disconnect(c)

ListenerStep ==
  \/ Acquire
  \/ \E c \in Conns : Accept(c)
  \/ AcceptFails
  \/ Retry
  \/ GiveUp

RunStep == DropNotifyShutdown \/ DropShutdownCompleteTx \/ Drained

\* What the peer or the publishers make happen.
Served(c) ==
  \/ ReadCommand(c)
  \/ ReadSubscribe(c)
  \/ ReadFails(c)
  \/ ReadSubscribed(c)
  \/ ReceiveMessage(c)
  \/ SubscribedFails(c)
  \/ ReadPanics(c)

\* A command that returns, once its response is written or cannot be.
Work(c) == ApplyDone(c) \/ ReplyDone(c) \/ ApplyFails(c)

HandlerNext(c) ==
  \/ Served(c)
  \/ Work(c)
  \/ ApplyRefuses(c)
  \/ ApplyPanics(c)
  \/ ReadEof(c)
  \/ SubscribedEof(c)
  \/ ObserveShutdown(c)

Next ==
  \/ \E c \in Conns : ClientStep(c)
  \/ ListenerStep
  \/ Shutdown
  \/ RunStep
  \/ \E c \in Conns : HandlerNext(c)
  \/ \E c \in Conns, r \in Resources : Drop(c, r)

\* The runtime polls a task that was woken.  select! polls its branches in a
\* random order, so neither a peer that always has a command ready nor a busy
\* channel keeps a handler from the other branches: strong fairness.  Nothing
\* makes a peer send, read or close.
Fairness ==
  /\ WF_vars(ListenerStep)
  /\ WF_vars(RunStep)
  /\ \A c \in Conns :
       /\ SF_vars(ObserveShutdown(c))
       /\ SF_vars(SubscribedEof(c))
       /\ WF_vars(ReadEof(c))
       /\ WF_vars(Work(c))
       /\ WF_vars(\E r \in Resources : Drop(c, r))

SafeSpec == Init /\ [][Next]_vars

Spec == SafeSpec /\ Fairness

-------------------------------------------------------------------------------
(* Properties.                                                             *)

InUse == {c \in Conns : "permit" \in holds[c]}

ListenerHolds == listener \in {"accept", "backoff"}

\* server.rs:28-33: no permit is lost or made up, whichever way an accept, a
\* connection or the listener ends.
PermitsConserved ==
  permits + Cardinality(InUse) + (IF ListenerHolds THEN 1 ELSE 0) = MaxConnections

\* server.rs:83-86: the handlers that serve a connection stay within the limit.
ServingWithinLimit ==
  Cardinality({c \in Conns : handler[c] \in Serving}) <= MaxConnections

\* server.rs:50-51, db.rs:306-308: server::run returns, and drops the
\* DbDropGuard, when no handler can reach the database any more.
DbOutlivesHandlers ==
  phase = "returned" => \A c \in Conns : "db" \notin holds[c]

\* server.rs:97-102: after the signal, or after the listener has given up,
\* server::run returns; only a response its peer does not read can hold it up.
ShutdownCompletes ==
  phase # "select" ~>
    \/ phase = "returned"
    \/ \E c \in Conns : peer[c] = "stalled" /\ handler[c] \in {"applying", "replying"}

\* server.rs:28-33: whatever it was doing, a connection whose peer is gone gives
\* back all it holds, its permit first of all.
DeadConnectionFreed ==
  \A c \in Conns : peer[c] = "closed" /\ handler[c] \in Serving ~> holds[c] = {}

\* server.rs:85-86: while the server runs, a client waits only when the limit is
\* reached; it is never stuck in front of a listener that has permits.
ListenerKeepsAccepting ==
  []<>(\/ \A c \in Conns : handler[c] # "backlog"
       \/ Cardinality(InUse) = MaxConnections
       \/ phase # "select")
===============================================================================
