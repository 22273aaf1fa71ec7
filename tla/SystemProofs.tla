----------------------------- MODULE SystemProofs -----------------------------
(***************************************************************************)
(* Theorems about Server and about System, for any finite number of        *)
(* connections, any limits and any keys, values, durations and clock:      *)
(* System is Server and it is Db at once.                                  *)
(***************************************************************************)
EXTENDS System, FiniteSetTheorems, TLAPS

-------------------------------------------------------------------------------
(* The inductive invariant of Server.                                      *)

\* What a connection's task owns while it serves, and before it exists.
HeldWhileServing ==
  \A c \in Conns :
    /\ handler[c] \in {"none", "backlog"} => holds[c] = {}
    /\ handler[c] \in Serving => holds[c] = Resources

\* The order of Handler's fields: the sender goes last.
SenderOutlivesDb ==
  \A c \in Conns : "db" \in holds[c] => "shutdown_complete" \in holds[c]

\* The listener's future lives as long as the select! of server::run.
ListenerEnds == phase = "select" <=> listener # "ended"

\* Only a pause within the bound is doubled.
BackoffBounded == listener = "backoff" => backoff <= MaxBackoff

IInv ==
  /\ TypeOK
  /\ HeldWhileServing
  /\ SenderOutlivesDb
  /\ ListenerEnds
  /\ BackoffBounded
  /\ PermitsConserved
  /\ DbOutlivesHandlers

\* The initial state satisfies it.
LEMMA InitIInv == Init => IInv
<1> SUFFICES ASSUME Init PROVE IInv
  OBVIOUS
<1>1. TypeOK
  BY ServerAssumption DEF Init, TypeOK, Phases, ListenerStates, HandlerStates, Resources,
                          PeerStates
<1>2. PermitsConserved
  <2>1. InUse = {}
    BY DEF InUse, Init
  <2>2. Cardinality(InUse) = 0
    BY <2>1, FS_EmptySet
  <2> QED
    BY <2>2, ServerAssumption DEF Init, PermitsConserved, ListenerHolds
<1>3. HeldWhileServing /\ SenderOutlivesDb
  BY DEF Init, HeldWhileServing, SenderOutlivesDb, Serving
<1>4. ListenerEnds /\ BackoffBounded /\ DbOutlivesHandlers
  BY DEF Init, ListenerEnds, BackoffBounded, DbOutlivesHandlers
<1> QED
  BY <1>1, <1>2, <1>3, <1>4 DEF IInv

\* The connections that hold a permit are finitely many.
LEMMA InUseFinite == IsFiniteSet(InUse) /\ Cardinality(InUse) \in Nat
<1>1. InUse \subseteq Conns
  BY DEF InUse
<1>2. IsFiniteSet(InUse)
  BY <1>1, ServerAssumption, FS_Subset
<1> QED
  BY <1>2, FS_CardinalityType

\* No permit is made up: conservation bounds the semaphore.
LEMMA PermitsBounded ==
  ASSUME PermitsConserved, permits \in Int, permits >= 0
  PROVE  permits \in 0 .. MaxConnections
  BY InUseFinite, ServerAssumption DEF PermitsConserved

-------------------------------------------------------------------------------
(* Steps that move a permit.                                               *)

\* Accepting moves the listener's permit to the connection.
LEMMA AcceptConserves ==
  ASSUME IInv, NEW c \in Conns, Accept(c)
  PROVE  PermitsConserved'
<1>1. InUse' = InUse \cup {c}
  BY DEF Accept, InUse, IInv, TypeOK, Resources
<1>2. c \notin InUse
  BY DEF Accept, InUse, IInv, HeldWhileServing
<1>3. Cardinality(InUse') = Cardinality(InUse) + 1
  BY <1>1, <1>2, InUseFinite, FS_AddElement
<1>4. permits' = permits /\ ListenerHolds /\ ~ListenerHolds'
  BY DEF Accept, ListenerHolds
<1>5. permits \in Int /\ Cardinality(InUse) \in Int
  BY InUseFinite DEF IInv, TypeOK
<1> QED
  BY <1>3, <1>4, <1>5, ServerAssumption DEF IInv, PermitsConserved

\* Dropping the permit returns it; dropping anything else moves none.
LEMMA DropConserves ==
  ASSUME IInv, NEW c \in Conns, NEW r \in Resources, Drop(c, r)
  PROVE  PermitsConserved'
<1>0. permits \in Int /\ Cardinality(InUse) \in Int /\ IsFiniteSet(InUse)
  BY InUseFinite DEF IInv, TypeOK
<1>1. ListenerHolds' = ListenerHolds
  BY DEF Drop, ListenerHolds
<1>2. CASE r = "permit"
  <2>1. InUse' = InUse \ {c}
    BY <1>2 DEF Drop, InUse, IInv, TypeOK
  <2>2. c \in InUse
    BY <1>2 DEF Drop, MayDrop, InUse
  <2>3. Cardinality(InUse') = Cardinality(InUse) - 1
    BY <1>0, <2>1, <2>2, FS_RemoveElement
  <2>4. permits' = permits + 1
    BY <1>2 DEF Drop
  <2> QED
    BY <1>0, <1>1, <2>3, <2>4, ServerAssumption DEF IInv, PermitsConserved
<1>3. CASE r # "permit"
  <2>1. InUse' = InUse
    BY <1>3 DEF Drop, InUse, IInv, TypeOK
  <2>2. permits' = permits
    BY <1>3 DEF Drop
  <2> QED
    BY <1>1, <2>1, <2>2 DEF IInv, PermitsConserved
<1> QED
  BY <1>2, <1>3

\* A step that changes neither the permits nor who holds them conserves them.
LEMMA SameHolders ==
  ASSUME PermitsConserved, UNCHANGED <<permits, holds>>, ListenerHolds' = ListenerHolds
  PROVE  PermitsConserved'
<1>1. InUse' = InUse
  BY DEF InUse
<1> QED
  BY <1>1 DEF PermitsConserved
-------------------------------------------------------------------------------
(* Steps by actor.                                                         *)

\* The steps of a handler that serves: they move between serving states, or end.
LEMMA HandlerKeeps ==
  ASSUME IInv, NEW c \in Conns, HandlerNext(c)
  PROVE  IInv'
<1>1. PICK from \in {Serving, {"applying"}, {"reading"}, {"subscribed"}, {"replying"},
                     {"applying", "replying"}, {"reading", "subscribed"}},
           to \in Serving \cup Over : HandlerStep(c, from, to)
  BY DEF HandlerNext, Served, Work, ReadCommand, ReadSubscribe, ReadFails, ReadEof,
         ObserveShutdown, ApplyDone, ReplyDone, ApplyFails, ApplyRefuses, ApplyPanics,
         ReadSubscribed, ReadPanics, ReceiveMessage, SubscribedFails, SubscribedEof, Serving, Over
<1>2. handler[c] \in Serving /\ holds' = holds
  BY <1>1 DEF HandlerStep, Serving
<1>3. handler' = [handler EXCEPT ![c] = to]
  BY <1>1 DEF HandlerStep, Goto
<1>4. UNCHANGED <<phase, listener, permits, backoff, notify, sender, holds, peer>>
  BY <1>1 DEF HandlerStep
<1>5. TypeOK'
  BY <1>3, <1>4 DEF IInv, TypeOK, HandlerStates, Serving, Over
<1>6. HeldWhileServing'
  BY <1>2, <1>3 DEF IInv, TypeOK, HeldWhileServing, Serving, Over
<1>7. PermitsConserved'
  BY <1>4, SameHolders DEF IInv, ListenerHolds
<1>8. SenderOutlivesDb' /\ ListenerEnds' /\ BackoffBounded' /\ DbOutlivesHandlers'
  BY <1>4 DEF IInv, SenderOutlivesDb, ListenerEnds, BackoffBounded, DbOutlivesHandlers
<1> QED
  BY <1>5, <1>6, <1>7, <1>8 DEF IInv

\* The steps of the clients.
LEMMA ClientKeeps ==
  ASSUME IInv, NEW c \in Conns, ClientStep(c)
  PROVE  IInv'
<1>1. UNCHANGED <<phase, listener, permits, backoff, notify, sender, holds>>
  BY DEF ClientStep, Connect, Stall, Disconnect
<1>2. TypeOK'
  BY DEF ClientStep, Connect, Stall, Disconnect, IInv, TypeOK, HandlerStates, PeerStates, Goto
<1>3. HeldWhileServing'
  BY DEF ClientStep, Connect, Stall, Disconnect, IInv, TypeOK, HeldWhileServing, Goto, Serving
<1>4. PermitsConserved'
  BY <1>1, SameHolders DEF IInv, ListenerHolds
<1>5. SenderOutlivesDb' /\ ListenerEnds' /\ BackoffBounded' /\ DbOutlivesHandlers'
  BY <1>1 DEF IInv, SenderOutlivesDb, ListenerEnds, BackoffBounded, DbOutlivesHandlers
<1> QED
  BY <1>2, <1>3, <1>4, <1>5 DEF IInv

\* A connection is accepted while the listener lives, hence before the guard is
\* dropped.
LEMMA AcceptKeeps ==
  ASSUME IInv, NEW c \in Conns, Accept(c)
  PROVE  IInv'
<1>1. TypeOK'
  BY DEF Accept, IInv, TypeOK, ListenerStates, HandlerStates, Serving, Goto
<1>2. HeldWhileServing'
  BY DEF Accept, IInv, TypeOK, HeldWhileServing, Goto, Serving
<1>3. SenderOutlivesDb'
  BY DEF Accept, IInv, TypeOK, SenderOutlivesDb, Resources
<1>4. ListenerEnds' /\ BackoffBounded'
  BY DEF Accept, IInv, ListenerEnds, BackoffBounded
<1>5. DbOutlivesHandlers'
  BY DEF Accept, IInv, ListenerEnds, DbOutlivesHandlers
<1> QED
  BY <1>1, <1>2, <1>3, <1>4, <1>5, AcceptConserves DEF IInv

\* The listener's own steps.
LEMMA ListenerKeeps ==
  ASSUME IInv, Acquire \/ AcceptFails \/ Retry
  PROVE  IInv'
<1>1. TypeOK'
  <2>1. CASE Acquire
    BY <2>1, ServerAssumption DEF Acquire, IInv, TypeOK, ListenerStates
  <2>2. CASE AcceptFails
    BY <2>2 DEF AcceptFails, IInv, TypeOK, ListenerStates
  <2>3. CASE Retry
    BY <2>3, ServerAssumption DEF Retry, IInv, TypeOK, ListenerStates, BackoffBounded
  <2> QED
    BY <2>1, <2>2, <2>3
<1>2. PermitsConserved'
  <2>1. CASE Acquire
    <3>1. InUse' = InUse
      BY <2>1 DEF Acquire, InUse
    <3>2. permits' = permits - 1 /\ ListenerHolds' /\ ~ListenerHolds
      BY <2>1 DEF Acquire, ListenerHolds
    <3>3. permits \in Int /\ Cardinality(InUse) \in Int
      BY InUseFinite DEF IInv, TypeOK
    <3> QED
      BY <3>1, <3>2, <3>3, ServerAssumption DEF IInv, PermitsConserved
  <2>2. CASE AcceptFails \/ Retry
    BY <2>2, SameHolders DEF IInv, AcceptFails, Retry, ListenerHolds
  <2> QED
    BY <2>1, <2>2
<1>3. HeldWhileServing' /\ SenderOutlivesDb' /\ ListenerEnds' /\ DbOutlivesHandlers'
  BY DEF Acquire, AcceptFails, Retry, IInv, HeldWhileServing, SenderOutlivesDb,
         ListenerEnds, DbOutlivesHandlers
<1>4. BackoffBounded'
  BY DEF Acquire, AcceptFails, Retry, BackoffBounded
<1> QED
  BY <1>1, <1>2, <1>3, <1>4 DEF IInv

\* The end of the listener returns its permit.
LEMMA EndListenerKeeps ==
  ASSUME IInv, EndListener
  PROVE  IInv'
<1>1. InUse' = InUse
  BY DEF EndListener, InUse
<1>2. permits \in Int /\ Cardinality(InUse) \in Nat
  BY InUseFinite DEF IInv, TypeOK
<1>3. ~ListenerHolds' /\ permits' = permits + (IF ListenerHolds THEN 1 ELSE 0)
  BY <1>2 DEF EndListener, ListenerHolds
<1>4. PermitsConserved'
  BY <1>1, <1>2, <1>3, ServerAssumption DEF IInv, PermitsConserved
<1>5. permits' \in 0 .. MaxConnections
  <2>1. permits' \in Int /\ permits' >= 0
    BY <1>3 DEF IInv, TypeOK
  <2>2. permits' + Cardinality(InUse) = MaxConnections
    BY <1>1, <1>2, <1>3, <1>4, <2>1 DEF PermitsConserved
  <2> QED
    BY <1>2, <2>1, <2>2, ServerAssumption
<1>6. TypeOK'
  BY <1>5 DEF EndListener, IInv, TypeOK, Phases, ListenerStates
<1>7. HeldWhileServing' /\ SenderOutlivesDb' /\ ListenerEnds' /\ BackoffBounded'
        /\ DbOutlivesHandlers'
  BY DEF EndListener, IInv, HeldWhileServing, SenderOutlivesDb, ListenerEnds,
         BackoffBounded, DbOutlivesHandlers
<1> QED
  BY <1>4, <1>6, <1>7 DEF IInv

\* The steps of server::run: when no sender is left, no Db handle is.
LEMMA RunKeeps ==
  ASSUME IInv, RunStep
  PROVE  IInv'
<1>1. UNCHANGED <<listener, permits, backoff, handler, holds, peer>>
  BY DEF RunStep, DropNotifyShutdown, DropShutdownCompleteTx, Drained
<1>2. TypeOK'
  BY DEF RunStep, DropNotifyShutdown, DropShutdownCompleteTx, Drained, IInv, TypeOK, Phases
<1>3. ListenerEnds'
  BY DEF RunStep, DropNotifyShutdown, DropShutdownCompleteTx, Drained, IInv, ListenerEnds
<1>4. DbOutlivesHandlers'
  BY DEF RunStep, DropNotifyShutdown, DropShutdownCompleteTx, Drained, IInv,
         SenderOutlivesDb, DbOutlivesHandlers
<1>5. PermitsConserved'
  BY <1>1, SameHolders DEF IInv, ListenerHolds
<1>6. HeldWhileServing' /\ SenderOutlivesDb' /\ BackoffBounded'
  BY <1>1 DEF IInv, HeldWhileServing, SenderOutlivesDb, BackoffBounded
<1> QED
  BY <1>2, <1>3, <1>4, <1>5, <1>6 DEF IInv

\* A dropped resource keeps the order: the sender waits for the Db handle.
LEMMA DropKeeps ==
  ASSUME IInv, NEW c \in Conns, NEW r \in Resources, Drop(c, r)
  PROVE  IInv'
<1>1. PermitsConserved'
  BY DropConserves
<1>2. permits' \in 0 .. MaxConnections
  <2>1. permits' \in Int /\ permits' >= 0
    BY DEF Drop, IInv, TypeOK
  <2>2. Cardinality(InUse') \in Nat
    <3>1. InUse' \subseteq Conns
      BY DEF InUse
    <3> QED
      BY <3>1, ServerAssumption, FS_Subset, FS_CardinalityType
  <2> QED
    BY <1>1, <2>1, <2>2, ServerAssumption DEF PermitsConserved
<1>3. TypeOK'
  BY <1>2 DEF Drop, IInv, TypeOK
<1>4. HeldWhileServing'
  BY DEF Drop, IInv, TypeOK, HeldWhileServing, Serving, Over
<1>5. SenderOutlivesDb'
  BY DEF Drop, MayDrop, IInv, TypeOK, SenderOutlivesDb
<1>6. ListenerEnds' /\ BackoffBounded' /\ DbOutlivesHandlers'
  BY DEF Drop, IInv, TypeOK, ListenerEnds, BackoffBounded, DbOutlivesHandlers
<1> QED
  BY <1>1, <1>3, <1>4, <1>5, <1>6 DEF IInv

\* Nothing happens.
LEMMA StutterKeeps ==
  ASSUME IInv, UNCHANGED vars
  PROVE  IInv'
<1>1. PermitsConserved'
  BY SameHolders DEF vars, IInv, ListenerHolds
<1> QED
  BY <1>1 DEF vars, IInv, TypeOK, HeldWhileServing, SenderOutlivesDb, ListenerEnds,
              BackoffBounded, DbOutlivesHandlers

\* Every step keeps the invariant.
LEMMA StepIInv == IInv /\ [Next]_vars => IInv'
  BY HandlerKeeps, ClientKeeps, AcceptKeeps, ListenerKeeps, EndListenerKeeps, RunKeeps,
     DropKeeps, StutterKeeps
  DEF Next, ListenerStep, GiveUp, Shutdown

-------------------------------------------------------------------------------
(* The theorems.                                                           *)

\* Every reachable state satisfies the inductive invariant.
THEOREM Invariance == SafeSpec => []IInv
  BY InitIInv, StepIInv, PTL DEF SafeSpec

\* Types; in particular the semaphore stays within the limit and the pause of
\* accept() within twice its bound.
THEOREM TypesCorrect == SafeSpec => []TypeOK
<1>1. IInv => TypeOK
  BY DEF IInv
<1> QED
  BY Invariance, <1>1, PTL

\* No permit is lost or made up.
THEOREM PermitsCorrect == SafeSpec => []PermitsConserved
<1>1. IInv => PermitsConserved
  BY DEF IInv
<1> QED
  BY Invariance, <1>1, PTL

\* Every handler that serves holds a permit, so there are never more than
\* MaxConnections of them.
THEOREM LimitCorrect == SafeSpec => []ServingWithinLimit
<1>1. IInv => ServingWithinLimit
  <2> SUFFICES ASSUME IInv PROVE ServingWithinLimit
    OBVIOUS
  <2> DEFINE serving == {c \in Conns : handler[c] \in Serving}
  <2>1. serving \subseteq InUse
    BY DEF IInv, HeldWhileServing, InUse, Resources
  <2>2. IsFiniteSet(serving) /\ Cardinality(serving) <= Cardinality(InUse)
    BY <2>1, InUseFinite, FS_Subset
  <2>3. Cardinality(serving) \in Nat
    BY <2>2, FS_CardinalityType
  <2>4. Cardinality(InUse) <= MaxConnections
    BY InUseFinite, ServerAssumption DEF IInv, TypeOK, PermitsConserved
  <2> QED
    BY <2>2, <2>3, <2>4, InUseFinite, ServerAssumption DEF ServingWithinLimit
<1> QED
  BY Invariance, <1>1, PTL

\* server::run drops the DbDropGuard when no handler has a Db handle: what Db
\* assumes in DropGuard.
THEOREM GuardCorrect == SafeSpec => []DbOutlivesHandlers
<1>1. IInv => DbOutlivesHandlers
  BY DEF IInv
<1> QED
  BY Invariance, <1>1, PTL

-------------------------------------------------------------------------------
(* System implements Server.                                               *)

\* Every step of the system is a step of Server or leaves its state alone.
LEMMA StepServes == [SystemNext]_systemVars => [Next]_vars
<1> SUFFICES ASSUME [SystemNext]_systemVars PROVE [Next]_vars
  OBVIOUS
<1>1. ASSUME NEW c \in Conns, Open(c) PROVE Next
  BY <1>1 DEF Open, Next, ListenerStep
<1>2. ASSUME NEW c \in Conns, Read(c) PROVE Next
  BY <1>2 DEF Read, Next, HandlerNext, Served
<1>3. ASSUME NEW c \in Conns, Execute(c) \/ Notify(c) PROVE UNCHANGED vars
  BY <1>3 DEF Execute, Notify
<1>4. ASSUME NEW c \in Conns, Panic(c) PROVE Next
  BY <1>4 DEF Panic, Next, HandlerNext
<1>5. ASSUME NEW c \in Conns, Reply(c) \/ Refuse(c) PROVE Next
  BY <1>5 DEF Reply, Refuse, Next, HandlerNext
<1>6. ASSUME NEW c \in Conns, Release(c) PROVE Next
  BY <1>6 DEF Release, Next
<1>7. ASSUME NEW c \in Conns, ClientStep(c) \/ HandlerApart(c) PROVE Next
  BY <1>7 DEF HandlerApart, Next, HandlerNext, Served
<1>8. CASE ListenerApart \/ Shutdown \/ RunStep
  BY <1>8 DEF ListenerApart, Next, ListenerStep
<1>9. CASE DropListener \/ Background \/ UNCHANGED systemVars
  BY <1>9 DEF DropListener, Background, systemVars
<1> QED
  BY <1>1, <1>2, <1>3, <1>4, <1>5, <1>6, <1>7, <1>8, <1>9 DEF SystemNext

\* System implements the safety part of Server, whose theorems it inherits.
THEOREM ImplementsServer == SystemSafeSpec => SafeSpec
<1>1. SystemInit => Init
  BY DEF SystemInit
<1> QED
  BY <1>1, StepServes, PTL DEF SystemSafeSpec, SafeSpec

-------------------------------------------------------------------------------
(* Handles: what Server knows of them and what Db does.                    *)

\* The handle of Server and the handle of Db.  A handler that has not been spawned
\* has none; a task of Db that is not over belongs to a handler that holds one, and
\* a handler holds one of a task that is not closed.
HandlesMatch ==
  \A c \in Conns :
    /\ handler[c] \in {"none", "backlog"} => task[c] = "closed"
    /\ task[c] \in {"idle", "notify"} => "db" \in holds[c]
    /\ "db" \in holds[c] => task[c] # "closed"

\* The DbDropGuard lives as long as server::run.
GuardHeld == phase # "returned" => guard = "held"

Link ==
  /\ task \in [Conns -> D!TaskStates]
  /\ HandlesMatch
  /\ GuardHeld

\* A step of a handler's task in Db.
LEMMA TaskKeepsLink ==
  ASSUME IInv, Link, NEW c \in Conns, UNCHANGED <<holds, phase>>, UNCHANGED guard,
         handler[c] \notin {"none", "backlog"}, handler'[c] \notin {"none", "backlog"},
         \A b \in Conns \ {c} : handler'[b] = handler[b],
         \E state \in {"idle", "notify", "panicked"} :
           task[c] \in {"idle", "notify"} /\ task' = [task EXCEPT ![c] = state]
  PROVE  Link'
BY DEF Link, HandlesMatch, GuardHeld, D!TaskStates

\* A step of Server that Db takes no part in and that spawns and drops nothing.
LEMMA ApartKeepsLink ==
  ASSUME IInv, Link, UNCHANGED <<task, guard, holds>>,
         \A c \in Conns : handler'[c] \in {"none", "backlog"} => handler[c] \in {"none", "backlog"},
         phase = "returned" => phase' = "returned"
  PROVE  Link'
BY DEF Link, HandlesMatch, GuardHeld

\* A step of the system keeps handler and task together.
LEMMA StepLink == IInv /\ Link /\ [SystemNext]_systemVars => Link'
<1> SUFFICES ASSUME IInv, Link, [SystemNext]_systemVars PROVE Link'
  OBVIOUS
<1> USE DEF IInv, TypeOK
<1>1. ASSUME NEW c \in Conns, Open(c) PROVE Link'
  <2>1. task' = [task EXCEPT ![c] = "idle"] /\ guard' = guard
    BY <1>1 DEF Open, D!OpenTask
  <2>2. handler' = [handler EXCEPT ![c] = "reading"] /\ holds' = [holds EXCEPT ![c] = Resources]
    BY <1>1 DEF Open, Accept, Goto
  <2>3. phase' = phase
    BY <1>1 DEF Open, Accept
  <2> QED
    BY <2>1, <2>2, <2>3 DEF Link, HandlesMatch, GuardHeld, D!TaskStates, Resources
<1>2. ASSUME NEW c \in Conns, Read(c) PROVE Link'
  BY <1>2, ApartKeepsLink
  DEF Read, dbVars, ReadCommand, ReadSubscribe, ReadSubscribed, HandlerStep, Goto
<1>3. ASSUME NEW c \in Conns, Execute(c) PROVE Link'
  <2>1. UNCHANGED vars
    BY <1>3 DEF Execute
  <2>2. CASE UNCHANGED dbVars
    BY <2>1, <2>2, ApartKeepsLink DEF vars, dbVars
  <2>3. CASE handler[c] = "applying" /\ UNCHANGED <<task, guard>>
    BY <2>1, <2>3, ApartKeepsLink DEF vars
  <2>4. ASSUME NEW k \in Keys, NEW v \in Values, NEW d \in Durations,
               handler[c] = "applying", D!SetExpires(c, k, v, d)
        PROVE Link'
    <3>1. task[c] = "idle" /\ guard' = guard
      BY <2>4 DEF D!SetExpires, D!Locks
    <3>2. \E state \in {"idle", "notify", "panicked"} : task' = [task EXCEPT ![c] = state]
      BY <2>4, <3>1 DEF D!SetExpires, Link
    <3> QED
      BY <2>1, <2>4, <3>1, <3>2, TaskKeepsLink DEF vars
  <2> QED
    BY <1>3, <2>2, <2>3, <2>4 DEF Execute, D!Get, D!Set
<1>4. ASSUME NEW c \in Conns, Panic(c) PROVE Link'
  <2>1. task[c] = "idle" /\ task' = [task EXCEPT ![c] = "panicked"] /\ guard' = guard
    BY <1>4 DEF Panic, D!SetOverflow, D!LockPanics, D!Locks
  <2>2. /\ handler[c] \in {"applying", "replying"}
        /\ handler' = [handler EXCEPT ![c] = "panicked"]
        /\ UNCHANGED <<holds, phase>>
    BY <1>4 DEF Panic, ApplyPanics, HandlerStep, Goto
  <2> QED
    BY <2>1, <2>2, TaskKeepsLink
<1>5. ASSUME NEW c \in Conns, Notify(c) PROVE Link'
  <2>1. task[c] = "notify" /\ task' = [task EXCEPT ![c] = "idle"] /\ guard' = guard
    BY <1>5 DEF Notify, D!NotifyPurger
  <2>2. UNCHANGED vars
    BY <1>5 DEF Notify
  <2>3. handler[c] \notin {"none", "backlog"}
    BY <2>1 DEF Link, HandlesMatch
  <2> QED
    BY <2>1, <2>2, <2>3, TaskKeepsLink DEF vars
<1>6. ASSUME NEW c \in Conns, Reply(c) \/ Refuse(c) PROVE Link'
  BY <1>6, ApartKeepsLink
  DEF Reply, Refuse, Apart, dbVars, Work, ApplyDone, ReplyDone, ApplyFails, ApplyRefuses,
      HandlerStep, Goto
<1>7. ASSUME NEW c \in Conns, Release(c) PROVE Link'
  <2>1. PICK r \in Resources :
          /\ Drop(c, r)
          /\ IF r = "db" /\ task[c] # "panicked" THEN D!CloseTask(c) ELSE UNCHANGED dbVars
    BY <1>7 DEF Release
  <2>2. /\ holds' = [holds EXCEPT ![c] = @ \ {r}]
        /\ handler[c] \notin {"none", "backlog"}
        /\ UNCHANGED <<handler, phase>>
    BY <2>1 DEF Drop, Over
  <2>3. CASE r = "db" /\ task[c] # "panicked"
    <3>1. task' = [task EXCEPT ![c] = "closed"] /\ guard' = guard
      BY <2>1, <2>3 DEF D!CloseTask
    <3> QED
      BY <2>2, <2>3, <3>1 DEF Link, HandlesMatch, GuardHeld, D!TaskStates
  <2>4. CASE ~(r = "db" /\ task[c] # "panicked")
    <3>1. UNCHANGED <<task, guard>>
      BY <2>1, <2>4 DEF dbVars
    <3> QED
      BY <2>2, <2>4, <3>1 DEF Link, HandlesMatch, GuardHeld
  <2> QED
    BY <2>3, <2>4
<1>8. ASSUME NEW c \in Conns, Apart, ClientStep(c) \/ HandlerApart(c) PROVE Link'
  <2>1. CASE ClientStep(c)
    BY <1>8, <2>1, ApartKeepsLink DEF Apart, dbVars, ClientStep, Connect, Stall, Disconnect, Goto
  <2>2. CASE HandlerApart(c)
    BY <1>8, <2>2, ApartKeepsLink
    DEF Apart, dbVars, HandlerApart, ReadFails, ReadEof, ReceiveMessage, SubscribedFails,
        ReadPanics, SubscribedEof, ObserveShutdown, HandlerStep, Goto
  <2> QED
    BY <1>8, <2>1, <2>2
<1>9. ASSUME Apart, ListenerApart \/ Shutdown \/ RunStep PROVE Link'
  BY <1>9, ApartKeepsLink
  DEF Apart, dbVars, ListenerApart, Acquire, AcceptFails, Retry, GiveUp, Shutdown, EndListener,
      RunStep, DropNotifyShutdown, DropShutdownCompleteTx, Drained
<1>10. CASE DropListener
  BY <1>10 DEF DropListener, D!ReleaseGuard, vars, Link, HandlesMatch, GuardHeld
<1>11. CASE Background
  <2>1. UNCHANGED vars /\ UNCHANGED task
    BY <1>11 DEF Background, D!PurgerStep, D!CheckShutdown, D!PurgeShutDown, D!PurgeExpiredKeys,
                 D!WakeByTimer, D!WakeByNotify, D!PurgerPanics, D!NotifyShutdown, D!Tick
  <2>2. phase # "returned" => UNCHANGED guard
    BY <1>11 DEF Background, D!PurgerStep, D!CheckShutdown, D!PurgeShutDown, D!PurgeExpiredKeys,
                 D!WakeByTimer, D!WakeByNotify, D!PurgerPanics, D!NotifyShutdown, D!Tick,
                 Link, GuardHeld
  <2> QED
    BY <2>1, <2>2 DEF vars, Link, HandlesMatch, GuardHeld
<1>12. CASE UNCHANGED systemVars
  BY <1>12, ApartKeepsLink DEF systemVars, vars, dbVars
<1> QED
  BY <1>1, <1>2, <1>3, <1>4, <1>5, <1>6, <1>7, <1>8, <1>9, <1>10, <1>11, <1>12 DEF SystemNext

\* Every reachable state of the system has both.
THEOREM SystemInvariance == SystemSafeSpec => [](IInv /\ Link)
<1>1. SystemInit => IInv /\ Link
  <2>1. SystemInit => Link
    BY DEF SystemInit, Init, D!Init, Link, HandlesMatch, GuardHeld, D!TaskStates
  <2> QED
    BY <2>1, InitIInv DEF SystemInit
<1>2. IInv /\ Link /\ [SystemNext]_systemVars => (IInv /\ Link)'
  BY StepServes, StepIInv, StepLink
<1> QED
  BY <1>1, <1>2, PTL DEF SystemSafeSpec

-------------------------------------------------------------------------------
(* System implements Db.                                                   *)

\* Every step of the system is a step of Db or leaves its state alone.  The one
\* that needs an argument is the drop of the DbDropGuard, for which server::run
\* asks nothing: its order of drops is what leaves no handler with a handle.
LEMMA StepStores == IInv /\ Link /\ [SystemNext]_systemVars => [D!Next]_D!vars
<1> SUFFICES ASSUME IInv, Link, [SystemNext]_systemVars PROVE [D!Next]_D!vars
  OBVIOUS
<1>0. UNCHANGED dbVars => UNCHANGED D!vars
  BY DEF dbVars, D!vars
<1>1. ASSUME NEW c \in Conns, Open(c) PROVE D!Next
  BY <1>1 DEF Open, D!Next, D!TaskStep
<1>2. ASSUME NEW c \in Conns, Execute(c) PROVE [D!Next]_D!vars
  BY <1>0, <1>2 DEF Execute, D!Next, D!TaskStep
<1>3. ASSUME NEW c \in Conns, Panic(c) \/ Notify(c) PROVE D!Next
  BY <1>3 DEF Panic, Notify, D!Next, D!TaskStep
<1>4. ASSUME NEW c \in Conns, Release(c) PROVE [D!Next]_D!vars
  BY <1>0, <1>4 DEF Release, D!Next, D!TaskStep
<1>5. ASSUME NEW c \in Conns, Read(c) \/ Reply(c) \/ Refuse(c) PROVE UNCHANGED D!vars
  BY <1>0, <1>5 DEF Read, Reply, Refuse, Apart, dbVars
<1>6. CASE Apart \/ UNCHANGED systemVars
  BY <1>0, <1>6 DEF Apart, systemVars, dbVars
<1>7. CASE DropListener
  <2>1. \A c \in Conns : "db" \notin holds[c]
    BY <1>7 DEF DropListener, IInv, DbOutlivesHandlers
  <2>2. \A c \in Conns : task[c] \in {"closed", "panicked"}
    BY <2>1 DEF Link, HandlesMatch, D!TaskStates
  <2> QED
    BY <1>7, <2>2 DEF DropListener, D!DropGuard, D!Next
<1>8. CASE Background
  BY <1>8 DEF Background, D!Next
<1> QED
  BY <1>1, <1>2, <1>3, <1>4, <1>5, <1>6, <1>7, <1>8 DEF SystemNext

\* The database inside the server behaves as module Db says: what Db asks of its
\* surroundings, the server provides.
THEOREM ImplementsDb == SystemSafeSpec => RefinesDb
<1>1. SystemInit => D!Init
  BY DEF SystemInit
<1> QED
  BY <1>1, SystemInvariance, StepStores, PTL DEF SystemSafeSpec, RefinesDb, D!SafeSpec

===============================================================================
