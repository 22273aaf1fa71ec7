-------------------------------- MODULE System --------------------------------
(***************************************************************************)
(* The server with its database: module Server, in which a connection's    *)
(* handler holds a Db handle and its commands are opaque, and module Db,   *)
(* in which a handler's task opens, uses and closes a handle, run as one   *)
(* system.  A step of Server that touches the database is that step and    *)
(* one of Db at once; the purge task runs by itself.                       *)
(***************************************************************************)
EXTENDS Server

CONSTANTS
  Keys, Values, Durations, MaxInstant, MaxNow, None  \* see module Db

VARIABLES
  due,  \* the handlers that have read a command and not yet carried it out
  \* The variables of module Db.
  entries, expirations, shutdown, poisoned, permit, purger, wake_at, task,
  guard, now, response

D == INSTANCE Db WITH Tasks <- Conns

dbVars == <<entries, expirations, shutdown, poisoned, permit, purger, wake_at, task,
            guard, now, response>>

systemVars == <<vars, due, dbVars>>

ASSUME SystemAssumption == D!DbAssumption

SystemInit == Init /\ due = {} /\ D!Init

-------------------------------------------------------------------------------
(* Steps of a connection's handler.                                        *)

\* Listener::run clones the DbDropGuard's handle into the new handler.
Open(c) ==
  /\ Accept(c)
  /\ D!OpenTask(c)
  /\ UNCHANGED due

\* A command is read, in either mode: what it does to the database comes next.
Read(c) ==
  /\ ReadCommand(c) \/ ReadSubscribe(c) \/ ReadSubscribed(c)
  /\ due' = due \cup {c}
  /\ UNCHANGED dbVars

\* A command is carried out: GET and SET on the keys; the others leave the keys
\* alone, whether they lock the state (PUBLISH, SUBSCRIBE) or not.
Execute(c) ==
  /\ c \in due
  /\ due' = due \ {c}
  /\ \/ /\ handler[c] = "applying"
        /\ \E k \in Keys :
             \/ D!Get(c, k)
             \/ \E v \in Values : D!Set(c, k, v)
             \/ \E v \in Values, d \in Durations : D!SetExpires(c, k, v, d)
     \/ UNCHANGED dbVars
  /\ UNCHANGED vars

\* It panics: a deadline out of range, or a Mutex some other panic poisoned.
Panic(c) ==
  /\ c \in due
  /\ due' = due \ {c}
  /\ \/ handler[c] = "applying" /\ \E d \in Durations : D!SetOverflow(c, d)
     \/ D!LockPanics(c)
  /\ ApplyPanics(c)

\* The notify_one() of a SET.
Notify(c) ==
  /\ D!NotifyPurger(c)
  /\ UNCHANGED <<vars, due>>

\* The steps of Server the database takes no part in, each with Apart.
Apart == UNCHANGED <<due, dbVars>>

\* What was to be done to the database is done.
CarriedOut(c) == c \notin due /\ task[c] # "notify"

\* The response is written, or cannot be.
Reply(c) ==
  /\ CarriedOut(c)
  /\ Work(c)
  /\ Apart

\* The command was an UNSUBSCRIBE, and has no response.
Refuse(c) ==
  /\ CarriedOut(c)
  /\ ApplyRefuses(c)
  /\ Apart

\* The handler drops what it owns; with "db" the task's handle, which a panic has
\* already closed as far as module Db goes.
Release(c) ==
  /\ \E r \in Resources :
       /\ Drop(c, r)
       /\ IF r = "db" /\ task[c] # "panicked" THEN D!CloseTask(c) ELSE UNCHANGED dbVars
  /\ UNCHANGED due

ListenerApart == Acquire \/ AcceptFails \/ Retry \/ GiveUp

HandlerApart(c) ==
  \/ ReadFails(c)
  \/ ReadEof(c)
  \/ ReceiveMessage(c)
  \/ SubscribedFails(c)
  \/ ReadPanics(c)
  \/ SubscribedEof(c)
  \/ ObserveShutdown(c)

-------------------------------------------------------------------------------
(* The end of server::run and the purge task.                              *)

\* server::run has returned, and its Listener is dropped: the DbDropGuard with it,
\* whoever still has a handle.
DropListener ==
  /\ phase = "returned"
  /\ D!ReleaseGuard
  /\ UNCHANGED <<vars, due>>

Background ==
  /\ D!PurgerStep \/ D!NotifyShutdown \/ D!Tick
  /\ UNCHANGED <<vars, due>>

SystemNext ==
  \/ \E c \in Conns :
       \/ Open(c) \/ Read(c) \/ Execute(c) \/ Panic(c) \/ Notify(c)
       \/ Reply(c) \/ Refuse(c) \/ Release(c)
  \/ /\ Apart
     /\ \/ \E c \in Conns : ClientStep(c) \/ HandlerApart(c)
        \/ ListenerApart
        \/ Shutdown
        \/ RunStep
  \/ DropListener
  \/ Background

\* The fairness of both modules.  The handler that has read a command carries it
\* out, one way or the other; server::run drops what it owns when it returns.
SystemFairness ==
  /\ WF_systemVars((ListenerApart /\ Apart) \/ \E c \in Conns : Open(c))
  /\ WF_systemVars(RunStep /\ Apart)
  /\ WF_systemVars(DropListener)
  /\ \A c \in Conns :
       /\ SF_systemVars(ObserveShutdown(c) /\ Apart)
       /\ SF_systemVars(SubscribedEof(c) /\ Apart)
       /\ WF_systemVars(ReadEof(c) /\ Apart)
       /\ WF_systemVars(Execute(c) \/ Panic(c))
       /\ WF_systemVars(Notify(c))
       /\ WF_systemVars(Reply(c))
       /\ WF_systemVars(Release(c))
  /\ WF_systemVars(D!PurgerStep /\ UNCHANGED <<vars, due>>)
  /\ WF_systemVars(D!NotifyShutdown /\ UNCHANGED <<vars, due>>)

SystemSafeSpec == SystemInit /\ [][SystemNext]_systemVars

SystemSpec == SystemSafeSpec /\ SystemFairness

-------------------------------------------------------------------------------
(* Properties.                                                             *)

\* The database inside the server behaves as module Db says: no handler uses a
\* handle it does not have, and the DbDropGuard, which nothing but the order of
\* drops in server::run and Handler holds back, is dropped when no handler has one
\* (server.rs:78-80, 161-181, db.rs:254-267).
RefinesDb == D!SafeSpec

\* When the server stops, its purge task does too (db.rs:20-31, server.rs:176-181):
\* held up only by a response a peer does not read, and not if a panic under the
\* lock has left the state unusable.
PurgeTaskStops ==
  phase # "select" ~>
    \/ purger = "exited"
    \/ poisoned
    \/ \E c \in Conns : peer[c] = "stalled" /\ handler[c] \in {"applying", "replying"}
===============================================================================
