---------------------------------- MODULE Db ----------------------------------
(***************************************************************************)
(* src/db.rs: the key-value half of the state all connections share, and   *)
(* the background task that removes expired keys.                          *)
(*                                                                         *)
(* Every operation of Db locks the std Mutex around State once, so what it *)
(* does under the lock is one action.  What happens outside the lock is an *)
(* action of its own: notify_one() after the guard is dropped, and each    *)
(* await of the background task.  tokio's Notify is the permit it stores:  *)
(* notify_one sets it, a completed notified() takes it.                    *)
(***************************************************************************)
EXTENDS Naturals

CONSTANTS
  Keys,        \* the keys clients use
  Values,      \* the values they store
  Tasks,       \* the connection handlers, which may hold a Db handle
  Durations,   \* the EX/PX arguments of SET, in clock ticks; 0 is legal
  MaxInstant,  \* the last instant the platform's clock can represent
  MaxNow,      \* bound of the model: the clock stops here
  None         \* Rust's Option::None

Instants == 0 .. MaxInstant

Entry == [data : Values, expires_at : Instants \cup {None}]

ASSUME DbAssumption ==
  /\ MaxInstant \in Nat
  /\ MaxNow \in Instants
  /\ Durations \subseteq Nat
  /\ None \notin Instants
  /\ None \notin Entry
  /\ None \notin Values

VARIABLES
  entries,      \* State.entries, as a function: None where the map has no key
  expirations,  \* State.expirations: the set of (Instant, key) pairs
  shutdown,     \* State.shutdown
  poisoned,     \* the Mutex is poisoned: a holder panicked
  permit,       \* Shared.background_task: a notification is stored
  purger,       \* where the background task is
  wake_at,      \* the instant its sleep_until waits for
  task,         \* where each connection handler is; "closed": no Db handle
  guard,        \* where server::run is with its DbDropGuard
  now,          \* Instant::now()
  response      \* what Db::get returned last

vars == <<entries, expirations, shutdown, poisoned, permit, purger, wake_at,
          task, guard, now, response>>

PurgerStates == {"check", "purge", "sleep", "idle", "exited", "panicked"}
TaskStates   == {"idle", "notify", "closed", "panicked"}
GuardStates  == {"held", "notify", "dropped", "panicked"}

TypeOK ==
  /\ entries \in [Keys -> Entry \cup {None}]
  /\ expirations \subseteq Instants \X Keys
  /\ shutdown \in BOOLEAN
  /\ poisoned \in BOOLEAN
  /\ permit \in BOOLEAN
  /\ purger \in PurgerStates
  /\ wake_at \in Instants
  /\ task \in [Tasks -> TaskStates]
  /\ guard \in GuardStates
  /\ now \in Instants
  /\ response \in Values \cup {None}

\* Db::new spawns the background task, which has not run yet.
Init ==
  /\ entries = [k \in Keys |-> None]
  /\ expirations = {}
  /\ shutdown = FALSE
  /\ poisoned = FALSE
  /\ permit = FALSE
  /\ purger = "check"
  /\ wake_at = 0
  /\ task = [t \in Tasks |-> "closed"]
  /\ guard = "held"
  /\ now = 0
  /\ response = None

-------------------------------------------------------------------------------
(* The operations connection handlers call.                                *)

\* A handler gets its Db handle, which DbDropGuard::db clones.
OpenTask(t) ==
  /\ guard = "held"
  /\ task[t] = "closed"
  /\ task' = [task EXCEPT ![t] = "idle"]
  /\ UNCHANGED <<entries, expirations, shutdown, poisoned, permit, purger,
                 wake_at, guard, now, response>>

\* The lock is poisoned or not: lock().unwrap() returns in one case only.
Locks(t) == task[t] = "idle" /\ ~poisoned

\* Db::get.  The deadline of the entry is not looked at.
Get(t, k) ==
  /\ Locks(t)
  /\ response' = IF entries[k] = None THEN None ELSE entries[k].data
  /\ UNCHANGED <<entries, expirations, shutdown, poisoned, permit, purger,
                 wake_at, task, guard, now>>

\* Mutant: the deadline of the replaced entry stays tracked.
InsertForgetsPrev(k, v, deadline) ==
  /\ entries' = [entries EXCEPT ![k] = [data |-> v, expires_at |-> deadline]]
  /\ expirations' = expirations \cup (IF deadline = None THEN {} ELSE {<<deadline, k>>})

\* Mutant: the new deadline is tracked before the replaced one is cleared.
InsertBeforeRemove(k, v, deadline) ==
  LET prev  == IF entries[k] = None THEN {} ELSE {<<entries[k].expires_at, k>>}
      fresh == IF deadline = None THEN {} ELSE {<<deadline, k>>}
  IN  /\ entries' = [entries EXCEPT ![k] = [data |-> v, expires_at |-> deadline]]
      /\ expirations' = (expirations \cup fresh) \ prev

\* Insert the entry, clear the deadline of the one it replaces, then track the
\* new deadline: in that order, for the two deadlines may be equal.
Insert(k, v, deadline) ==
  LET prev  == IF entries[k] = None THEN {} ELSE {<<entries[k].expires_at, k>>}
      fresh == IF deadline = None THEN {} ELSE {<<deadline, k>>}
  IN  /\ entries' = [entries EXCEPT ![k] = [data |-> v, expires_at |-> deadline]]
      /\ expirations' = (expirations \ prev) \cup fresh

\* Db::set without expiry.
Set(t, k, v) ==
  /\ Locks(t)
  /\ Insert(k, v, None)
  /\ UNCHANGED <<shutdown, poisoned, permit, purger, wake_at, task, guard, now,
                 response>>

\* Mutant: the comparison is the wrong way round.
LastToExpire(when) == \A p \in expirations : p[1] < when

\* Mutant: unwrap_or(false) where nothing is tracked.
NextToExpireOfSome(when) == expirations # {} /\ \A p \in expirations : p[1] > when

\* No tracked deadline is as early as this one: next_expiration() is None or
\* later.
NextToExpire(when) == \A p \in expirations : p[1] > when

\* Mutant: the addition is not checked.
SetExpiresUnchecked(t, k, v, duration) ==
  /\ Locks(t)
  /\ Insert(k, v, now + duration)
  /\ task' = [task EXCEPT ![t] = IF NextToExpire(now + duration) THEN "notify" ELSE @]
  /\ UNCHANGED <<shutdown, poisoned, permit, purger, wake_at, guard, now, response>>

\* Db::set with an expiry; whether the background task has to be notified is
\* decided under the lock, on the deadlines tracked before the insertion.
SetExpires(t, k, v, duration) ==
  LET when == now + duration
  IN  /\ Locks(t)
      /\ when <= MaxInstant
      /\ Insert(k, v, when)
      /\ task' = [task EXCEPT ![t] = IF NextToExpire(when) THEN "notify" ELSE @]
      /\ UNCHANGED <<shutdown, poisoned, permit, purger, wake_at, guard, now,
                     response>>

\* Instant::now() + duration panics when the sum cannot be represented: the
\* lock is held, nothing has been inserted.
SetOverflow(t, duration) ==
  /\ Locks(t)
  /\ now + duration > MaxInstant
  /\ poisoned' = TRUE
  /\ task' = [task EXCEPT ![t] = "panicked"]
  /\ UNCHANGED <<entries, expirations, shutdown, permit, purger, wake_at,
                 guard, now, response>>

\* Any operation on a poisoned Mutex: lock().unwrap() panics.
LockPanics(t) ==
  /\ task[t] = "idle"
  /\ poisoned
  /\ task' = [task EXCEPT ![t] = "panicked"]
  /\ UNCHANGED <<entries, expirations, shutdown, poisoned, permit, purger,
                 wake_at, guard, now, response>>

\* The notify_one() of Db::set, after the lock is released.
NotifyPurger(t) ==
  /\ task[t] = "notify"
  /\ permit' = TRUE
  /\ task' = [task EXCEPT ![t] = "idle"]
  /\ UNCHANGED <<entries, expirations, shutdown, poisoned, purger, wake_at,
                 guard, now, response>>

\* The connection ends and its handler drops its Db handle.
CloseTask(t) ==
  /\ task[t] = "idle"
  /\ task' = [task EXCEPT ![t] = "closed"]
  /\ UNCHANGED <<entries, expirations, shutdown, poisoned, permit, purger,
                 wake_at, guard, now, response>>

-------------------------------------------------------------------------------
(* The background task, purge_expired_tasks().                             *)

\* `while !shared.is_shutdown()`.
CheckShutdown ==
  /\ purger = "check"
  /\ ~poisoned
  /\ purger' = IF shutdown THEN "exited" ELSE "purge"
  /\ UNCHANGED <<entries, expirations, shutdown, poisoned, permit, wake_at,
                 task, guard, now, response>>

\* purge_expired_keys() finds the flag set: it answers None, and the task waits
\* to be notified.
PurgeShutDown ==
  /\ purger = "purge"
  /\ ~poisoned
  /\ shutdown
  /\ purger' = "idle"
  /\ UNCHANGED <<entries, expirations, shutdown, poisoned, permit, wake_at,
                 task, guard, now, response>>

\* The pairs the loop of purge_expired_keys() pops: it stops at the first one
\* with when > now, and the set is sorted.
Expired == {p \in expirations : p[1] <= now}

\* p is the first pair of the sorted set S, up to ties in time.
IsFirst(p, S) == p \in S /\ \A q \in S : p[1] <= q[1]

\* purge_expired_keys(), and the wait its answer leads to.
PurgeExpiredKeys ==
  /\ purger = "purge"
  /\ ~poisoned
  /\ ~shutdown
  /\ entries' = [k \in Keys |-> IF \E p \in Expired : p[2] = k
                                THEN None ELSE entries[k]]
  /\ expirations' = expirations \ Expired
  /\ \/ /\ expirations' = {}
        /\ purger' = "idle"
        /\ UNCHANGED wake_at
     \/ \E p \in expirations' :
          /\ IsFirst(p, expirations')
          /\ purger' = "sleep"
          /\ wake_at' = p[1]
  /\ UNCHANGED <<shutdown, poisoned, permit, task, guard, now, response>>

\* sleep_until(when) completes; a stored notification stays stored.
WakeByTimer ==
  /\ purger = "sleep"
  /\ now >= wake_at
  /\ purger' = "check"
  /\ UNCHANGED <<entries, expirations, shutdown, poisoned, permit, wake_at,
                 task, guard, now, response>>

\* notified() completes, in the select! or alone.
WakeByNotify ==
  /\ purger \in {"sleep", "idle"}
  /\ permit
  /\ permit' = FALSE
  /\ purger' = "check"
  /\ UNCHANGED <<entries, expirations, shutdown, poisoned, wake_at, task,
                 guard, now, response>>

\* The task's own lock().unwrap() panics, and nobody restarts it.
PurgerPanics ==
  /\ purger \in {"check", "purge"}
  /\ poisoned
  /\ purger' = "panicked"
  /\ UNCHANGED <<entries, expirations, shutdown, poisoned, permit, wake_at,
                 task, guard, now, response>>

-------------------------------------------------------------------------------
(* DbDropGuard.  server::run drops it after every handler, and with it      *)
(* every other Db handle, is gone.                                          *)

\* shutdown_purge_task(), under the lock; it panics on a poisoned Mutex.
ReleaseGuard ==
  /\ guard = "held"
  /\ shutdown' = ~poisoned
  /\ guard' = IF poisoned THEN "panicked" ELSE "notify"
  /\ UNCHANGED <<entries, expirations, poisoned, permit, purger, wake_at, task,
                 now, response>>

\* When it is dropped; module System shows that this is so.
DropGuard ==
  /\ \A t \in Tasks : task[t] \in {"closed", "panicked"}
  /\ ReleaseGuard

\* Mutant: notify_waiters(), which stores no permit.
NotifyWaitersShutdown ==
  /\ guard = "notify"
  /\ guard' = "dropped"
  /\ permit' = (permit \/ purger \in {"sleep", "idle"})
  /\ UNCHANGED <<entries, expirations, shutdown, poisoned, purger, wake_at,
                 task, now, response>>

\* shutdown_purge_task(), the notify_one() after the lock is released.
NotifyShutdown ==
  /\ guard = "notify"
  /\ guard' = "dropped"
  /\ permit' = TRUE
  /\ UNCHANGED <<entries, expirations, shutdown, poisoned, purger, wake_at,
                 task, now, response>>

\* Time passes, up to the bound of the model.
Tick ==
  /\ now < MaxNow
  /\ now' = now + 1
  /\ UNCHANGED <<entries, expirations, shutdown, poisoned, permit, purger,
                 wake_at, task, guard, response>>

-------------------------------------------------------------------------------

TaskStep(t) ==
  \/ OpenTask(t)
  \/ \E k \in Keys : Get(t, k)
  \/ \E k \in Keys, v \in Values : Set(t, k, v)
  \/ \E k \in Keys, v \in Values, d \in Durations : SetExpires(t, k, v, d)
  \/ \E d \in Durations : SetOverflow(t, d)
  \/ LockPanics(t)
  \/ NotifyPurger(t)
  \/ CloseTask(t)

PurgerStep ==
  \/ CheckShutdown
  \/ PurgeShutDown
  \/ PurgeExpiredKeys
  \/ WakeByTimer
  \/ WakeByNotify
  \/ PurgerPanics

Next ==
  \/ \E t \in Tasks : TaskStep(t)
  \/ PurgerStep
  \/ DropGuard
  \/ NotifyShutdown
  \/ Tick

\* The runtime polls a task that was woken; a task that started a SET gets to
\* its notify_one(), as there is no await between the two; time passes.
\* Nothing makes a client send a command or close its connection.
Fairness ==
  /\ WF_vars(PurgerStep)
  /\ \A t \in Tasks : WF_vars(NotifyPurger(t))
  /\ WF_vars(NotifyShutdown)
  /\ WF_vars(Tick)

SafeSpec == Init /\ [][Next]_vars

Spec == SafeSpec /\ Fairness

-------------------------------------------------------------------------------
(* Safety.                                                                 *)

\* db.rs:177-192: the index of deadlines and the entries agree both ways, so a
\* SET leaks no pair and a purge removes no value but the one that expired.
IndexMatchesEntries ==
  \A k \in Keys, w \in Instants :
    <<w, k>> \in expirations <=> entries[k] # None /\ entries[k].expires_at = w

\* A notification is stored or about to be sent.
WakeupPending ==
  \/ permit
  \/ guard = "notify"
  \/ \E t \in Tasks : task[t] = "notify"

\* No lost wake-up (db.rs:157-203, 258-265, 333-345): when the background task
\* waits and no notification is on its way, it is right to wait: the shutdown
\* flag is not set, and its timer fires no later than any tracked deadline.
NoLostWakeup ==
  purger \in {"sleep", "idle"} /\ ~WakeupPending =>
    /\ ~shutdown
    /\ \A p \in expirations : purger = "sleep" /\ wake_at <= p[1]

\* db.rs:275-279: once the flag is set, the notification that goes with it has
\* not been taken while the task can still go back to waiting.
ShutdownSignalled ==
  shutdown /\ purger \in {"purge", "sleep", "idle"} => permit \/ guard = "notify"

-------------------------------------------------------------------------------
(* Refinement and liveness.                                                *)

Store == INSTANCE ExpiringStore
           WITH store   <- entries,
                clock   <- now,
                answer  <- response,
                running <- ~poisoned /\ ~shutdown

\* Every behaviour of Db is one of ExpiringStore: no key vanishes before its
\* deadline or with a value it was not set for, and GET reads the map.
RefinesStoreSafety == Store!SafeSpec

\* The same with its liveness: as long as the server runs, a key whose deadline
\* has come vanishes.
RefinesStore == Store!Spec

\* Once the drop guard has set the flag, the background task exits.
PurgerExits == shutdown ~> purger = "exited"

\* set.rs:107-109: an error in the option of a SET terminates its connection,
\* "Other connections will continue to operate normally".
OnlyFaultyTaskPanics ==
  [][\A t \in Tasks : task[t] # "panicked" /\ task'[t] = "panicked" => ~poisoned]_vars
===============================================================================
