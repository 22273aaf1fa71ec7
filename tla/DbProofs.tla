------------------------------- MODULE DbProofs -------------------------------
(***************************************************************************)
(* Theorems about Db, for all keys, values, handlers, durations and clocks.*)
(***************************************************************************)
EXTENDS Db, TLAPS

\* The inductive invariant.  NoLostWakeup needs ShutdownSignalled where the
\* task goes back to waiting with the flag set, and IndexMatchesEntries is what
\* makes a purge exact.
IInv ==
  /\ TypeOK
  /\ IndexMatchesEntries
  /\ NoLostWakeup
  /\ ShutdownSignalled

\* The initial state satisfies it.
LEMMA InitIInv == Init => IInv
<1> SUFFICES ASSUME Init PROVE IInv
  OBVIOUS
<1>1. TypeOK
  <2>1. 0 \in Instants
    BY DbAssumption DEF Instants
  <2>2. entries \in [Keys -> Entry \cup {None}] /\ task \in [Tasks -> TaskStates]
    BY DEF Init, TaskStates
  <2> QED
    BY <2>1, <2>2 DEF Init, TypeOK, PurgerStates, GuardStates
<1>2. IndexMatchesEntries
  BY DEF Init, IndexMatchesEntries
<1>3. NoLostWakeup /\ ShutdownSignalled
  BY DEF Init, NoLostWakeup, ShutdownSignalled
<1> QED
  BY <1>1, <1>2, <1>3 DEF IInv

-------------------------------------------------------------------------------
(* What one SET does to the map and to the index.                          *)

\* An insertion keeps the types of both structures.
LEMMA InsertTypes ==
  ASSUME TypeOK, NEW k \in Keys, NEW v \in Values,
         NEW deadline \in Instants \cup {None}, Insert(k, v, deadline)
  PROVE  /\ entries' \in [Keys -> Entry \cup {None}]
         /\ expirations' \subseteq Instants \X Keys
<1>1. [data |-> v, expires_at |-> deadline] \in Entry
  BY DEF Entry
<1>2. entries' \in [Keys -> Entry \cup {None}]
  BY <1>1 DEF Insert, TypeOK
<1>3. expirations' \subseteq Instants \X Keys
  BY DEF Insert, TypeOK
<1> QED
  BY <1>2, <1>3

\* An insertion keeps the index exact, whatever deadline was there before.
LEMMA InsertIndex ==
  ASSUME TypeOK, IndexMatchesEntries, NEW k \in Keys, NEW v \in Values,
         NEW deadline \in Instants \cup {None}, Insert(k, v, deadline)
  PROVE  IndexMatchesEntries'
<1> SUFFICES ASSUME NEW j \in Keys, NEW w \in Instants
             PROVE  <<w, j>> \in expirations'
                      <=> entries'[j] # None /\ entries'[j].expires_at = w
  BY DEF IndexMatchesEntries
<1>0. <<w, j>> \in expirations <=> entries[j] # None /\ entries[j].expires_at = w
  BY DEF IndexMatchesEntries
<1>1. CASE j = k
  <2>1. entries'[j] = [data |-> v, expires_at |-> deadline]
    BY <1>1 DEF Insert, TypeOK
  <2>2. [data |-> v, expires_at |-> deadline] \in Entry
    BY DEF Entry
  <2>3. entries'[j] # None /\ entries'[j].expires_at = deadline
    BY <2>1, <2>2, DbAssumption
  <2>4. <<w, j>> \in expirations' <=> deadline = w
    <3>1. CASE entries[k] = None
      BY <1>0, <1>1, <3>1, DbAssumption DEF Insert
    <3>2. CASE entries[k] # None
      BY <1>0, <1>1, <3>2, DbAssumption DEF Insert
    <3> QED
      BY <3>1, <3>2
  <2> QED
    BY <2>3, <2>4
<1>2. CASE j # k
  <2>1. entries'[j] = entries[j]
    BY <1>2 DEF Insert, TypeOK
  <2>2. <<w, j>> \in expirations' <=> <<w, j>> \in expirations
    BY <1>2 DEF Insert
  <2> QED
    BY <1>0, <2>1, <2>2
<1> QED
  BY <1>1, <1>2

\* A purge keeps the index exact: the keys it removes lose their only pair.
LEMMA PurgeIndex ==
  ASSUME TypeOK, IndexMatchesEntries, PurgeExpiredKeys
  PROVE  IndexMatchesEntries'
<1> SUFFICES ASSUME NEW k \in Keys, NEW w \in Instants
             PROVE  <<w, k>> \in expirations'
                      <=> entries'[k] # None /\ entries'[k].expires_at = w
  BY DEF IndexMatchesEntries
<1>0. <<w, k>> \in expirations <=> entries[k] # None /\ entries[k].expires_at = w
  BY DEF IndexMatchesEntries
<1>1. CASE \E p \in Expired : p[2] = k
  <2>1. PICK u \in Instants : <<u, k>> \in Expired
    BY <1>1 DEF Expired, TypeOK
  <2>2. entries'[k] = None
    BY <1>1 DEF PurgeExpiredKeys
  <2>3. entries[k] # None /\ entries[k].expires_at = u
    BY <2>1 DEF IndexMatchesEntries, Expired
  <2>4. <<w, k>> \notin expirations'
    BY <1>0, <2>1, <2>3 DEF PurgeExpiredKeys
  <2> QED
    BY <2>2, <2>4
<1>2. CASE ~ \E p \in Expired : p[2] = k
  <2>1. entries'[k] = entries[k]
    BY <1>2 DEF PurgeExpiredKeys
  <2>2. <<w, k>> \notin Expired
    BY <1>2
  <2> QED
    BY <1>0, <2>1, <2>2 DEF PurgeExpiredKeys
<1> QED
  BY <1>1, <1>2
-------------------------------------------------------------------------------
(* One step, one conjunct at a time.                                       *)

\* A step keeps the types.
LEMMA StepTypes == TypeOK /\ [Next]_vars => TypeOK'
<1> SUFFICES ASSUME TypeOK, [Next]_vars PROVE TypeOK'
  OBVIOUS
<1> USE DEF TypeOK, PurgerStates, TaskStates, GuardStates
<1>1. ASSUME NEW t \in Tasks, NEW k \in Keys, Get(t, k) PROVE TypeOK'
  BY <1>1 DEF Get, Entry
<1>2. ASSUME NEW t \in Tasks, NEW k \in Keys, NEW v \in Values, Set(t, k, v)
      PROVE TypeOK'
  <2>1. Insert(k, v, None)
    BY <1>2 DEF Set
  <2>2. entries' \in [Keys -> Entry \cup {None}] /\ expirations' \subseteq Instants \X Keys
    BY <2>1, InsertTypes
  <2> QED
    BY <1>2, <2>2 DEF Set
<1>3. ASSUME NEW t \in Tasks, NEW k \in Keys, NEW v \in Values, NEW d \in Durations,
             SetExpires(t, k, v, d)
      PROVE TypeOK'
  <2>1. now + d \in Instants
    BY <1>3, DbAssumption DEF SetExpires, Instants
  <2>2. Insert(k, v, now + d)
    BY <1>3 DEF SetExpires
  <2>3. entries' \in [Keys -> Entry \cup {None}] /\ expirations' \subseteq Instants \X Keys
    BY <2>1, <2>2, InsertTypes
  <2> QED
    BY <1>3, <2>3 DEF SetExpires
<1>4. ASSUME NEW t \in Tasks, NEW d \in Durations, SetOverflow(t, d) PROVE TypeOK'
  BY <1>4 DEF SetOverflow
<1>5. ASSUME NEW t \in Tasks,
             OpenTask(t) \/ LockPanics(t) \/ NotifyPurger(t) \/ CloseTask(t)
      PROVE  TypeOK'
  BY <1>5 DEF OpenTask, LockPanics, NotifyPurger, CloseTask
<1>6. CASE CheckShutdown \/ PurgeShutDown \/ WakeByTimer \/ WakeByNotify \/ PurgerPanics
  BY <1>6 DEF CheckShutdown, PurgeShutDown, WakeByTimer, WakeByNotify, PurgerPanics
<1>7. CASE PurgeExpiredKeys
  <2>1. entries' \in [Keys -> Entry \cup {None}]
    BY <1>7 DEF PurgeExpiredKeys
  <2>2. expirations' \subseteq Instants \X Keys
    BY <1>7 DEF PurgeExpiredKeys
  <2>3. wake_at' \in Instants /\ purger' \in PurgerStates
    BY <1>7, <2>2 DEF PurgeExpiredKeys, IsFirst
  <2> QED
    BY <1>7, <2>1, <2>2, <2>3 DEF PurgeExpiredKeys
<1>8. CASE DropGuard \/ NotifyShutdown
  BY <1>8 DEF DropGuard, ReleaseGuard, NotifyShutdown
<1>9. CASE Tick
  <2>1. now' \in Instants
    BY <1>9, DbAssumption DEF Tick, Instants
  <2> QED
    BY <1>9, <2>1 DEF Tick
<1>10. CASE UNCHANGED vars
  BY <1>10 DEF vars
<1> QED
  BY <1>1, <1>2, <1>3, <1>4, <1>5, <1>6, <1>7, <1>8, <1>9, <1>10
  DEF Next, TaskStep, PurgerStep

\* A step keeps the index exact: only SET and the purge touch it.
LEMMA StepIndex == TypeOK /\ IndexMatchesEntries /\ [Next]_vars => IndexMatchesEntries'
<1> SUFFICES ASSUME TypeOK, IndexMatchesEntries, [Next]_vars PROVE IndexMatchesEntries'
  OBVIOUS
<1>1. ASSUME NEW t \in Tasks, NEW k \in Keys, NEW v \in Values, Set(t, k, v)
      PROVE IndexMatchesEntries'
  BY <1>1, InsertIndex DEF Set
<1>2. ASSUME NEW t \in Tasks, NEW k \in Keys, NEW v \in Values, NEW d \in Durations,
             SetExpires(t, k, v, d)
      PROVE IndexMatchesEntries'
  <2>1. now + d \in Instants
    BY <1>2, DbAssumption DEF SetExpires, Instants, TypeOK
  <2> QED
    BY <1>2, <2>1, InsertIndex DEF SetExpires
<1>3. CASE PurgeExpiredKeys
  BY <1>3, PurgeIndex
<1>4. CASE UNCHANGED <<entries, expirations>>
  BY <1>4 DEF IndexMatchesEntries
<1>5. ASSUME NEW t \in Tasks,
             \/ \E k \in Keys : Get(t, k)
             \/ \E d \in Durations : SetOverflow(t, d)
             \/ OpenTask(t) \/ LockPanics(t) \/ NotifyPurger(t) \/ CloseTask(t)
      PROVE UNCHANGED <<entries, expirations>>
  BY <1>5 DEF Get, SetOverflow, OpenTask, LockPanics, NotifyPurger, CloseTask
<1>6. CASE \/ CheckShutdown \/ PurgeShutDown \/ WakeByTimer \/ WakeByNotify
           \/ PurgerPanics \/ DropGuard \/ NotifyShutdown \/ Tick \/ UNCHANGED vars
  <2>1. UNCHANGED <<entries, expirations>>
    BY <1>6 DEF CheckShutdown, PurgeShutDown, WakeByTimer, WakeByNotify, PurgerPanics,
                DropGuard, ReleaseGuard, NotifyShutdown, Tick, vars
  <2> QED
    BY <1>4, <2>1
<1> QED
  BY <1>1, <1>2, <1>3, <1>4, <1>5, <1>6 DEF Next, TaskStep, PurgerStep

\* A step keeps the wake-up protocol: whoever makes the background task wrong to
\* wait leaves a notification behind, and only the task itself takes one.
LEMMA StepWakeup ==
  TypeOK /\ NoLostWakeup /\ ShutdownSignalled /\ [Next]_vars
    => NoLostWakeup' /\ ShutdownSignalled'
<1> SUFFICES ASSUME TypeOK, NoLostWakeup, ShutdownSignalled, [Next]_vars
             PROVE  NoLostWakeup' /\ ShutdownSignalled'
  OBVIOUS
<1> DEFINE Unpended == \A t \in Tasks : task[t] = "notify" => task'[t] = "notify"
<1> USE DEF NoLostWakeup, ShutdownSignalled, WakeupPending
\* A handler's step that leaves the protocol's variables alone.
<1>0. ASSUME Unpended,
             UNCHANGED <<shutdown, permit, purger, wake_at, guard, expirations>>
      PROVE  NoLostWakeup' /\ ShutdownSignalled'
  BY <1>0
<1>1. ASSUME NEW t \in Tasks, NEW k \in Keys, Get(t, k)
      PROVE NoLostWakeup' /\ ShutdownSignalled'
  BY <1>0, <1>1 DEF Get
<1>2. ASSUME NEW t \in Tasks, NEW k \in Keys, NEW v \in Values, Set(t, k, v)
      PROVE NoLostWakeup' /\ ShutdownSignalled'
  BY <1>2 DEF Set, Insert
<1>3. ASSUME NEW t \in Tasks, NEW k \in Keys, NEW v \in Values, NEW d \in Durations,
             SetExpires(t, k, v, d)
      PROVE NoLostWakeup' /\ ShutdownSignalled'
  <2> DEFINE when == now + d
  <2>1. expirations' \subseteq expirations \cup {<<when, k>>}
    BY <1>3 DEF SetExpires, Insert
  <2>2. Unpended /\ UNCHANGED <<shutdown, permit, purger, wake_at, guard>>
    BY <1>3 DEF SetExpires, Locks, TypeOK
  <2>3. CASE NextToExpire(when)
    <3>1. task'[t] = "notify"
      BY <1>3, <2>3 DEF SetExpires, TypeOK
    <3> QED
      BY <2>2, <3>1
  <2>4. CASE ~NextToExpire(when)
    <3>1. PICK p \in expirations : p[1] <= when
      <4>1. PICK p \in expirations : ~(p[1] > when)
        BY <2>4 DEF NextToExpire
      <4>2. p[1] \in Nat /\ when \in Nat
        BY <4>1, DbAssumption DEF TypeOK, Instants
      <4> QED
        BY <4>1, <4>2
    <3>2. wake_at \in Nat /\ p[1] \in Nat /\ when \in Nat
      BY <3>1, DbAssumption DEF TypeOK, Instants
    <3>3. wake_at <= p[1] => wake_at <= when
      BY <3>1, <3>2
    <3> QED
      BY <2>1, <2>2, <3>1, <3>3
  <2> QED
    BY <2>3, <2>4
<1>4. ASSUME NEW t \in Tasks,
             \/ \E d \in Durations : SetOverflow(t, d)
             \/ OpenTask(t) \/ LockPanics(t) \/ CloseTask(t)
      PROVE NoLostWakeup' /\ ShutdownSignalled'
  <2>1. Unpended
    BY <1>4 DEF SetOverflow, OpenTask, LockPanics, CloseTask, Locks, TypeOK
  <2> QED
    BY <1>0, <1>4, <2>1 DEF SetOverflow, OpenTask, LockPanics, CloseTask
<1>5. ASSUME NEW t \in Tasks, NotifyPurger(t) PROVE NoLostWakeup' /\ ShutdownSignalled'
  BY <1>5 DEF NotifyPurger
<1>6. CASE CheckShutdown
  BY <1>6 DEF CheckShutdown
<1>7. CASE PurgeShutDown
  BY <1>7 DEF PurgeShutDown
<1>8. CASE PurgeExpiredKeys
  <2>1. CASE expirations' = {} /\ purger' = "idle"
    BY <1>8, <2>1 DEF PurgeExpiredKeys
  <2>2. CASE \E p \in expirations' :
                IsFirst(p, expirations') /\ purger' = "sleep" /\ wake_at' = p[1]
    BY <1>8, <2>2 DEF PurgeExpiredKeys, IsFirst
  <2> QED
    BY <1>8, <2>1, <2>2 DEF PurgeExpiredKeys
<1>9. CASE WakeByTimer \/ WakeByNotify \/ PurgerPanics
  BY <1>9 DEF WakeByTimer, WakeByNotify, PurgerPanics
<1>10. CASE DropGuard
  BY <1>10 DEF DropGuard, ReleaseGuard, TypeOK
<1>11. CASE NotifyShutdown
  BY <1>11 DEF NotifyShutdown
<1>12. CASE Tick
  BY <1>12 DEF Tick
<1>13. CASE UNCHANGED vars
  BY <1>13 DEF vars
<1> QED
  BY <1>1, <1>2, <1>3, <1>4, <1>5, <1>6, <1>7, <1>8, <1>9, <1>10, <1>11, <1>12, <1>13
  DEF Next, TaskStep, PurgerStep

-------------------------------------------------------------------------------
(* The theorems.                                                           *)

\* Every reachable state of Db satisfies the inductive invariant.
THEOREM Invariance == SafeSpec => []IInv
<1>1. IInv /\ [Next]_vars => IInv'
  BY StepTypes, StepIndex, StepWakeup DEF IInv
<1> QED
  BY InitIInv, <1>1, PTL DEF SafeSpec

\* Types: no operation leaves an entry, a deadline or a task in a state the
\* structures of db.rs do not have.
THEOREM TypesCorrect == SafeSpec => []TypeOK
<1>1. IInv => TypeOK
  BY DEF IInv
<1> QED
  BY Invariance, <1>1, PTL

\* The index of deadlines agrees with the entries in every reachable state.
THEOREM IndexCorrect == SafeSpec => []IndexMatchesEntries
<1>1. IInv => IndexMatchesEntries
  BY DEF IInv
<1> QED
  BY Invariance, <1>1, PTL

\* The background task is never left waiting past a deadline or the shutdown.
THEOREM WakeupsCorrect == SafeSpec => []NoLostWakeup
<1>1. IInv => NoLostWakeup
  BY DEF IInv
<1> QED
  BY Invariance, <1>1, PTL

\* The shutdown's notification outlives every return to waiting.
THEOREM ShutdownCorrect == SafeSpec => []ShutdownSignalled
<1>1. IInv => ShutdownSignalled
  BY DEF IInv
<1> QED
  BY Invariance, <1>1, PTL

-------------------------------------------------------------------------------
(* Db implements ExpiringStore, as far as safety goes.                     *)

\* A purge removes keys that are due, and only those.
LEMMA PurgeExpires ==
  ASSUME TypeOK, IndexMatchesEntries, PurgeExpiredKeys
  PROVE  \E gone \in SUBSET Keys : Store!Expire(gone)
<1> DEFINE gone == {k \in Keys : \E p \in Expired : p[2] = k}
<1>1. ASSUME NEW k \in gone PROVE Store!Due(k)
  <2>1. PICK w \in Instants : <<w, k>> \in Expired
    BY DEF Expired, TypeOK
  <2>2. entries[k] # None /\ entries[k].expires_at = w
    BY <2>1 DEF IndexMatchesEntries, Expired
  <2>3. w <= now /\ w # None
    BY <2>1, DbAssumption DEF Expired
  <2> QED
    BY <2>2, <2>3 DEF Store!Due
<1>2. entries' = [k \in Keys |-> IF k \in gone THEN None ELSE entries[k]]
  BY DEF PurgeExpiredKeys
<1>3. ~poisoned /\ ~shutdown
  BY DEF PurgeExpiredKeys
<1>4. UNCHANGED <<now, response, poisoned, shutdown>>
  BY DEF PurgeExpiredKeys
<1> HIDE DEF gone
<1>5. Store!Expire(gone)
  BY <1>1, <1>2, <1>3, <1>4 DEF Store!Expire
<1>6. gone \in SUBSET Keys
  BY DEF gone
<1> QED
  BY <1>5, <1>6

\* Every step of Db is a step of ExpiringStore or leaves its state alone.
LEMMA StepRefines ==
  TypeOK /\ IndexMatchesEntries /\ [Next]_vars => [Store!Next]_Store!storeVars
<1> SUFFICES ASSUME TypeOK, IndexMatchesEntries, [Next]_vars
             PROVE  [Store!Next]_Store!storeVars
  OBVIOUS
<1> USE DEF Store!storeVars
<1>1. ASSUME NEW t \in Tasks, NEW k \in Keys, Get(t, k) PROVE Store!Next
  <2>1. Store!Read(k)
    BY <1>1 DEF Get, Store!Read
  <2> QED
    BY <2>1 DEF Store!Next
<1>2. ASSUME NEW t \in Tasks, NEW k \in Keys, NEW v \in Values, Set(t, k, v)
      PROVE Store!Next
  <2>1. Store!Put(k, v, None)
    BY <1>2 DEF Set, Insert, Store!Put
  <2> QED
    BY <2>1 DEF Store!Next
<1>3. ASSUME NEW t \in Tasks, NEW k \in Keys, NEW v \in Values, NEW d \in Durations,
             SetExpires(t, k, v, d)
      PROVE Store!Next
  <2>1. now + d \in Instants /\ now + d >= now
    BY <1>3, DbAssumption DEF SetExpires, Instants, TypeOK
  <2>2. Store!Put(k, v, now + d)
    BY <1>3, <2>1 DEF SetExpires, Insert, Store!Put
  <2> QED
    BY <2>1, <2>2 DEF Store!Next
<1>4. ASSUME NEW t \in Tasks, NEW d \in Durations, SetOverflow(t, d) PROVE Store!Next
  <2>1. Store!Stop
    BY <1>4 DEF SetOverflow, Store!Stop
  <2> QED
    BY <2>1 DEF Store!Next
<1>5. CASE PurgeExpiredKeys
  BY <1>5, PurgeExpires DEF Store!Next
<1>6. CASE DropGuard
  <2>1. Store!Stop
    BY <1>6 DEF DropGuard, ReleaseGuard, Store!Stop, TypeOK
  <2> QED
    BY <2>1 DEF Store!Next
<1>7. CASE Tick
  <2>1. Store!Advance
    BY <1>7 DEF Tick, Store!Advance
  <2> QED
    BY <2>1 DEF Store!Next
<1>8. ASSUME NEW t \in Tasks, OpenTask(t) \/ LockPanics(t) \/ NotifyPurger(t) \/ CloseTask(t)
      PROVE UNCHANGED <<entries, now, response, poisoned, shutdown>>
  BY <1>8 DEF OpenTask, LockPanics, NotifyPurger, CloseTask
<1>9. CASE \/ CheckShutdown \/ PurgeShutDown \/ WakeByTimer \/ WakeByNotify
           \/ PurgerPanics \/ NotifyShutdown \/ UNCHANGED vars
  BY <1>9 DEF CheckShutdown, PurgeShutDown, WakeByTimer, WakeByNotify, PurgerPanics,
              NotifyShutdown, vars
<1> QED
  BY <1>1, <1>2, <1>3, <1>4, <1>5, <1>6, <1>7, <1>8, <1>9
  DEF Next, TaskStep, PurgerStep

\* Db implements ExpiringStore: no key vanishes before its deadline or under a
\* value set later, none comes back, and GET answers what the map holds.
THEOREM Refinement == SafeSpec => RefinesStoreSafety
<1>1. Init => Store!Init
  BY DEF Init, Store!Init
<1>2. IInv /\ [Next]_vars => [Store!Next]_Store!storeVars
  BY StepRefines DEF IInv
<1> QED
  BY Invariance, <1>1, <1>2, PTL DEF SafeSpec, RefinesStoreSafety, Store!SafeSpec

===============================================================================
