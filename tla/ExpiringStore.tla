---------------------------- MODULE ExpiringStore ----------------------------
(***************************************************************************)
(* What the key space of mini-redis promises, whatever the data structures *)
(* behind it: a map from keys to values some of which carry a deadline.    *)
(*                                                                         *)
(*   - a key keeps the value and the deadline of its last SET;             *)
(*   - only a key whose deadline has come may vanish;                      *)
(*   - a GET answers what the map holds at one instant;                    *)
(*   - while the store is running, a key whose deadline has come does      *)
(*     vanish.                                                             *)
(*                                                                         *)
(* A GET may still answer a value whose deadline has passed: the code      *)
(* expires keys from a background task.  Module Db implements this one.    *)
(***************************************************************************)
EXTENDS Naturals

CONSTANTS
  Keys,       \* the keys clients use
  Values,     \* the values they store
  Instants,   \* the instants a deadline may name
  None        \* Rust's Option::None: no entry, or no deadline

VARIABLES
  store,      \* store[k]: the entry of k, or None
  clock,      \* the current instant
  answer,     \* what the last GET returned
  running     \* expiry is promised: neither shut down nor broken

storeVars == <<store, clock, answer, running>>

\* The deadline of k has come.
Due(k) ==
  /\ store[k] # None
  /\ store[k].expires_at # None
  /\ store[k].expires_at <= clock

Init ==
  /\ store = [k \in Keys |-> None]
  /\ clock = 0
  /\ answer = None
  /\ running = TRUE

\* A SET: k now has this value and this deadline, and no trace of older ones.
\* A deadline is never in the past when it is given.
Put(k, v, deadline) ==
  /\ deadline # None => deadline >= clock
  /\ store' = [store EXCEPT ![k] = [data |-> v, expires_at |-> deadline]]
  /\ UNCHANGED <<clock, answer, running>>

\* A GET.
Read(k) ==
  /\ answer' = IF store[k] = None THEN None ELSE store[k].data
  /\ UNCHANGED <<store, clock, running>>

\* Some keys whose deadline has come vanish together.
Expire(gone) ==
  /\ running
  /\ \A k \in gone : Due(k)
  /\ store' = [k \in Keys |-> IF k \in gone THEN None ELSE store[k]]
  /\ UNCHANGED <<clock, answer, running>>

Advance ==
  /\ clock' = clock + 1
  /\ UNCHANGED <<store, answer, running>>

Stop ==
  /\ running' = FALSE
  /\ UNCHANGED <<store, clock, answer>>

Next ==
  \/ \E k \in Keys, v \in Values, deadline \in Instants \cup {None} : Put(k, v, deadline)
  \/ \E k \in Keys : Read(k)
  \/ \E gone \in SUBSET Keys : Expire(gone)
  \/ Advance
  \/ Stop

\* No key that stays due is left behind.
Fairness ==
  \A k \in Keys : WF_storeVars(\E gone \in SUBSET Keys : k \in gone /\ Expire(gone))

SafeSpec == Init /\ [][Next]_storeVars

Spec == SafeSpec /\ Fairness
==============================================================================
