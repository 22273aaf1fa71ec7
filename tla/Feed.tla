--------------------------------- MODULE Feed ---------------------------------
(***************************************************************************)
(* What publish/subscribe promises one client per channel: while it is a   *)
(* member, by what it has been told, it receives messages of the channel   *)
(* in the order they were sent, each at most once, none from before it     *)
(* joined.  Some may be skipped.  Module PubSub implements this one.       *)
(***************************************************************************)
EXTENDS Naturals, Sequences

CONSTANTS
  Channels,
  Subscribers

VARIABLES
  sent,      \* the number of messages sent on each channel; they are numbered from 0
  member,    \* the channels each subscriber is a member of
  due,       \* the first message it may still receive
  received   \* the messages it has received

feedVars == <<sent, member, due, received>>

Init ==
  /\ sent = [ch \in Channels |-> 0]
  /\ member = [s \in Subscribers |-> {}]
  /\ due = [s \in Subscribers |-> [ch \in Channels |-> 0]]
  /\ received = [s \in Subscribers |-> [ch \in Channels |-> <<>>]]

Send(ch) ==
  /\ sent' = [sent EXCEPT ![ch] = @ + 1]
  /\ UNCHANGED <<member, due, received>>

\* A member receives from some message on, at the earliest the one after the
\* last it received in an earlier membership.
Join(s, ch, first) ==
  /\ ch \notin member[s]
  /\ due[s][ch] <= first
  /\ first <= sent[ch]
  /\ member' = [member EXCEPT ![s] = @ \cup {ch}]
  /\ due' = [due EXCEPT ![s][ch] = first]
  /\ UNCHANGED <<sent, received>>

Leave(s, gone) ==
  /\ member' = [member EXCEPT ![s] = @ \ gone]
  /\ UNCHANGED <<sent, due, received>>

Deliver(s, ch, n) ==
  /\ ch \in member[s]
  /\ due[s][ch] <= n
  /\ n < sent[ch]
  /\ due' = [due EXCEPT ![s][ch] = n + 1]
  /\ received' = [received EXCEPT ![s][ch] = Append(@, n)]
  /\ UNCHANGED <<sent, member>>

Next ==
  \/ \E ch \in Channels : Send(ch)
  \/ \E s \in Subscribers, ch \in Channels : \E first \in 0 .. sent[ch] : Join(s, ch, first)
  \/ \E s \in Subscribers, gone \in SUBSET Channels : Leave(s, gone)
  \/ \E s \in Subscribers, ch \in Channels : \E n \in 0 .. sent[ch] : Deliver(s, ch, n)

Spec == Init /\ [][Next]_feedVars
===============================================================================
