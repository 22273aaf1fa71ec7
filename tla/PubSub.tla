-------------------------------- MODULE PubSub --------------------------------
(***************************************************************************)
(* The publish/subscribe half of src/db.rs, and src/cmd/subscribe.rs: the  *)
(* broadcast channels all connections share, and the task of a connection  *)
(* in subscribed mode.                                                     *)
(*                                                                         *)
(* A message is its position in its channel.  tokio's broadcast channel is *)
(* the number of messages sent on it and, for each receiver, the position  *)
(* it reads next; it retains the last Capacity messages.  What a task does *)
(* between two awaits is one action, except around Db::subscribe, whose    *)
(* lock other threads see released before the receiver is in the StreamMap.*)
(***************************************************************************)
EXTENDS Naturals, Sequences, FiniteSets

CONSTANTS
  Channels,
  Subscribers,  \* the connections whose clients may subscribe, each once
  Capacity,     \* of a broadcast channel: 1024 in the code
  MaxSent,      \* bound of the model: messages sent on each channel
  MaxList,      \* bound of the model: channels named by one command
  None          \* Rust's Option::None

VARIABLES
  tail,     \* the number of messages sent on each channel of State.pub_sub
  pc,       \* where the task of each subscriber is
  pending,  \* the channels its command still has to (un)subscribe
  fresh,    \* the receiver Db::subscribe returned, before its insertion
  subs,     \* its StreamMap: the position each receiver reads next, or None
  out,      \* the frame being written to its client, or None
  told,     \* the channels the frames written so far say it is subscribed to
  due,      \* the first message of each channel its client may still be shown
  received  \* the messages of each channel its client has been shown

vars == <<tail, pc, pending, fresh, subs, out, told, due, received>>

\* "serving": in Handler::run; the others in Subscribe::apply.
TaskStates == {"serving", "subscribing", "inserting", "unsubscribing", "ended"}

Lists == UNION {[1 .. n -> Channels] : n \in 0 .. MaxList}

Confirmation == [kind : {"subscribe", "unsubscribe"}, channel : Channels, n : Nat]
Message      == [kind : {"message"}, channel : Channels, n : Nat]
ErrorFrame   == [kind |-> "error"]

ASSUME PubSubAssumption ==
  /\ IsFiniteSet(Channels)
  /\ Capacity \in Nat \ {0}
  /\ MaxSent \in Nat
  /\ MaxList \in Nat
  /\ None \notin Nat \cup Confirmation \cup Message \cup {ErrorFrame}

TypeOK ==
  /\ tail \in [Channels -> 0 .. MaxSent]
  /\ pc \in [Subscribers -> TaskStates]
  /\ pending \in [Subscribers -> Seq(Channels)]
  /\ fresh \in [Subscribers -> Nat \cup {None}]
  /\ subs \in [Subscribers -> [Channels -> Nat \cup {None}]]
  /\ out \in [Subscribers -> Confirmation \cup Message \cup {ErrorFrame, None}]
  /\ told \in [Subscribers -> SUBSET Channels]
  /\ due \in [Subscribers -> [Channels -> Nat]]
  /\ received \in [Subscribers -> [Channels -> Seq(Nat)]]

Init ==
  /\ tail = [ch \in Channels |-> 0]
  /\ pc = [s \in Subscribers |-> "serving"]
  /\ pending = [s \in Subscribers |-> <<>>]
  /\ fresh = [s \in Subscribers |-> None]
  /\ subs = [s \in Subscribers |-> [ch \in Channels |-> None]]
  /\ out = [s \in Subscribers |-> None]
  /\ told = [s \in Subscribers |-> {}]
  /\ due = [s \in Subscribers |-> [ch \in Channels |-> 0]]
  /\ received = [s \in Subscribers |-> [ch \in Channels |-> <<>>]]

\* The keys of the StreamMap.
Subscribed(s) == {ch \in Channels : subs[s][ch] # None}

\* The task waits in the select! of Subscribe::apply.
InSelect(s) ==
  /\ pc[s] \in {"subscribing", "unsubscribing"}
  /\ pending[s] = <<>>
  /\ out[s] = None

-------------------------------------------------------------------------------
(* Db::publish.                                                            *)

\* The receivers of a channel, those not yet inserted included.
Receivers(ch) ==
  Cardinality({s \in Subscribers : ch \in Subscribed(s)})
    + Cardinality({s \in Subscribers : pc[s] = "inserting" /\ Head(pending[s]) = ch})

\* send() succeeds: there is a receiver.  Without one, or without a channel of
\* that name, PUBLISH answers 0 and changes nothing.
Publish(ch) ==
  /\ tail[ch] < MaxSent
  /\ Receivers(ch) > 0
  /\ tail' = [tail EXCEPT ![ch] = @ + 1]
  /\ UNCHANGED <<pc, pending, fresh, subs, out, told, due, received>>

-------------------------------------------------------------------------------
(* SUBSCRIBE.                                                              *)

\* The command is read, by Handler::run or in subscribed mode.
Subscribe(s, channels) ==
  /\ pc[s] = "serving" \/ InSelect(s)
  /\ channels # <<>>
  /\ pc' = [pc EXCEPT ![s] = "subscribing"]
  /\ pending' = [pending EXCEPT ![s] = channels]
  /\ UNCHANGED <<tail, fresh, subs, out, told, due, received>>

\* Db::subscribe: a new receiver, which sees the messages sent from now on.  The
\* channel is created if there was none, empty like one without receivers.
DbSubscribe(s) ==
  /\ pc[s] = "subscribing"
  /\ pending[s] # <<>>
  /\ out[s] = None
  /\ pc' = [pc EXCEPT ![s] = "inserting"]
  /\ fresh' = [fresh EXCEPT ![s] = tail[Head(pending[s])]]
  /\ UNCHANGED <<tail, pending, subs, out, told, due, received>>

\* Mutant: len() is taken before the insertion.
InsertCountsFirst(s) ==
  LET ch == Head(pending[s])
  IN  /\ pc[s] = "inserting"
      /\ pc' = [pc EXCEPT ![s] = "subscribing"]
      /\ pending' = [pending EXCEPT ![s] = Tail(@)]
      /\ fresh' = [fresh EXCEPT ![s] = None]
      /\ subs' = [subs EXCEPT ![s][ch] = fresh[s]]
      /\ out' = [out EXCEPT ![s] = [kind |-> "subscribe", channel |-> ch,
                                    n |-> Cardinality(Subscribed(s))]]
      /\ UNCHANGED <<tail, told, due, received>>

\* subscriptions.insert(), which drops an older receiver of the channel, then
\* the confirmation with the number of subscriptions.
Insert(s) ==
  LET ch == Head(pending[s])
  IN  /\ pc[s] = "inserting"
      /\ pc' = [pc EXCEPT ![s] = "subscribing"]
      /\ pending' = [pending EXCEPT ![s] = Tail(@)]
      /\ fresh' = [fresh EXCEPT ![s] = None]
      /\ subs' = [subs EXCEPT ![s][ch] = fresh[s]]
      /\ out' = [out EXCEPT ![s] = [kind |-> "subscribe", channel |-> ch,
                                    n |-> Cardinality(Subscribed(s) \cup {ch})]]
      /\ UNCHANGED <<tail, told, due, received>>

-------------------------------------------------------------------------------
(* handle_command() in subscribed mode.                                    *)

\* UNSUBSCRIBE: no channel means all of them, in the order of the map.
Unsubscribe(s, channels) ==
  /\ InSelect(s)
  /\ pc' = [pc EXCEPT ![s] = "unsubscribing"]
  /\ \/ /\ channels # <<>>
        /\ pending' = [pending EXCEPT ![s] = channels]
     \/ /\ channels = <<>>
        /\ \E order \in [1 .. Cardinality(Subscribed(s)) -> Subscribed(s)] :
             /\ \A ch \in Subscribed(s) : \E i \in DOMAIN order : order[i] = ch
             /\ pending' = [pending EXCEPT ![s] = order]
  /\ UNCHANGED <<tail, fresh, subs, out, told, due, received>>

\* subscriptions.remove() and the confirmation, subscribed or not.
Remove(s) ==
  LET ch == Head(pending[s])
  IN  /\ pc[s] = "unsubscribing"
      /\ pending[s] # <<>>
      /\ out[s] = None
      /\ pending' = [pending EXCEPT ![s] = Tail(@)]
      /\ subs' = [subs EXCEPT ![s][ch] = None]
      /\ out' = [out EXCEPT ![s] = [kind |-> "unsubscribe", channel |-> ch,
                                    n |-> Cardinality(Subscribed(s) \ {ch})]]
      /\ UNCHANGED <<tail, pc, fresh, told, due, received>>

\* Any other command, PING included, is answered with an error.
OtherCommand(s) ==
  /\ InSelect(s)
  /\ out' = [out EXCEPT ![s] = ErrorFrame]
  /\ UNCHANGED <<tail, pc, pending, fresh, subs, told, due, received>>

-------------------------------------------------------------------------------
(* Messages.                                                               *)

\* Mutant: a receiver resumes at the oldest message retained, lagging or not.
OldestRetained(s, ch) ==
  IF tail[ch] > Capacity THEN tail[ch] - Capacity ELSE subs[s][ch]

\* Mutant: the same, where fewer messages have been sent than are retained.
OldestUnchecked(s, ch) == tail[ch] - Capacity

\* The message recv() returns next: a receiver that lags resumes at the oldest
\* message retained.
NextPosition(s, ch) ==
  IF tail[ch] - subs[s][ch] > Capacity THEN tail[ch] - Capacity ELSE subs[s][ch]

\* Mutant: Lagged ends the stream like any other error, and StreamMap drops it.
LagEndsStream(s, ch) ==
  /\ InSelect(s)
  /\ ch \in Subscribed(s)
  /\ subs[s][ch] < tail[ch]
  /\ \/ /\ tail[ch] - subs[s][ch] > Capacity
        /\ subs' = [subs EXCEPT ![s][ch] = None]
        /\ UNCHANGED out
     \/ /\ tail[ch] - subs[s][ch] <= Capacity
        /\ subs' = [subs EXCEPT ![s][ch] = @ + 1]
        /\ out' = [out EXCEPT ![s] = [kind |-> "message", channel |-> ch,
                                      n |-> subs[s][ch]]]
  /\ UNCHANGED <<tail, pc, pending, fresh, told, due, received>>

\* Mutant: a receiver that lags is never resumed.
LagStopsStream(s, ch) ==
  /\ InSelect(s)
  /\ ch \in Subscribed(s)
  /\ subs[s][ch] < tail[ch]
  /\ tail[ch] - subs[s][ch] <= Capacity
  /\ subs' = [subs EXCEPT ![s][ch] = @ + 1]
  /\ out' = [out EXCEPT ![s] = [kind |-> "message", channel |-> ch, n |-> subs[s][ch]]]
  /\ UNCHANGED <<tail, pc, pending, fresh, told, due, received>>

\* subscriptions.next() wins the select! with a message of this channel.
NextMessage(s, ch) ==
  /\ InSelect(s)
  /\ ch \in Subscribed(s)
  /\ subs[s][ch] < tail[ch]
  /\ subs' = [subs EXCEPT ![s][ch] = NextPosition(s, ch) + 1]
  /\ out' = [out EXCEPT ![s] = [kind |-> "message", channel |-> ch,
                                n |-> NextPosition(s, ch)]]
  /\ UNCHANGED <<tail, pc, pending, fresh, told, due, received>>

\* What the client has been told once a frame is written.
ToldAfter(s, frame) ==
  IF frame = None THEN told[s]
  ELSE IF frame.kind = "subscribe" THEN told[s] \cup {frame.channel}
  ELSE IF frame.kind = "unsubscribe" THEN told[s] \ {frame.channel}
  ELSE told[s]

\* The first message of a channel not shown yet, once a frame is written.  A
\* client is owed those from its first confirmation on.
DueAfter(s, frame) ==
  IF frame.kind = "message" THEN [due[s] EXCEPT ![frame.channel] = frame.n + 1]
  ELSE IF frame.kind = "subscribe" /\ frame.channel \notin told[s]
       THEN [due[s] EXCEPT ![frame.channel] = subs[s][frame.channel]]
  ELSE due[s]

\* What the client has been shown once a frame is written.
ReceivedAfter(s, frame) ==
  IF frame.kind = "message"
  THEN [received[s] EXCEPT ![frame.channel] = Append(@, frame.n)]
  ELSE received[s]

\* write_frame() completes; told, due and received record what the client reads.
FrameWritten(s) ==
  /\ out[s] # None
  /\ out' = [out EXCEPT ![s] = None]
  /\ told' = [told EXCEPT ![s] = ToldAfter(s, out[s])]
  /\ due' = [due EXCEPT ![s] = DueAfter(s, out[s])]
  /\ received' = [received EXCEPT ![s] = ReceivedAfter(s, out[s])]
  /\ UNCHANGED <<tail, pc, pending, fresh, subs>>

-------------------------------------------------------------------------------

\* The task ends: the client has left, sent what is no command, or cannot be
\* written to; the server shuts down; or a lock is poisoned.
End(s) ==
  /\ pc[s] \notin {"ended", "inserting"}
  /\ pc' = [pc EXCEPT ![s] = "ended"]
  /\ pending' = [pending EXCEPT ![s] = <<>>]
  /\ subs' = [subs EXCEPT ![s] = [ch \in Channels |-> None]]
  /\ out' = [out EXCEPT ![s] = None]
  /\ told' = [told EXCEPT ![s] = {}]
  /\ UNCHANGED <<tail, fresh, due, received>>

SubscriberNext(s) ==
  \/ \E channels \in Lists : Subscribe(s, channels) \/ Unsubscribe(s, channels)
  \/ DbSubscribe(s)
  \/ Insert(s)
  \/ Remove(s)
  \/ OtherCommand(s)
  \/ \E ch \in Channels : NextMessage(s, ch)
  \/ FrameWritten(s)
  \/ End(s)

Next ==
  \/ \E ch \in Channels : Publish(ch)
  \/ \E s \in Subscribers : SubscriberNext(s)

\* The tasks run.  FrameWritten is fair if clients read what is written to them.
\* select! polls its branches in a random order, and StreamMap its streams from
\* a random one on, so no channel and no client that keeps sending commands can
\* hold up the messages of a channel: strong fairness.
Fairness ==
  \A s \in Subscribers :
    /\ WF_vars(DbSubscribe(s) \/ Insert(s) \/ Remove(s))
    /\ WF_vars(FrameWritten(s))
    /\ \A ch \in Channels : SF_vars(NextMessage(s, ch))

SafeSpec == Init /\ [][Next]_vars

Spec == SafeSpec /\ Fairness

-------------------------------------------------------------------------------
(* Properties.                                                             *)

\* subscribe.rs:190-195, 233-238: what a client is told it is subscribed to is
\* what the map holds, once the frame under way is written.
ClientViewAccurate == \A s \in Subscribers : ToldAfter(s, out[s]) = Subscribed(s)

\* subscribe.rs:194, 236: the number in a confirmation is the number of channels
\* the client is subscribed to by what it has been told.
CountsAccurate ==
  \A s \in Subscribers :
    out[s] # None /\ out[s] # ErrorFrame /\ out[s].kind # "message" =>
      out[s].n = Cardinality(ToldAfter(s, out[s]))

\* No client is shown a message twice, out of order, from before it subscribed
\* or of a channel it has not been told it is subscribed to.
ClientFeed == INSTANCE Feed WITH sent <- tail, member <- told

RefinesFeed == ClientFeed!Spec

\* db.rs:228-230: a client that stays subscribed to a channel is not stuck behind
\* the messages it has not read: its receiver catches up with the channel.
CatchesUp ==
  \A s \in Subscribers, ch \in Channels :
    []<>(ch \in Subscribed(s) => subs[s][ch] = tail[ch])

\* db.rs:223-229: "A message is stored in the channel until all subscribers have
\* seen it", unless the channel's capacity fills up: a client that is subscribed
\* misses a message only when it lags by more than that.
OnlyLagLosesMessages ==
  [][\A s \in Subscribers, ch \in Channels :
       NextMessage(s, ch) /\ due[s][ch] + Capacity >= tail[ch]
         => out'[s].n = due[s][ch]]_vars
===============================================================================
