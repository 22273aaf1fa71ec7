--------------------------- MODULE SubscriberProofs ---------------------------
(***************************************************************************)
(* Theorems about PubSub, for any finite set of channels, any subscribers, *)
(* any capacity of a channel and any number of messages, and about         *)
(* SubscriberClient: a server that talks to Subscribers is the server of   *)
(* PubSub, and what holds of that holds whatever a client's calls do.      *)
(***************************************************************************)
EXTENDS SubscriberClient, SequenceLemmas, FiniteSetTheorems, TLAPS

-------------------------------------------------------------------------------
(* The inductive invariant, one subscriber at a time.                      *)

\* The first message a client may still be shown, the one its receiver reads next
\* and the end of the channel come in this order.
Positions(s) ==
  \A ch \in Channels :
    /\ due[s][ch] <= tail[ch]
    /\ subs[s][ch] # None => due[s][ch] <= subs[s][ch] /\ subs[s][ch] <= tail[ch]

\* A receiver that is not in the map yet is not behind what its client has seen.
InsertReady(s) ==
  pc[s] = "inserting" =>
    /\ pending[s] # <<>>
    /\ out[s] = None
    /\ fresh[s] # None
    /\ due[s][Head(pending[s])] <= fresh[s]
    /\ fresh[s] <= tail[Head(pending[s])]

\* A message at hand is one the client may be shown, and its receiver is past it.
MessageAtHand(s) ==
  out[s] \in Message =>
    /\ subs[s][out[s].channel] # None
    /\ due[s][out[s].channel] <= out[s].n
    /\ out[s].n < subs[s][out[s].channel]

\* The parts of ClientViewAccurate and CountsAccurate.
View(s) == ToldAfter(s, out[s]) = Subscribed(s)
Count(s) == out[s] \in Confirmation => out[s].n = Cardinality(ToldAfter(s, out[s]))

Consistent(s) == View(s) /\ Count(s) /\ Positions(s) /\ InsertReady(s) /\ MessageAtHand(s)

IInv == TypeOK /\ \A s \in Subscribers : Consistent(s)

-------------------------------------------------------------------------------
(* Facts about frames, the map and sequences.                              *)

\* The kind of a frame tells what it is.
LEMMA Kinds ==
  /\ \A f \in Confirmation : /\ f.kind \in {"subscribe", "unsubscribe"}
                             /\ f.channel \in Channels /\ f.n \in Nat
                             /\ f # None /\ f # ErrorFrame /\ f \notin Message
  /\ \A f \in Message : /\ f.kind = "message" /\ f.channel \in Channels /\ f.n \in Nat
                        /\ f # None /\ f # ErrorFrame
  /\ ErrorFrame.kind = "error" /\ ErrorFrame # None
  /\ ErrorFrame \notin Confirmation \cup Message
  /\ None \notin Confirmation \cup Message
BY PubSubAssumption DEF Confirmation, Message, ErrorFrame

\* The number of subscriptions is a number.
LEMMA SubscribedFinite ==
  ASSUME NEW S \in SUBSET Channels
  PROVE  IsFiniteSet(S) /\ Cardinality(S) \in Nat
BY PubSubAssumption, FS_Subset, FS_CardinalityType

\* What a command lists is a sequence of channels.
LEMMA ListsAreSequences == Lists \subseteq Seq(Channels)
BY PubSubAssumption DEF Lists

\* The message a receiver reads next is no earlier than its position, and sent.
LEMMA PositionInRange ==
  ASSUME TypeOK, NEW s \in Subscribers, NEW ch \in Channels, NextMessage(s, ch)
  PROVE  /\ subs[s][ch] \in Nat
         /\ NextPosition(s, ch) \in Nat
         /\ subs[s][ch] <= NextPosition(s, ch)
         /\ NextPosition(s, ch) < tail[ch]
<1>1. subs[s][ch] \in Nat /\ subs[s][ch] < tail[ch] /\ tail[ch] \in Nat
  BY DEF NextMessage, Subscribed, TypeOK
<1>2. Capacity \in Nat \ {0}
  BY PubSubAssumption
<1> QED
  BY <1>1, <1>2 DEF NextPosition

\* The channel of a confirmed subscription has a receiver.
LEMMA ConfirmedHasReceiver ==
  ASSUME TypeOK, NEW s \in Subscribers, View(s), out[s] \in Confirmation,
         out[s].kind = "subscribe"
  PROVE  out[s].channel \in Channels /\ subs[s][out[s].channel] \in Nat
<1>1. out[s].channel \in ToldAfter(s, out[s])
  BY Kinds DEF ToldAfter
<1> QED
  BY <1>1, Kinds DEF View, Subscribed, TypeOK

\* The initial state satisfies the invariant.
LEMMA InitIInv == Init => IInv
<1> SUFFICES ASSUME Init PROVE IInv
  OBVIOUS
<1>1. TypeOK
  BY PubSubAssumption DEF Init, TypeOK, TaskStates
<1>2. ASSUME NEW s \in Subscribers PROVE Consistent(s)
  <2>1. out[s] = None /\ told[s] = {} /\ Subscribed(s) = {} /\ pc[s] = "serving"
    BY <1>2 DEF Init, Subscribed
  <2>2. View(s) /\ Count(s) /\ InsertReady(s) /\ MessageAtHand(s)
    BY <2>1, Kinds DEF View, Count, InsertReady, MessageAtHand, ToldAfter
  <2>3. Positions(s)
    BY <1>2 DEF Init, Positions
  <2> QED
    BY <2>2, <2>3 DEF Consistent
<1> QED
  BY <1>1, <1>2 DEF IInv

-------------------------------------------------------------------------------
(* Types.                                                                  *)

\* A step keeps the types.
LEMMA StepTypes ==
  ASSUME IInv, [Next]_vars
  PROVE  TypeOK'
<1> USE DEF IInv
<1>1. ASSUME NEW ch \in Channels, Publish(ch) PROVE TypeOK'
  BY <1>1, PubSubAssumption DEF Publish, TypeOK
<1>2. ASSUME NEW s \in Subscribers, NEW channels \in Lists, Subscribe(s, channels) PROVE TypeOK'
  BY <1>2, ListsAreSequences DEF Subscribe, TypeOK, TaskStates
<1>3. ASSUME NEW s \in Subscribers, NEW channels \in Lists, Unsubscribe(s, channels) PROVE TypeOK'
  <2>1. Cardinality(Subscribed(s)) \in Nat
    BY SubscribedFinite DEF Subscribed
  <2>2. ASSUME NEW order \in [1 .. Cardinality(Subscribed(s)) -> Subscribed(s)]
        PROVE  order \in Seq(Channels)
    <3>1. order \in [1 .. Cardinality(Subscribed(s)) -> Channels]
      BY DEF Subscribed
    <3> QED
      BY <2>1, <3>1
  <2>3. channels \in Seq(Channels)
    BY ListsAreSequences
  <2>4. pending' \in [Subscribers -> Seq(Channels)]
    BY <1>3, <2>2, <2>3 DEF Unsubscribe, TypeOK
  <2> QED
    BY <1>3, <2>4 DEF Unsubscribe, TypeOK, TaskStates
<1>4. ASSUME NEW s \in Subscribers, DbSubscribe(s) PROVE TypeOK'
  <2>1. tail[Head(pending[s])] \in Nat
    BY <1>4 DEF DbSubscribe, TypeOK
  <2> QED
    BY <1>4, <2>1 DEF DbSubscribe, TypeOK, TaskStates
<1>5. ASSUME NEW s \in Subscribers, Insert(s), InsertReady(s) PROVE TypeOK'
  <2> DEFINE ch == Head(pending[s])
             frame == [kind |-> "subscribe", channel |-> ch,
                       n |-> Cardinality(Subscribed(s) \cup {ch})]
  <2>1. ch \in Channels /\ Tail(pending[s]) \in Seq(Channels)
    BY <1>5 DEF Insert, InsertReady, TypeOK
  <2>2. frame \in Confirmation
    <3>1. Cardinality(Subscribed(s) \cup {ch}) \in Nat
      BY <2>1, SubscribedFinite DEF Subscribed
    <3> QED
      BY <2>1, <3>1 DEF Confirmation
  <2>3. /\ pending' = [pending EXCEPT ![s] = Tail(pending[s])]
        /\ subs' = [subs EXCEPT ![s][ch] = fresh[s]]
        /\ out' = [out EXCEPT ![s] = frame]
    BY <1>5 DEF Insert
  <2> HIDE DEF ch, frame
  <2> QED
    BY SMTT(30), <1>5, <2>1, <2>2, <2>3 DEF Insert, TypeOK, TaskStates
<1>6. ASSUME NEW s \in Subscribers, Remove(s) PROVE TypeOK'
  <2> DEFINE ch == Head(pending[s])
             frame == [kind |-> "unsubscribe", channel |-> ch,
                       n |-> Cardinality(Subscribed(s) \ {ch})]
  <2>1. ch \in Channels /\ Tail(pending[s]) \in Seq(Channels)
    BY <1>6 DEF Remove, TypeOK
  <2>2. frame \in Confirmation
    <3>1. Cardinality(Subscribed(s) \ {ch}) \in Nat
      BY SubscribedFinite DEF Subscribed
    <3> QED
      BY <2>1, <3>1 DEF Confirmation
  <2>3. /\ pending' = [pending EXCEPT ![s] = Tail(pending[s])]
        /\ subs' = [subs EXCEPT ![s][ch] = None]
        /\ out' = [out EXCEPT ![s] = frame]
    BY <1>6 DEF Remove
  <2> HIDE DEF ch, frame
  <2> QED
    BY SMTT(30), <1>6, <2>1, <2>2, <2>3 DEF Remove, TypeOK, TaskStates
<1>7. ASSUME NEW s \in Subscribers, OtherCommand(s) \/ End(s) PROVE TypeOK'
  <2>1. CASE OtherCommand(s)
    BY <2>1 DEF OtherCommand, TypeOK
  <2>2. CASE End(s)
    <3>1. <<>> \in Seq(Channels) /\ [ch \in Channels |-> None] \in [Channels -> Nat \cup {None}]
      OBVIOUS
    <3> QED
      BY <2>2, <3>1 DEF End, TypeOK, TaskStates
  <2> QED
    BY <1>7, <2>1, <2>2
<1>8. ASSUME NEW s \in Subscribers, NEW ch \in Channels, NextMessage(s, ch) PROVE TypeOK'
  <2>1. NextPosition(s, ch) \in Nat
    BY <1>8, PositionInRange
  <2>2. [kind |-> "message", channel |-> ch, n |-> NextPosition(s, ch)] \in Message
    BY <2>1 DEF Message
  <2> QED
    BY <1>8, <2>1, <2>2 DEF NextMessage, TypeOK
<1>9. ASSUME NEW s \in Subscribers, FrameWritten(s) PROVE TypeOK'
  <2>1. ToldAfter(s, out[s]) \in SUBSET Channels
    BY Kinds DEF ToldAfter, TypeOK
  <2>2. DueAfter(s, out[s]) \in [Channels -> Nat]
    <3>1. CASE out[s] \in Message
      BY <3>1, Kinds DEF DueAfter, TypeOK
    <3>2. CASE out[s] \in Confirmation
      <4>1. out[s].kind = "subscribe" => subs[s][out[s].channel] \in Nat
        BY <3>2, ConfirmedHasReceiver DEF Consistent
      <4> QED
        BY <3>2, <4>1, Kinds DEF DueAfter, TypeOK
    <3>3. CASE out[s] = ErrorFrame
      BY <3>3, Kinds DEF DueAfter, TypeOK
    <3> QED
      BY <1>9, <3>1, <3>2, <3>3 DEF FrameWritten, TypeOK
  <2>3. ReceivedAfter(s, out[s]) \in [Channels -> Seq(Nat)]
    BY <1>9, Kinds DEF ReceivedAfter, FrameWritten, TypeOK
  <2> QED
    BY <1>9, <2>1, <2>2, <2>3 DEF FrameWritten, TypeOK
<1>10. CASE UNCHANGED vars
  BY <1>10 DEF vars, TypeOK
<1> QED
  BY <1>1, <1>2, <1>3, <1>4, <1>5, <1>6, <1>7, <1>8, <1>9, <1>10
  DEF Next, SubscriberNext, IInv, Consistent

-------------------------------------------------------------------------------
(* Consistency of one subscriber.                                          *)

\* What belongs to a subscriber.
Own(s) == <<pc[s], pending[s], fresh[s], subs[s], out[s], told[s], due[s]>>

\* A step that leaves a subscriber's own state alone, and no channel shorter, leaves
\* it consistent.
LEMMA UntouchedConsistent ==
  ASSUME TypeOK, TypeOK', NEW s \in Subscribers, Consistent(s), Own(s)' = Own(s),
         \A ch \in Channels : tail[ch] <= tail'[ch]
  PROVE  Consistent(s)'
<1>1. /\ pc'[s] = pc[s] /\ pending'[s] = pending[s] /\ fresh'[s] = fresh[s] /\ subs'[s] = subs[s]
      /\ out'[s] = out[s] /\ told'[s] = told[s] /\ due'[s] = due[s]
  BY DEF Own
<1>2. View(s)' /\ Count(s)' /\ MessageAtHand(s)'
  BY <1>1 DEF Consistent, View, Count, MessageAtHand, ToldAfter, Subscribed
<1>3. Positions(s)'
  <2>1. SUFFICES ASSUME NEW ch \in Channels
                 PROVE  /\ due'[s][ch] <= tail'[ch]
                        /\ subs'[s][ch] # None =>
                             due'[s][ch] <= subs'[s][ch] /\ subs'[s][ch] <= tail'[ch]
    BY DEF Positions
  <2>2. due[s][ch] \in Nat /\ tail[ch] \in Nat /\ tail'[ch] \in Nat /\ tail[ch] <= tail'[ch]
        /\ (subs[s][ch] # None => subs[s][ch] \in Nat)
    BY DEF TypeOK
  <2> QED
    BY <1>1, <2>2 DEF Consistent, Positions
<1>4. InsertReady(s)'
  <2>1. SUFFICES ASSUME pc[s] = "inserting" PROVE fresh[s] <= tail'[Head(pending[s])]
    BY <1>1 DEF Consistent, InsertReady
  <2>2. Head(pending[s]) \in Channels /\ fresh[s] \in Nat
        /\ fresh[s] <= tail[Head(pending[s])]
    BY <2>1 DEF Consistent, InsertReady, TypeOK
  <2>3. tail[Head(pending[s])] \in Nat /\ tail'[Head(pending[s])] \in Nat
        /\ tail[Head(pending[s])] <= tail'[Head(pending[s])]
    BY <2>2 DEF TypeOK
  <2> QED
    BY <2>2, <2>3
<1> QED
  BY <1>2, <1>3, <1>4 DEF Consistent

\* A step of one subscriber leaves the others alone.
LEMMA OthersUntouched ==
  ASSUME TypeOK, NEW s \in Subscribers, SubscriberNext(s), NEW r \in Subscribers, r # s
  PROVE  Own(r)' = Own(r) /\ tail' = tail
BY DEF SubscriberNext, Subscribe, Unsubscribe, DbSubscribe, Insert, Remove, OtherCommand,
       NextMessage, FrameWritten, End, Own, TypeOK

\* A command is read: the receivers and what the client has been shown stay.
LEMMA CommandConsistent ==
  ASSUME TypeOK, NEW s \in Subscribers, Consistent(s), UNCHANGED <<tail, subs, out, told, due>>,
         pc'[s] # "inserting"
  PROVE  Consistent(s)'
BY DEF Consistent, View, Count, Positions, InsertReady, MessageAtHand, ToldAfter, Subscribed

\* Db::subscribe.
LEMMA DbSubscribeConsistent ==
  ASSUME TypeOK, NEW s \in Subscribers, Consistent(s), DbSubscribe(s)
  PROVE  Consistent(s)'
<1> DEFINE ch == Head(pending[s])
<1>1. ch \in Channels
  BY DEF DbSubscribe, TypeOK
<1>2. fresh'[s] = tail[ch] /\ pending'[s] # <<>> /\ Head(pending'[s]) = ch
      /\ UNCHANGED <<tail, subs, out, told, due>> /\ out[s] = None
  BY DEF DbSubscribe, TypeOK
<1>3. tail[ch] \in Nat /\ tail[ch] # None /\ due[s][ch] <= tail[ch] /\ tail[ch] <= tail[ch]
  BY <1>1, PubSubAssumption DEF Consistent, Positions, TypeOK
<1>4. InsertReady(s)'
  BY <1>2, <1>3 DEF InsertReady
<1> QED
  BY <1>2, <1>4 DEF Consistent, View, Count, Positions, MessageAtHand, ToldAfter, Subscribed

\* The insertion into the StreamMap, with the confirmation that tells of it.
LEMMA InsertConsistent ==
  ASSUME TypeOK, NEW s \in Subscribers, Consistent(s), Insert(s)
  PROVE  Consistent(s)'
<1> DEFINE ch == Head(pending[s])
           frame == [kind |-> "subscribe", channel |-> ch,
                     n |-> Cardinality(Subscribed(s) \cup {ch})]
<1>1. ch \in Channels /\ fresh[s] \in Nat /\ out[s] = None
      /\ due[s][ch] <= fresh[s] /\ fresh[s] <= tail[ch]
  BY DEF Insert, Consistent, InsertReady, TypeOK
<1>2. /\ out'[s] = frame /\ subs'[s] = [subs[s] EXCEPT ![ch] = fresh[s]]
      /\ pc'[s] = "subscribing" /\ UNCHANGED <<tail, told, due>>
  BY DEF Insert, TypeOK
<1>3. frame.kind = "subscribe" /\ frame.channel = ch
      /\ frame.n = Cardinality(Subscribed(s) \cup {ch}) /\ frame \notin Message /\ frame # None
  <2>1. frame.n \in Nat
    BY <1>1, SubscribedFinite DEF Subscribed
  <2>2. frame \in Confirmation
    BY <1>1, <2>1 DEF Confirmation
  <2> QED
    BY <2>2, Kinds
<1> HIDE DEF frame, ch
<1>4. told[s] = Subscribed(s)
  BY <1>1 DEF Consistent, View, ToldAfter
<1>5. ToldAfter(s, out[s])' = told[s] \cup {ch}
  BY <1>2, <1>3 DEF ToldAfter
<1>6. Subscribed(s)' = Subscribed(s) \cup {ch}
  BY <1>1, <1>2, PubSubAssumption DEF Subscribed, TypeOK
<1>7. View(s)' /\ Count(s)' /\ InsertReady(s)' /\ MessageAtHand(s)'
  BY <1>2, <1>3, <1>4, <1>5, <1>6 DEF View, Count, InsertReady, MessageAtHand
<1>8. Positions(s)'
  BY <1>1, <1>2 DEF Consistent, Positions, TypeOK
<1> QED
  BY <1>7, <1>8 DEF Consistent

\* The removal from the StreamMap, with the confirmation that tells of it.
LEMMA RemoveConsistent ==
  ASSUME TypeOK, NEW s \in Subscribers, Consistent(s), Remove(s)
  PROVE  Consistent(s)'
<1> DEFINE ch == Head(pending[s])
           frame == [kind |-> "unsubscribe", channel |-> ch,
                     n |-> Cardinality(Subscribed(s) \ {ch})]
<1>1. ch \in Channels /\ out[s] = None
  BY DEF Remove, TypeOK
<1>2. /\ out'[s] = frame /\ subs'[s] = [subs[s] EXCEPT ![ch] = None]
      /\ pc'[s] # "inserting" /\ UNCHANGED <<tail, told, due>>
  BY DEF Remove, TypeOK
<1>3. frame.kind = "unsubscribe" /\ frame.channel = ch
      /\ frame.n = Cardinality(Subscribed(s) \ {ch}) /\ frame \notin Message /\ frame # None
  <2>1. frame.n \in Nat
    BY <1>1, SubscribedFinite DEF Subscribed
  <2>2. frame \in Confirmation
    BY <1>1, <2>1 DEF Confirmation
  <2> QED
    BY <2>2, Kinds
<1> HIDE DEF frame, ch
<1>4. told[s] = Subscribed(s)
  BY <1>1 DEF Consistent, View, ToldAfter
<1>5. ToldAfter(s, out[s])' = told[s] \ {ch}
  BY <1>2, <1>3 DEF ToldAfter
<1>6. Subscribed(s)' = Subscribed(s) \ {ch}
  BY <1>1, <1>2 DEF Subscribed, TypeOK
<1>7. View(s)' /\ Count(s)' /\ InsertReady(s)' /\ MessageAtHand(s)'
  BY <1>2, <1>3, <1>4, <1>5, <1>6 DEF View, Count, InsertReady, MessageAtHand
<1>8. Positions(s)'
  BY <1>1, <1>2 DEF Consistent, Positions, TypeOK
<1> QED
  BY <1>7, <1>8 DEF Consistent

\* A message is read from a receiver.
LEMMA MessageConsistent ==
  ASSUME TypeOK, NEW s \in Subscribers, Consistent(s), NEW ch \in Channels, NextMessage(s, ch)
  PROVE  Consistent(s)'
<1> DEFINE n == NextPosition(s, ch)
           frame == [kind |-> "message", channel |-> ch, n |-> n]
<1>1. n \in Nat /\ subs[s][ch] \in Nat /\ subs[s][ch] <= n /\ n < tail[ch] /\ n + 1 # None
  BY PositionInRange, PubSubAssumption
<1>2. frame \in Message /\ frame.kind = "message" /\ frame.channel = ch /\ frame.n = n
      /\ frame # None /\ frame \notin Confirmation
  <2>1. frame \in Message
    BY <1>1 DEF Message
  <2> QED
    BY <2>1, Kinds
<1>3. /\ out'[s] = frame /\ subs'[s] = [subs[s] EXCEPT ![ch] = n + 1]
      /\ pc'[s] # "inserting" /\ out[s] = None /\ UNCHANGED <<tail, told, due>>
  BY DEF NextMessage, InSelect, TypeOK
<1>4. due[s][ch] \in Nat /\ tail[ch] \in Nat /\ due[s][ch] <= n
  <2>1. due[s][ch] \in Nat /\ tail[ch] \in Nat
    BY DEF TypeOK
  <2>2. due[s][ch] <= subs[s][ch]
    BY <1>1, PubSubAssumption DEF Consistent, Positions
  <2> QED
    BY <1>1, <2>1, <2>2
<1> HIDE DEF frame, n
<1>5. Subscribed(s)' = Subscribed(s)
  BY <1>1, <1>3, PubSubAssumption DEF Subscribed, TypeOK
<1>6. ToldAfter(s, out[s])' = told[s] /\ told[s] = Subscribed(s)
  BY <1>2, <1>3 DEF Consistent, View, ToldAfter
<1>7. subs'[s][ch] = n + 1
  BY <1>3 DEF TypeOK
<1>8. View(s)' /\ Count(s)' /\ InsertReady(s)' /\ MessageAtHand(s)'
  BY <1>1, <1>2, <1>3, <1>4, <1>5, <1>6, <1>7 DEF View, Count, InsertReady, MessageAtHand
<1>9. Positions(s)'
  BY <1>1, <1>3, <1>4 DEF Consistent, Positions, TypeOK
<1> QED
  BY <1>8, <1>9 DEF Consistent

\* The client reads a frame.
LEMMA FrameConsistent ==
  ASSUME TypeOK, NEW s \in Subscribers, Consistent(s), FrameWritten(s)
  PROVE  Consistent(s)'
<1>1. /\ out[s] # None /\ out'[s] = None /\ told'[s] = ToldAfter(s, out[s])
      /\ due'[s] = DueAfter(s, out[s]) /\ UNCHANGED <<tail, pc, pending, fresh, subs>>
  BY DEF FrameWritten, TypeOK
<1>2. ToldAfter(s, out[s])' = ToldAfter(s, out[s]) /\ Subscribed(s)' = Subscribed(s)
  BY <1>1 DEF ToldAfter, Subscribed
<1>3. pc[s] # "inserting"
  BY <1>1 DEF Consistent, InsertReady
<1>4. View(s)' /\ Count(s)' /\ InsertReady(s)' /\ MessageAtHand(s)'
  BY <1>1, <1>2, <1>3, Kinds DEF Consistent, View, Count, InsertReady, MessageAtHand
<1>5. Positions(s)'
  <2>1. CASE out[s] \in Message
    <3> DEFINE ch == out[s].channel
    <3>1. out[s].kind = "message" /\ ch \in Channels /\ out[s].n \in Nat
      BY <2>1, Kinds
    <3>2. due'[s] = [due[s] EXCEPT ![ch] = out[s].n + 1]
      BY <1>1, <3>1 DEF DueAfter
    <3>3. subs[s][ch] \in Nat /\ out[s].n + 1 <= subs[s][ch] /\ subs[s][ch] <= tail[ch]
          /\ tail[ch] \in Nat
      BY <2>1, <3>1 DEF Consistent, MessageAtHand, Positions, TypeOK
    <3> HIDE DEF ch
    <3> QED
      BY <1>1, <3>1, <3>2, <3>3 DEF Consistent, Positions, TypeOK
  <2>2. CASE out[s] \in Confirmation /\ out[s].kind = "subscribe"
    <3> DEFINE ch == out[s].channel
    <3>1. ch \in Channels /\ subs[s][ch] \in Nat
      BY <2>2, ConfirmedHasReceiver DEF Consistent
    <3>2. \/ due'[s] = [due[s] EXCEPT ![ch] = subs[s][ch]]
          \/ due'[s] = due[s]
      BY <1>1, <2>2 DEF DueAfter
    <3>3. subs[s][ch] <= tail[ch]
      BY <3>1, PubSubAssumption DEF Consistent, Positions
    <3> HIDE DEF ch
    <3>4. CASE due'[s] = [due[s] EXCEPT ![ch] = subs[s][ch]]
      BY <1>1, <3>1, <3>3, <3>4 DEF Consistent, Positions, TypeOK
    <3>5. CASE due'[s] = due[s]
      BY <1>1, <3>5 DEF Consistent, Positions
    <3> QED
      BY <3>2, <3>4, <3>5
  <2>3. CASE out[s] = ErrorFrame \/ (out[s] \in Confirmation /\ out[s].kind # "subscribe")
    <3>1. due'[s] = due[s]
      BY <1>1, <2>3, Kinds DEF DueAfter
    <3> QED
      BY <1>1, <3>1 DEF Consistent, Positions
  <2> QED
    BY <1>1, <2>1, <2>2, <2>3 DEF TypeOK
<1> QED
  BY <1>4, <1>5 DEF Consistent

\* The answer to a command that is none here, and the end of the task.
LEMMA EndConsistent ==
  ASSUME TypeOK, NEW s \in Subscribers, Consistent(s), OtherCommand(s) \/ End(s)
  PROVE  Consistent(s)'
<1>1. CASE OtherCommand(s)
  <2>1. out'[s] = ErrorFrame /\ out[s] = None /\ pc[s] # "inserting"
        /\ UNCHANGED <<tail, pc, pending, fresh, subs, told, due>>
    BY <1>1 DEF OtherCommand, InSelect, TypeOK
  <2>2. ToldAfter(s, out[s])' = told[s] /\ ToldAfter(s, out[s]) = told[s]
        /\ Subscribed(s)' = Subscribed(s)
    BY <2>1, Kinds DEF ToldAfter, Subscribed
  <2> QED
    BY <2>1, <2>2, Kinds
    DEF Consistent, View, Count, Positions, InsertReady, MessageAtHand
<1>2. CASE End(s)
  <2>1. out'[s] = None /\ pc'[s] = "ended" /\ subs'[s] = [ch \in Channels |-> None]
        /\ told'[s] = {} /\ UNCHANGED <<tail, due>>
    BY <1>2 DEF End, TypeOK
  <2>2. ToldAfter(s, out[s])' = {} /\ Subscribed(s)' = {}
    BY <2>1 DEF ToldAfter, Subscribed
  <2> QED
    BY <2>1, <2>2, Kinds
    DEF Consistent, View, Count, Positions, InsertReady, MessageAtHand
<1> QED
  BY <1>1, <1>2

-------------------------------------------------------------------------------
(* The theorems about safety.                                              *)

\* A step keeps the inductive invariant.
LEMMA StepIInv == IInv /\ [Next]_vars => IInv'
<1> SUFFICES ASSUME IInv, [Next]_vars PROVE IInv'
  OBVIOUS
<1>0. TypeOK'
  BY StepTypes
<1>1. ASSUME NEW ch \in Channels, Publish(ch) PROVE IInv'
  <2>1. \A c \in Channels : tail[c] <= tail'[c]
    BY <1>1 DEF Publish, IInv, TypeOK
  <2>2. \A s \in Subscribers : Own(s)' = Own(s)
    BY <1>1 DEF Publish, Own
  <2> QED
    BY <1>0, <2>1, <2>2, UntouchedConsistent DEF IInv
<1>2. ASSUME NEW s \in Subscribers, SubscriberNext(s) PROVE IInv'
  <2>1. Consistent(s)'
    <3>1. ASSUME NEW channels \in Lists, Subscribe(s, channels) \/ Unsubscribe(s, channels)
          PROVE  Consistent(s)'
      BY <3>1, CommandConsistent DEF IInv, Subscribe, Unsubscribe, TypeOK
    <3> QED
      BY <1>2, <3>1, DbSubscribeConsistent, InsertConsistent, RemoveConsistent, MessageConsistent,
         FrameConsistent, EndConsistent DEF IInv, SubscriberNext
  <2>2. ASSUME NEW r \in Subscribers, r # s PROVE Consistent(r)'
    <3>1. Own(r)' = Own(r) /\ tail' = tail
      BY <1>2, <2>2, OthersUntouched DEF IInv
    <3>2. \A ch \in Channels : tail[ch] <= tail'[ch]
      BY <3>1 DEF IInv, TypeOK
    <3> QED
      BY <1>0, <3>1, <3>2, UntouchedConsistent DEF IInv
  <2> QED
    BY <1>0, <2>1, <2>2 DEF IInv
<1>3. CASE UNCHANGED vars
  <2>1. \A s \in Subscribers : Own(s)' = Own(s)
    BY <1>3 DEF vars, Own
  <2>2. \A ch \in Channels : tail[ch] <= tail'[ch]
    BY <1>3 DEF vars, IInv, TypeOK
  <2> QED
    BY <1>0, <2>1, <2>2, UntouchedConsistent DEF IInv
<1> QED
  BY <1>1, <1>2, <1>3 DEF Next

\* Every reachable state satisfies the inductive invariant.
THEOREM Invariance == SafeSpec => []IInv
BY InitIInv, StepIInv, PTL DEF SafeSpec

\* Types: every frame, position and count is what it is declared to be.
THEOREM TypesCorrect == SafeSpec => []TypeOK
<1>1. IInv => TypeOK
  BY DEF IInv
<1> QED
  BY Invariance, <1>1, PTL

\* What a client has been told, once the frame under way is written, is what the
\* StreamMap holds.
THEOREM ViewCorrect == SafeSpec => []ClientViewAccurate
<1>1. IInv => ClientViewAccurate
  BY DEF IInv, Consistent, View, ClientViewAccurate
<1> QED
  BY Invariance, <1>1, PTL

\* A confirmation counts the subscriptions its client has been told of.
THEOREM CountsCorrect == SafeSpec => []CountsAccurate
<1>1. IInv => CountsAccurate
  BY Kinds DEF IInv, TypeOK, Consistent, Count, CountsAccurate
<1> QED
  BY Invariance, <1>1, PTL

-------------------------------------------------------------------------------
(* PubSub implements Feed.                                                 *)

\* A client that reads a frame joins a channel, leaves one, is delivered a message
\* or stays where it is.
LEMMA FrameFeeds ==
  ASSUME TypeOK, NEW s \in Subscribers, Consistent(s), FrameWritten(s)
  PROVE  [ClientFeed!Next]_ClientFeed!feedVars
<1> USE DEF ClientFeed!feedVars
<1>1. /\ out[s] # None
      /\ told' = [told EXCEPT ![s] = ToldAfter(s, out[s])]
      /\ due' = [due EXCEPT ![s] = DueAfter(s, out[s])]
      /\ received' = [received EXCEPT ![s] = ReceivedAfter(s, out[s])]
      /\ tail' = tail
  BY DEF FrameWritten
<1>2. CASE out[s] \in Message
  <2> DEFINE ch == out[s].channel
             n == out[s].n
  <2>1. out[s].kind = "message" /\ ch \in Channels /\ n \in Nat
    BY <1>2, Kinds
  <2>2. subs[s][ch] # None /\ due[s][ch] <= n /\ n < tail[ch]
    <3>1. subs[s][ch] \in Nat /\ n < subs[s][ch] /\ subs[s][ch] <= tail[ch] /\ tail[ch] \in Nat
          /\ due[s][ch] <= n
      BY <1>2, <2>1 DEF Consistent, MessageAtHand, Positions, TypeOK
    <3> QED
      BY <2>1, <3>1, PubSubAssumption
  <2>3. ToldAfter(s, out[s]) = told[s] /\ ch \in told[s]
    BY <1>1, <2>1, <2>2 DEF ToldAfter, Consistent, View, Subscribed
  <2>4. /\ told' = told
        /\ due' = [due EXCEPT ![s][ch] = n + 1]
        /\ received' = [received EXCEPT ![s][ch] = Append(received[s][ch], n)]
    <3>1. DueAfter(s, out[s]) = [due[s] EXCEPT ![ch] = n + 1]
      BY <2>1 DEF DueAfter
    <3>2. ReceivedAfter(s, out[s]) = [received[s] EXCEPT ![ch] = Append(received[s][ch], n)]
      BY <2>1 DEF ReceivedAfter
    <3> QED
      BY <1>1, <2>3, <3>1, <3>2 DEF TypeOK
  <2> HIDE DEF ch, n
  <2>5. ClientFeed!Deliver(s, ch, n)
    BY <1>1, <2>2, <2>3, <2>4 DEF ClientFeed!Deliver
  <2>6. n \in 0 .. tail[ch]
    BY <2>1, <2>2 DEF TypeOK
  <2> QED
    BY <2>1, <2>5, <2>6 DEF ClientFeed!Next
<1>3. CASE out[s] \in Confirmation /\ out[s].kind = "subscribe" /\ out[s].channel \notin told[s]
  <2> DEFINE ch == out[s].channel
  <2>1. ch \in Channels /\ subs[s][ch] \in Nat /\ subs[s][ch] # None
    BY <1>3, ConfirmedHasReceiver, PubSubAssumption DEF Consistent
  <2>2. due[s][ch] <= subs[s][ch] /\ subs[s][ch] <= tail[ch] /\ tail[ch] \in Nat
    BY <2>1 DEF Consistent, Positions, TypeOK
  <2>3. /\ told' = [told EXCEPT ![s] = told[s] \cup {ch}]
        /\ due' = [due EXCEPT ![s][ch] = subs[s][ch]]
        /\ received' = received
    <3>1. /\ ToldAfter(s, out[s]) = told[s] \cup {ch}
          /\ DueAfter(s, out[s]) = [due[s] EXCEPT ![ch] = subs[s][ch]]
          /\ ReceivedAfter(s, out[s]) = received[s]
      BY <1>1, <1>3 DEF ToldAfter, DueAfter, ReceivedAfter
    <3> QED
      BY <1>1, <3>1 DEF TypeOK
  <2>4. ch \notin told[s]
    BY <1>3
  <2> HIDE DEF ch
  <2>5. ClientFeed!Join(s, ch, subs[s][ch])
    BY <1>1, <2>2, <2>3, <2>4 DEF ClientFeed!Join
  <2>6. subs[s][ch] \in 0 .. tail[ch]
    BY <2>1, <2>2
  <2> QED
    BY <2>1, <2>5, <2>6 DEF ClientFeed!Next
<1>4. CASE out[s] \in Confirmation /\ out[s].kind = "unsubscribe"
  <2> DEFINE ch == out[s].channel
  <2>1. /\ ToldAfter(s, out[s]) = told[s] \ {ch}
        /\ DueAfter(s, out[s]) = due[s]
        /\ ReceivedAfter(s, out[s]) = received[s]
    BY <1>1, <1>4 DEF ToldAfter, DueAfter, ReceivedAfter
  <2>2. told' = [told EXCEPT ![s] = told[s] \ {ch}] /\ due' = due /\ received' = received
    BY <1>1, <2>1 DEF TypeOK
  <2>3. ch \in Channels
    BY <1>4, Kinds
  <2> HIDE DEF ch
  <2>4. ClientFeed!Leave(s, {ch})
    BY <1>1, <2>2 DEF ClientFeed!Leave
  <2> QED
    BY <2>3, <2>4 DEF ClientFeed!Next
<1>5. CASE \/ out[s] = ErrorFrame
           \/ out[s] \in Confirmation /\ out[s].kind = "subscribe" /\ out[s].channel \in told[s]
  <2>1. /\ ToldAfter(s, out[s]) = told[s]
        /\ DueAfter(s, out[s]) = due[s]
        /\ ReceivedAfter(s, out[s]) = received[s]
    BY <1>1, <1>5, Kinds DEF ToldAfter, DueAfter, ReceivedAfter
  <2> QED
    BY <1>1, <2>1 DEF TypeOK
<1> QED
  BY <1>1, <1>2, <1>3, <1>4, <1>5, Kinds DEF TypeOK

\* Every step of PubSub is a step of Feed or leaves its state alone.
LEMMA StepFeeds == IInv /\ [Next]_vars => [ClientFeed!Next]_ClientFeed!feedVars
<1> SUFFICES ASSUME IInv, [Next]_vars PROVE [ClientFeed!Next]_ClientFeed!feedVars
  OBVIOUS
<1> USE DEF ClientFeed!feedVars
<1>1. ASSUME NEW ch \in Channels, Publish(ch) PROVE ClientFeed!Next
  <2>1. ClientFeed!Send(ch)
    BY <1>1 DEF Publish, ClientFeed!Send
  <2> QED
    BY <2>1 DEF ClientFeed!Next
<1>2. ASSUME NEW s \in Subscribers, FrameWritten(s)
      PROVE  [ClientFeed!Next]_ClientFeed!feedVars
  BY <1>2, FrameFeeds DEF IInv
<1>3. ASSUME NEW s \in Subscribers, End(s) PROVE ClientFeed!Next
  <2>1. told' = [told EXCEPT ![s] = told[s] \ told[s]] /\ UNCHANGED <<tail, due, received>>
    BY <1>3 DEF End
  <2>2. ClientFeed!Leave(s, told[s]) /\ told[s] \in SUBSET Channels
    BY <2>1 DEF ClientFeed!Leave, IInv, TypeOK
  <2> QED
    BY <2>2 DEF ClientFeed!Next
<1>4. ASSUME NEW s \in Subscribers,
             \/ \E channels \in Lists : Subscribe(s, channels) \/ Unsubscribe(s, channels)
             \/ DbSubscribe(s) \/ Insert(s) \/ Remove(s) \/ OtherCommand(s)
             \/ \E ch \in Channels : NextMessage(s, ch)
      PROVE  UNCHANGED ClientFeed!feedVars
  BY <1>4 DEF Subscribe, Unsubscribe, DbSubscribe, Insert, Remove, OtherCommand, NextMessage
<1>5. CASE UNCHANGED vars
  BY <1>5 DEF vars
<1> QED
  BY <1>1, <1>2, <1>3, <1>4, <1>5 DEF Next, SubscriberNext

\* PubSub implements Feed: a client is shown the messages of a channel in order, at
\* most once each, none from before it subscribed or after it left, whatever it and
\* the publishers do and however far it falls behind.
THEOREM FeedRefinement == SafeSpec => RefinesFeed
<1>1. Init => ClientFeed!Init
  BY DEF Init, ClientFeed!Init
<1> QED
  BY <1>1, Invariance, StepFeeds, PTL DEF SafeSpec, RefinesFeed, ClientFeed!Spec

-------------------------------------------------------------------------------
(* Sessions: the requests on their way.                                    *)

\* What travels to the server is requests.
Request == [op : {"subscribe", "unsubscribe"}, channels : Lists]

RequestsTyped == requests \in [Subscribers -> Seq(Request)]

\* A step keeps it.
LEMMA StepRequests == RequestsTyped /\ [SessionNext]_sessionVars => RequestsTyped'
<1> SUFFICES ASSUME RequestsTyped, [SessionNext]_sessionVars PROVE RequestsTyped'
  OBVIOUS
<1> USE DEF RequestsTyped, sockets
<1>1. ASSUME NEW s \in Subscribers, NEW channels \in Lists, NEW num, NEW state,
             NEW op \in {"subscribe", "unsubscribe"}, Begin(s, state, op, channels, num)
      PROVE  RequestsTyped'
  <2>1. [op |-> op, channels |-> channels] \in Request
    BY DEF Request
  <2> QED
    BY <1>1, <2>1 DEF Begin
<1>2. ASSUME NEW s \in Subscribers, NEW channels \in Lists,
             Join(s, channels) \/ CallSubscribe(s, channels) \/ CallUnsubscribe(s, channels)
      PROVE  RequestsTyped'
  BY <1>1, <1>2 DEF Join, CallSubscribe, CallUnsubscribe
<1>3. ASSUME NEW s \in Subscribers, ServerReads(s) PROVE RequestsTyped'
  <2>1. requests[s] \in Seq(Request) /\ requests[s] # <<>>
    BY <1>3 DEF ServerReads
  <2>2. Tail(requests[s]) \in Seq(Request)
    BY <2>1
  <2> QED
    BY <1>3, <2>2 DEF ServerReads
<1>4. ASSUME NEW s \in Subscribers,
             CallStep(s) \/ WriteFails(s) \/ Abandon(s) \/ TakeMessage(s) \/ Leave(s)
      PROVE  RequestsTyped'
  BY <1>4 DEF CallStep, ReadSubscribed, ReadUnsubscribed, Return, CallFails, WriteFails, Abandon,
              TakeMessage, Leave, sockets
<1>5. ASSUME NEW s \in Subscribers,
             \/ ServerWorks(s) \/ ServerWrites(s) \/ ServerEnds(s)
             \/ \E ch \in Channels : ServerForwards(s, ch)
      PROVE  RequestsTyped'
  BY <1>5 DEF ServerWorks, ServerWrites, ServerEnds, ServerForwards
<1>6. CASE Published \/ UNCHANGED sessionVars
  BY <1>6 DEF Published, sessionVars
<1> QED
  BY <1>2, <1>3, <1>4, <1>5, <1>6 DEF SessionNext, ClientNext, ServerNext

\* A step of a session is a step of the server, or leaves its state alone.
LEMMA StepServes == RequestsTyped /\ [SessionNext]_sessionVars => [Next]_vars
<1> SUFFICES ASSUME RequestsTyped, [SessionNext]_sessionVars PROVE [Next]_vars
  OBVIOUS
<1>1. ASSUME NEW s \in Subscribers, ServerReads(s) PROVE Next
  <2>1. Head(requests[s]) \in Request
    BY <1>1 DEF ServerReads, RequestsTyped
  <2>2. Head(requests[s]).channels \in Lists
    BY <2>1 DEF Request
  <2> QED
    BY <1>1, <2>2 DEF ServerReads, Next, SubscriberNext
<1>2. ASSUME NEW s \in Subscribers,
             \/ ServerWorks(s) \/ ServerWrites(s) \/ ServerEnds(s)
             \/ \E ch \in Channels : ServerForwards(s, ch)
      PROVE  Next
  BY <1>2 DEF ServerWorks, ServerWrites, ServerEnds, ServerForwards, Next, SubscriberNext
<1>3. ASSUME NEW s \in Subscribers, ClientNext(s) PROVE UNCHANGED vars
  BY <1>3 DEF ClientNext, Join, CallSubscribe, CallUnsubscribe, Begin, CallStep, ReadSubscribed,
              ReadUnsubscribed, Return, CallFails, WriteFails, Abandon, TakeMessage, Leave
<1>4. CASE Published
  BY <1>4 DEF Published, Next
<1>5. CASE UNCHANGED sessionVars
  BY <1>5 DEF sessionVars
<1> QED
  BY <1>1, <1>2, <1>3, <1>4, <1>5 DEF SessionNext, ServerNext

\* A session implements PubSub's safety.
THEOREM ImplementsPubSub == SessionSafeSpec => SafeSpec
<1>1. SessionInit => Init /\ RequestsTyped
  BY DEF SessionInit, RequestsTyped
<1> QED
  BY <1>1, StepRequests, StepServes, PTL DEF SessionSafeSpec, SafeSpec

\* So its clients, whose requests are calls and whose frames wait in a socket, are
\* sent the messages of a channel in order and at most once each.
THEOREM SessionFeed == SessionSafeSpec => RefinesFeed
BY ImplementsPubSub, FeedRefinement, PTL

-------------------------------------------------------------------------------
(* In step: types.                                                         *)

\* The types of the client's variables, and of the frames it may be sent.
SessionTypes ==
  /\ client \in [Subscribers -> ClientStates]
  /\ listed \in [Subscribers -> Seq(Channels)]
  /\ argument \in [Subscribers -> Seq(Channels)]
  /\ left \in [Subscribers -> Nat]
  /\ inbound \in [Subscribers -> Seq(Confirmation \cup Message)]
  /\ failed \in [Subscribers -> BOOLEAN]
  /\ \A s \in Subscribers : out[s] # ErrorFrame

SessionOK == IInv /\ RequestsTyped /\ SessionTypes

\* A session begins well typed.
LEMMA SessionInitOK == SessionInit => SessionOK
<1> SUFFICES ASSUME SessionInit PROVE SessionOK
  OBVIOUS
<1>1. IInv /\ RequestsTyped
  BY InitIInv DEF SessionInit, RequestsTyped
<1>2. \A s \in Subscribers : out[s] = None
  BY DEF SessionInit, Init
<1>3. SessionTypes
  BY <1>2, Kinds DEF SessionInit, SessionTypes, ClientStates, Calling
<1> QED
  BY <1>1, <1>3 DEF SessionOK

\* The frame at hand is a confirmation or a message.
LEMMA FrameAtHand ==
  ASSUME SessionOK, NEW s \in Subscribers
  PROVE  out[s] # None => out[s] \in Confirmation \cup Message
BY DEF SessionOK, IInv, TypeOK, SessionTypes

\* Each step keeps the client's types, and the server writes no error frame into it:
\* a Subscriber sends nothing but SUBSCRIBE and UNSUBSCRIBE.
LEMMA StepSessionTypes == SessionOK /\ [SessionNext]_sessionVars => SessionTypes'
<1> SUFFICES ASSUME SessionOK, [SessionNext]_sessionVars PROVE SessionTypes'
  OBVIOUS
<1> USE DEF SessionTypes
<1>0. SessionTypes /\ TypeOK
  BY DEF SessionOK, IInv
<1>1. ASSUME NEW s \in Subscribers, NEW channels \in Lists,
             Join(s, channels) \/ CallSubscribe(s, channels) \/ CallUnsubscribe(s, channels)
      PROVE  SessionTypes'
  <2>1. channels \in Seq(Channels) /\ listed[s] \in Seq(Channels)
    BY <1>0, ListsAreSequences
  <2>2. Len(channels) \in Nat /\ Len(listed[s]) \in Nat
    BY <2>1
  <2>3. ASSUME NEW state \in Calling, NEW op, NEW num \in Nat, Begin(s, state, op, channels, num)
        PROVE  SessionTypes'
    BY <1>0, <2>1, <2>3 DEF Begin, vars, ClientStates
  <2> QED
    BY <1>1, <2>2, <2>3 DEF Join, CallSubscribe, CallUnsubscribe, Calling
<1>2. ASSUME NEW s \in Subscribers, ReadSubscribed(s) \/ TakeMessage(s) PROVE SessionTypes'
  <2>1. Tail(inbound[s]) \in Seq(Confirmation \cup Message)
    BY <1>0, <1>2 DEF ReadSubscribed, TakeMessage
  <2>2. failed' \in [Subscribers -> BOOLEAN] /\ client' \in [Subscribers -> ClientStates]
    BY <1>0, <1>2 DEF ReadSubscribed, TakeMessage, Fail, ClientStates
  <2>3. left' \in [Subscribers -> Nat]
    BY <1>0, <1>2 DEF ReadSubscribed, TakeMessage
  <2> QED
    BY <1>0, <1>2, <2>1, <2>2, <2>3 DEF ReadSubscribed, TakeMessage, vars
<1>3. ASSUME NEW s \in Subscribers, ReadUnsubscribed(s) PROVE SessionTypes'
  <2>1. Tail(inbound[s]) \in Seq(Confirmation \cup Message)
    BY <1>0, <1>3 DEF ReadUnsubscribed
  <2>2. Retained(s, Head(inbound[s]).channel) \in Seq(Channels)
    BY <1>0, WithoutKeeps DEF Retained
  <2>3. failed' \in [Subscribers -> BOOLEAN] /\ client' \in [Subscribers -> ClientStates]
    BY <1>0, <1>3 DEF ReadUnsubscribed, Fail, ClientStates
  <2>4. left' \in [Subscribers -> Nat]
    BY <1>0, <1>3 DEF ReadUnsubscribed
  <2> QED
    BY <1>0, <1>3, <2>1, <2>2, <2>3, <2>4 DEF ReadUnsubscribed, vars
<1>4. ASSUME NEW s \in Subscribers, Return(s) PROVE SessionTypes'
  <2>1. listed[s] \o argument[s] \in Seq(Channels)
    BY <1>0
  <2> QED
    BY <1>0, <1>4, <2>1 DEF Return, vars, ClientStates, sockets
<1>5. ASSUME NEW s \in Subscribers, CallFails(s) \/ WriteFails(s) \/ Abandon(s) \/ Leave(s)
      PROVE  SessionTypes'
  BY <1>0, <1>5 DEF CallFails, WriteFails, Abandon, Leave, Fail, vars, ClientStates, sockets
<1>6. ASSUME NEW s \in Subscribers, ServerReads(s) PROVE SessionTypes'
  <2>1. \A t \in Subscribers : out'[t] = out[t] \/ out'[t] = None
    BY <1>0, <1>6 DEF ServerReads, Subscribe, Unsubscribe, End, TypeOK
  <2> QED
    BY <1>0, <1>6, <2>1, Kinds DEF ServerReads, own
<1>7. ASSUME NEW s \in Subscribers, ServerWorks(s) PROVE SessionTypes'
  <2>1. \A t \in Subscribers : out'[t] = out[t] \/ out'[t].kind # "error"
    BY <1>0, <1>7 DEF ServerWorks, DbSubscribe, Insert, Remove, TypeOK
  <2> QED
    BY <1>0, <1>7, <2>1, Kinds DEF ServerWorks, own, sockets
<1>8. ASSUME NEW s \in Subscribers, NEW ch \in Channels, ServerForwards(s, ch) PROVE SessionTypes'
  <2>1. \A t \in Subscribers : out'[t] = out[t] \/ out'[t].kind # "error"
    BY <1>0, <1>8 DEF ServerForwards, NextMessage, TypeOK
  <2> QED
    BY <1>0, <1>8, <2>1, Kinds DEF ServerForwards, own, sockets
<1>9. ASSUME NEW s \in Subscribers, ServerWrites(s) PROVE SessionTypes'
  <2>1. Append(inbound[s], out[s]) \in Seq(Confirmation \cup Message)
    <3>1. out[s] \in Confirmation \cup Message /\ inbound[s] \in Seq(Confirmation \cup Message)
      BY <1>0, <1>9, FrameAtHand DEF ServerWrites, FrameWritten
    <3> QED
      BY <3>1
  <2>2. \A t \in Subscribers : out'[t] = out[t] \/ out'[t] = None
    BY <1>0, <1>9 DEF ServerWrites, FrameWritten, TypeOK
  <2> QED
    BY <1>0, <1>9, <2>1, <2>2, Kinds DEF ServerWrites, own
<1>10. ASSUME NEW s \in Subscribers, ServerEnds(s) PROVE SessionTypes'
  <2>1. \A t \in Subscribers : out'[t] = out[t] \/ out'[t] = None
    BY <1>0, <1>10 DEF ServerEnds, End, TypeOK
  <2>2. inbound' \in [Subscribers -> Seq(Confirmation \cup Message)]
    <3>1. <<>> \in Seq(Confirmation \cup Message)
      OBVIOUS
    <3>2. inbound' = inbound \/ inbound' = [inbound EXCEPT ![s] = <<>>]
      BY <1>10 DEF ServerEnds
    <3> QED
      BY <1>0, <3>1, <3>2
  <2> QED
    BY <1>0, <1>10, <2>1, <2>2, Kinds DEF ServerEnds, own
<1>11. CASE Published \/ UNCHANGED sessionVars
  BY <1>0, <1>11 DEF Published, Publish, sessionVars, vars, own, sockets
<1> QED
  BY <1>1, <1>2, <1>3, <1>4, <1>5, <1>6, <1>7, <1>8, <1>9, <1>10, <1>11
     DEF SessionNext, ClientNext, ServerNext, CallStep

\* Types and PubSub's invariant together are inductive.
LEMMA StepSessionOK == SessionOK /\ [SessionNext]_sessionVars => SessionOK'
BY StepSessionTypes, StepRequests, StepServes, StepIInv DEF SessionOK

-------------------------------------------------------------------------------
(* In step: the invariant.                                                 *)

\* The frames a client has yet to read, those of its call first.
AtHand(s) == IF out[s] = None THEN <<>> ELSE <<out[s]>>
Frames(s) == inbound[s] \o AtHand(s)

\* No message is among the first of them.
Clear(s, n) == \A i \in 1 .. n : Frames(s)[i].kind # "message"

\* Requests whose call does not wait for a confirmation: unsubscribing from all of
\* no channels, which the server answers with nothing, and subscribing to none,
\* which ends the connection.
NoOp   == [op |-> "unsubscribe", channels |-> <<>>]
Poison == [op |-> "subscribe", channels |-> <<>>]

OnlyNoOps(s, n) ==
  /\ \A i \in 1 .. n : requests[s][i] = NoOp
  /\ n > 0 => Subscribed(s) = {} /\ pc[s] # "serving"

\* The server is not at work at a request.
Quiet(s) == pending[s] = <<>> /\ pc[s] # "inserting"

\* The server has worked off all that asks for a confirmation.
Served(s) == Quiet(s) /\ pc[s] # "serving" /\ OnlyNoOps(s, Len(requests[s]))

\* The server will end the connection before any confirmation.
Doomed(s) ==
  /\ Quiet(s)
  /\ \E n \in DOMAIN requests[s] : requests[s][n] = Poison /\ OnlyNoOps(s, n - 1)

\* Client and server agree on a list, and no confirmation is under way.
Agreed(s, list) ==
  /\ Elements(list) = Subscribed(s)
  /\ \A i \in DOMAIN Frames(s) : Frames(s)[i].kind = "message"
  /\ Served(s) \/ Doomed(s)

\* The call waits for this frame in i-th place.
Expects(s, i, frame) ==
  IF client[s] = "unsubscribing" THEN frame.kind = "unsubscribe"
  ELSE /\ frame.kind = "subscribe"
       /\ frame.channel = argument[s][Len(argument[s]) - left[s] + i]

\* A call that unsubscribes from all of a list with a channel listed twice.
RepeatsAll(s) ==
  /\ client[s] = "unsubscribing"
  /\ left[s] = Len(listed[s])
  /\ Cardinality(Elements(listed[s])) # Len(listed[s])
  /\ pc[s] # "inserting"
  /\ pending[s] # <<>> => pc[s] = "unsubscribing"
  /\ \A i \in DOMAIN requests[s] : requests[s][i] = NoOp

\* A call that will fail or wait for the connection to end.
Hopeless(s) ==
  \/ \E i \in DOMAIN Frames(s) : i <= left[s] /\ Frames(s)[i].kind = "message"
  \/ Doomed(s) /\ Frames(s) = <<>>
  \/ RepeatsAll(s)

\* The request of the call is on its way.
InFlight(s) ==
  /\ Frames(s) = <<>>
  /\ Quiet(s)
  /\ client[s] # "joining" => pc[s] # "serving"
  /\ requests[s] # <<>>
  /\ OnlyNoOps(s, Len(requests[s]) - 1)
  /\ requests[s][Len(requests[s])] =
       [op |-> IF client[s] = "unsubscribing" THEN "unsubscribe" ELSE "subscribe",
        channels |-> argument[s]]
  /\ Elements(listed[s]) = Subscribed(s)
  /\ left[s] = IF client[s] = "unsubscribing" /\ argument[s] = <<>>
               THEN Cardinality(Subscribed(s)) ELSE Len(argument[s])

\* What is left of the list when the channels whose confirmations are under way are gone
\* is what the server still has.
Removes(s) ==
  /\ client[s] = "unsubscribing"
  /\ pc[s] = "unsubscribing"
  /\ Subscribed(s) = Elements(listed[s])
       \ {Frames(s)[i].channel : i \in {j \in DOMAIN Frames(s) : j <= left[s]}}

\* It adds a channel as it confirms it.
Adds(s) ==
  /\ client[s] # "unsubscribing"
  /\ pc[s] \in {"subscribing", "inserting"}
  /\ Len(pending[s]) <= Len(argument[s])
  /\ \A j \in DOMAIN pending[s] :
       pending[s][j] = argument[s][Len(argument[s]) - Len(pending[s]) + j]
  /\ Subscribed(s) = Elements(listed[s])
       \cup {argument[s][j] : j \in 1 .. Len(argument[s]) - Len(pending[s])}

\* The server works at the request of the call, or has: the confirmations the call
\* waits for are those under way and one for each channel still to do.
Processed(s) ==
  /\ requests[s] = <<>>
  /\ \A i \in DOMAIN Frames(s) : Frames(s)[i].kind = "message" <=> i > left[s]
  /\ Len(pending[s]) = IF Len(Frames(s)) < left[s] THEN left[s] - Len(Frames(s)) ELSE 0
  /\ Removes(s) \/ Adds(s)

\* The list once the call has returned.
ListAfter(s) ==
  IF client[s] = "unsubscribing" THEN listed[s] ELSE listed[s] \o argument[s]

\* The conversation of a call under way: as it stands, the frames under way are those it
\* expects until a message comes; it has read all of them, or there is more to come, or
\* it cannot succeed.
InCall(s) ==
  /\ client[s] # "unsubscribing" => left[s] <= Len(argument[s])
  /\ \A i \in DOMAIN Frames(s) :
       i <= left[s] /\ Clear(s, i) => Expects(s, i, Frames(s)[i])
  /\ left[s] = 0 => Agreed(s, ListAfter(s))
  /\ left[s] > 0 => Hopeless(s) \/ InFlight(s) \/ Processed(s)

\* A Client that has not become a Subscriber.
Fresh(s) ==
  /\ requests[s] = <<>> /\ Frames(s) = <<>> /\ listed[s] = <<>>
  /\ pc[s] = "serving" /\ pending[s] = <<>> /\ Subscribed(s) = {}

\* The invariant of a client none of whose calls has failed.
Conversation(s) ==
  ~failed[s] /\ pc[s] # "ended" =>
    /\ client[s] = "client" => Fresh(s)
    /\ client[s] = "idle" => Agreed(s, listed[s])
    /\ client[s] \in Calling => InCall(s)

SessionIInv == \A s \in Subscribers : Conversation(s)

-------------------------------------------------------------------------------
(* In step: what steps do to the frames.                                   *)

\* Every frame a client has yet to read is a confirmation or a message.
LEMMA FramesTyped ==
  ASSUME SessionOK, NEW s \in Subscribers
  PROVE  /\ Frames(s) \in Seq(Confirmation \cup Message)
         /\ inbound[s] \in Seq(Confirmation \cup Message)
         /\ AtHand(s) \in Seq(Confirmation \cup Message)
<1>1. inbound[s] \in Seq(Confirmation \cup Message)
  BY DEF SessionOK, SessionTypes
<1>2. AtHand(s) \in Seq(Confirmation \cup Message)
  <2>1. CASE out[s] = None
    BY <2>1 DEF AtHand
  <2>2. CASE out[s] # None
    <3>1. out[s] \in Confirmation \cup Message
      BY <2>2, FrameAtHand
    <3> QED
      BY <2>2, <3>1 DEF AtHand
  <2> QED
    BY <2>1, <2>2
<1> QED
  BY <1>1, <1>2 DEF Frames

\* The client reads the first.
LEMMA FramesRead ==
  ASSUME SessionOK, NEW s \in Subscribers,
         inbound[s] # <<>>, inbound'[s] = Tail(inbound[s]), out'[s] = out[s]
  PROVE  /\ Frames(s) # <<>>
         /\ Frames(s)[1] = Head(inbound[s])
         /\ Frames(s)' = Tail(Frames(s))
<1> DEFINE o == AtHand(s)
           in == inbound[s]
           V  == Confirmation \cup Message
<1>1. in \in Seq(V) /\ o \in Seq(V) /\ in # <<>>
  BY FramesTyped
<1>2. Frames(s) = in \o o /\ Frames(s)' = Tail(in) \o o
  BY DEF Frames, AtHand
<1> HIDE DEF o, in, V
<1>3. in \o o # <<>> /\ (in \o o)[1] = Head(in)
  BY <1>1
<1>4. Tail(in) \o o = Tail(in \o o)
  BY <1>1
<1> QED
  BY <1>2, <1>3, <1>4 DEF in

\* The server has another to write.
LEMMA FramesAppended ==
  ASSUME SessionOK, NEW s \in Subscribers,
         inbound'[s] = inbound[s], out[s] = None, out'[s] # None
  PROVE  Frames(s)' = Append(Frames(s), out'[s])
<1>1. inbound[s] \in Seq(Confirmation \cup Message)
  BY FramesTyped
<1>2. Frames(s) = inbound[s] /\ Frames(s)' = inbound[s] \o <<out'[s]>>
  BY <1>1 DEF Frames, AtHand
<1>3. inbound[s] \o <<out'[s]>> = Append(inbound[s], out'[s])
  BY <1>1
<1> QED
  BY <1>2, <1>3

\* The one at hand is written.
LEMMA FramesWritten ==
  ASSUME SessionOK, NEW s \in Subscribers,
         out[s] # None, out'[s] = None, inbound'[s] = Append(inbound[s], out[s])
  PROVE  Frames(s)' = Frames(s)
<1>1. inbound[s] \in Seq(Confirmation \cup Message) /\ out[s] \in Confirmation \cup Message
  BY FramesTyped, FrameAtHand
<1>2. Append(inbound[s], out[s]) \o <<>> = inbound[s] \o <<out[s]>>
  BY <1>1
<1> QED
  BY <1>2 DEF Frames, AtHand

\* What a step that leaves a subscriber's server and client alone does not change.
Whole(s) ==
  <<client[s], listed[s], argument[s], left[s], requests[s], Frames(s), failed[s],
    pc[s], pending[s], Subscribed(s)>>

\* A conversation depends on nothing but these.
LEMMA UntouchedConversation ==
  ASSUME NEW s \in Subscribers, Conversation(s), UNCHANGED Whole(s)
  PROVE  Conversation(s)'
<1> USE DEF Whole
<1>1. Fresh(s) => Fresh(s)'
  BY DEF Fresh
<1>2. ASSUME NEW n, OnlyNoOps(s, n) PROVE OnlyNoOps(s, n)'
  BY <1>2 DEF OnlyNoOps
<1>3. (Served(s) => Served(s)') /\ (Doomed(s) => Doomed(s)')
  BY <1>2 DEF Served, Doomed, Quiet
<1>4. ASSUME NEW list, Agreed(s, list) PROVE Agreed(s, list)'
  BY <1>3, <1>4 DEF Agreed
<1>5. ListAfter(s)' = ListAfter(s)
  BY DEF ListAfter
<1>6. InCall(s) => InCall(s)'
  <2>1. Hopeless(s) => Hopeless(s)'
    BY <1>3 DEF Hopeless, RepeatsAll
  <2>2. InFlight(s) => InFlight(s)'
    BY <1>2 DEF InFlight, Quiet
  <2>3. Processed(s) => Processed(s)'
    <3>1. Removes(s) => Removes(s)'
      BY DEF Removes
    <3>2. Adds(s) => Adds(s)'
      BY DEF Adds
    <3> QED
      BY <3>1, <3>2 DEF Processed
  <2> QED
    BY <2>1, <2>2, <2>3, <1>4, <1>5 DEF InCall, Clear, Expects
<1> QED
  BY <1>1, <1>4, <1>6 DEF Conversation

-------------------------------------------------------------------------------
(* In step: what a step of the client preserves.                           *)

\* What the types and PubSub's invariant say of one session.
LEMMA SessionFacts ==
  ASSUME SessionOK, NEW s \in Subscribers
  PROVE  /\ requests[s] \in Seq(Request)
         /\ Frames(s) \in Seq(Confirmation \cup Message)
         /\ listed[s] \in Seq(Channels) /\ argument[s] \in Seq(Channels)
         /\ pending[s] \in Seq(Channels) /\ left[s] \in Nat
         /\ client[s] \in ClientStates /\ pc[s] \in TaskStates
         /\ Subscribed(s) \subseteq Channels
         /\ pc[s] = "inserting" => pending[s] # <<>> /\ out[s] = None
BY FramesTyped DEF SessionOK, RequestsTyped, SessionTypes, IInv, TypeOK, Consistent, InsertReady,
                   Subscribed

\* A call writes a request whose confirmations are to be read behind messages alone.
LEMMA CallsInStep ==
  ASSUME SessionOK, NEW s \in Subscribers, Agreed(s, listed[s]),
         NEW state \in {"subscribing", "unsubscribing"}, NEW channels \in Seq(Channels),
         Begin(s, state, IF state = "subscribing" THEN "subscribe" ELSE "unsubscribe", channels,
               IF state = "unsubscribing" /\ channels = <<>> THEN Len(listed[s])
               ELSE Len(channels))
  PROVE  InCall(s)'
<1> DEFINE r == [op |-> IF state = "subscribing" THEN "subscribe" ELSE "unsubscribe",
                 channels |-> channels]
           k == IF state = "unsubscribing" /\ channels = <<>> THEN Len(listed[s])
                ELSE Len(channels)
<1>n. PICK n \in Nat : n = Len(requests[s])
  BY SessionFacts
<1>1. /\ client'[s] = state /\ argument'[s] = channels /\ left'[s] = k
      /\ requests'[s] = Append(requests[s], r)
      /\ listed'[s] = listed[s] /\ pc'[s] = pc[s] /\ pending'[s] = pending[s]
      /\ Frames(s)' = Frames(s) /\ Subscribed(s)' = Subscribed(s)
  BY DEF Begin, vars, SessionOK, SessionTypes, RequestsTyped, Frames, AtHand, Subscribed
<1>2. /\ k \in Nat /\ requests[s] \in Seq(Request) /\ Len(requests'[s]) = n + 1
      /\ DOMAIN requests'[s] = 1 .. n + 1 /\ DOMAIN requests[s] = 1 .. n
      /\ requests'[s][n + 1] = r
      /\ \A i \in 1 .. n : requests'[s][i] = requests[s][i]
      /\ requests'[s] # <<>>
  <2>1. requests[s] \in Seq(Request) /\ k \in Nat
    BY SessionFacts
  <2> HIDE DEF r, k
  <2> QED
    BY <1>1, <1>n, <2>1, AppendEntries
<1>3. ASSUME NEW m \in 0 .. n, OnlyNoOps(s, m) PROVE OnlyNoOps(s, m)'
  BY <1>1, <1>2, <1>3 DEF OnlyNoOps
<1>4. Doomed(s) => Doomed(s)'
  <2> SUFFICES ASSUME Doomed(s) PROVE Doomed(s)'
    OBVIOUS
  <2>1. PICK m \in 1 .. n : requests[s][m] = Poison /\ OnlyNoOps(s, m - 1)
    BY <1>2 DEF Doomed
  <2>2. requests'[s][m] = Poison /\ OnlyNoOps(s, m - 1)' /\ m \in DOMAIN requests'[s]
    BY <1>1, <1>2, <1>3, <2>1
  <2> QED
    BY <1>1, <2>2 DEF Doomed, Quiet
<1>5. Served(s) => OnlyNoOps(s, n)' /\ OnlyNoOps(s, n) /\ Quiet(s)' /\ pc'[s] # "serving"
  BY <1>1, <1>2, <1>3, <1>n DEF Served, Quiet
<1>6. \A i \in DOMAIN Frames(s) : Frames(s)[i].kind = "message"
  BY DEF Agreed
<1>7. Frames(s) = <<>> \/ 1 \in DOMAIN Frames(s)
  BY SessionFacts
<1>8. (client[s] # "unsubscribing" => left[s] <= Len(argument[s]))'
  BY <1>1, <1>2
<1>9. ASSUME NEW i \in DOMAIN Frames(s)' PROVE ~Clear(s, i)'
  <2>1. 1 \in 1 .. i /\ 1 \in DOMAIN Frames(s)
    BY <1>1, SessionFacts
  <2> QED
    BY <1>1, <1>6, <2>1 DEF Clear
<1>10. CASE k = 0
  <2>1. channels = <<>> /\ (state = "unsubscribing" => listed[s] = <<>>)
    BY <1>10, SessionFacts
  <2>2. ListAfter(s)' = listed[s]
    BY <1>1, <2>1, SessionFacts DEF ListAfter
  <2>3. ASSUME Served(s), state = "subscribing" PROVE Doomed(s)'
    <3>1. requests'[s][n + 1] = Poison /\ n + 1 \in DOMAIN requests'[s]
      BY <1>2, <2>1, <2>3 DEF Poison
    <3>2. OnlyNoOps(s, (n + 1) - 1)'
      BY <1>2, <1>5, <2>3
    <3> QED
      BY <1>5, <2>3, <3>1, <3>2 DEF Doomed
  <2>4. ASSUME Served(s), state = "unsubscribing" PROVE Served(s)'
    <3>1. r = NoOp
      BY <2>1, <2>4 DEF NoOp
    <3>2. Subscribed(s) = {}
      BY <2>1, <2>4 DEF Agreed, Elements
    <3>3. OnlyNoOps(s, n + 1)'
      BY <1>1, <1>2, <1>5, <2>4, <3>1, <3>2 DEF OnlyNoOps
    <3> QED
      BY <1>2, <1>5, <2>4, <3>3 DEF Served
  <2>5. (Served(s) \/ Doomed(s))'
    BY <1>4, <2>3, <2>4 DEF Agreed
  <2>6. Agreed(s, ListAfter(s))'
    BY <1>1, <2>2, <2>5 DEF Agreed
  <2> QED
    BY <1>1, <1>8, <1>9, <1>10, <2>6 DEF InCall
<1>11. CASE k > 0 /\ Frames(s) # <<>>
  <2>1. Hopeless(s)'
    <3>1. 1 <= k /\ 1 \in DOMAIN Frames(s)
      BY <1>2, <1>7, <1>11
    <3> QED
      BY <1>1, <1>6, <3>1 DEF Hopeless
  <2> QED
    BY <1>1, <1>2, <1>8, <1>9, <1>11, <2>1 DEF InCall
<1>12. CASE k > 0 /\ Frames(s) = <<>>
  <2>1. ASSUME Doomed(s) PROVE Hopeless(s)'
    BY <1>1, <1>4, <1>12, <2>1 DEF Hopeless
  <2>2. ASSUME Served(s),
               \/ ~(state = "unsubscribing" /\ channels = <<>>)
               \/ Cardinality(Elements(listed[s])) = Len(listed[s])
        PROVE  InFlight(s)'
    <3>1. requests'[s][Len(requests'[s])] = r /\ OnlyNoOps(s, Len(requests[s]) - 1)'
      BY <1>2, <1>5, <2>2
    <3>2. Elements(listed[s]) = Subscribed(s)
      BY DEF Agreed
    <3>3. k = IF state = "unsubscribing" /\ channels = <<>> THEN Cardinality(Subscribed(s))
              ELSE Len(channels)
      BY <2>2, <3>2
    <3> QED
      BY <1>1, <1>2, <1>5, <1>12, <2>2, <3>1, <3>2, <3>3 DEF InFlight
  <2>3. ASSUME Served(s), state = "unsubscribing", channels = <<>>,
               Cardinality(Elements(listed[s])) # Len(listed[s])
        PROVE  Hopeless(s)'
    <3>1. r = NoOp
      BY <2>3 DEF NoOp
    <3>2. \A i \in DOMAIN requests'[s] : requests'[s][i] = NoOp
      BY <1>1, <1>2, <1>5, <2>3, <3>1 DEF OnlyNoOps
    <3>3. RepeatsAll(s)'
      BY <1>1, <1>5, <2>3, <3>2 DEF RepeatsAll, Quiet
    <3> QED
      BY <3>3 DEF Hopeless
  <2>4. Hopeless(s)' \/ InFlight(s)'
    BY <2>1, <2>2, <2>3 DEF Agreed
  <2> QED
    BY <1>1, <1>2, <1>8, <1>9, <1>12, <2>4 DEF InCall
<1> QED
  BY <1>2, <1>10, <1>11, <1>12

\* Client::subscribe turns the Client into a Subscriber with its first call under way.
LEMMA JoinConversation ==
  ASSUME SessionOK, NEW s \in Subscribers, Fresh(s), NEW channels \in Seq(Channels),
         Join(s, channels)
  PROVE  InCall(s)'
<1> DEFINE r == [op |-> "subscribe", channels |-> channels]
<1>1. /\ client'[s] = "joining" /\ argument'[s] = channels /\ left'[s] = Len(channels)
      /\ requests'[s] = Append(requests[s], r)
      /\ listed'[s] = listed[s] /\ pc'[s] = pc[s] /\ pending'[s] = pending[s]
      /\ Frames(s)' = Frames(s) /\ Subscribed(s)' = Subscribed(s)
  BY DEF Join, Begin, vars, SessionOK, SessionTypes, RequestsTyped, Frames, AtHand, Subscribed
<1>2. requests'[s] = <<r>> /\ Len(requests'[s]) = 1 /\ Len(channels) \in Nat
  <2>1. Append(<<>>, r) = <<r>>
    OBVIOUS
  <2> QED
    BY <1>1, <2>1 DEF Fresh
<1>3. OnlyNoOps(s, 0)'
  BY DEF OnlyNoOps
<1>4. Elements(<<>>) = {} /\ Quiet(s)'
  BY <1>1 DEF Elements, Fresh, Quiet
<1>5. CASE channels = <<>>
  <2>1. Doomed(s)'
    <3>1. r = Poison /\ 1 \in DOMAIN requests'[s] /\ requests'[s][1] = r
      BY <1>2, <1>5 DEF Poison
    <3>2. OnlyNoOps(s, 1 - 1)'
      BY <1>3
    <3> QED
      BY <1>4, <3>1, <3>2 DEF Doomed
  <2>2. ListAfter(s)' = <<>>
    BY <1>1, <1>5 DEF ListAfter, Fresh
  <2>3. Agreed(s, ListAfter(s))'
    BY <1>1, <1>4, <2>1, <2>2 DEF Agreed, Fresh
  <2> QED
    BY <1>1, <1>5, <2>3 DEF InCall, Fresh
<1>6. CASE channels # <<>>
  <2>1. OnlyNoOps(s, Len(requests[s]) - 1)'
    BY <1>2, <1>3
  <2>2. InFlight(s)'
    BY <1>1, <1>2, <1>4, <1>6, <2>1 DEF InFlight, Fresh
  <2> QED
    BY <1>1, <1>2, <1>6, <2>2 DEF InCall, Fresh
<1> QED
  BY <1>5, <1>6

\* next_message() takes a message from an Agreed conversation.
LEMMA TakeInStep ==
  ASSUME SessionOK, NEW s \in Subscribers, Agreed(s, listed[s]), TakeMessage(s)
  PROVE  Agreed(s, listed[s])'
<1>1. /\ requests'[s] = requests[s] /\ listed'[s] = listed[s] /\ pc'[s] = pc[s]
      /\ pending'[s] = pending[s] /\ Subscribed(s)' = Subscribed(s)
      /\ Frames(s) # <<>> /\ Frames(s)' = Tail(Frames(s))
  BY FramesRead DEF TakeMessage, vars, SessionOK, SessionTypes, Subscribed
<1>2. \A i \in DOMAIN Frames(s)' : i + 1 \in DOMAIN Frames(s) /\ Frames(s)'[i] = Frames(s)[i + 1]
  BY <1>1, FramesTyped, TailEntries
<1>3. (Served(s) => Served(s)') /\ (Doomed(s) => Doomed(s)')
  BY <1>1 DEF Served, Doomed, Quiet, OnlyNoOps
<1> QED
  BY <1>1, <1>2, <1>3 DEF Agreed

\* The frames after the first, when a call has read it and waits for one less.
LEMMA FramesAfterFirst ==
  ASSUME SessionOK, NEW s \in Subscribers, left[s] > 0,
         inbound[s] # <<>>, inbound'[s] = Tail(inbound[s]), out'[s] = out[s],
         Head(inbound[s]).kind # "message"
  PROVE  /\ Frames(s) # <<>> /\ Len(Frames(s)) \in Nat \ {0}
         /\ Len(Frames(s)') = Len(Frames(s)) - 1
         /\ DOMAIN Frames(s) = 1 .. Len(Frames(s))
         /\ DOMAIN Frames(s)' = 1 .. Len(Frames(s)) - 1
         /\ \A i \in DOMAIN Frames(s)' : Frames(s)'[i] = Frames(s)[i + 1]
         /\ Frames(s)[1] = Head(inbound[s])
         /\ \A i \in DOMAIN Frames(s)' : Clear(s, i)' => Clear(s, i + 1)
<1>1. /\ Frames(s) # <<>> /\ Frames(s)[1] = Head(inbound[s]) /\ Frames(s)' = Tail(Frames(s))
  BY FramesRead
<1>2. /\ Len(Frames(s)) \in Nat \ {0}
      /\ Len(Frames(s)') = Len(Frames(s)) - 1
      /\ DOMAIN Frames(s) = 1 .. Len(Frames(s))
      /\ DOMAIN Frames(s)' = 1 .. Len(Frames(s)) - 1
      /\ \A i \in DOMAIN Frames(s)' : Frames(s)'[i] = Frames(s)[i + 1]
  BY <1>1, FramesTyped, TailEntries
<1>3. ASSUME NEW i \in DOMAIN Frames(s)', Clear(s, i)' PROVE Clear(s, i + 1)
  <2> SUFFICES ASSUME NEW j \in 1 .. i + 1 PROVE Frames(s)[j].kind # "message"
    BY DEF Clear
  <2>1. CASE j = 1
    BY <1>1, <2>1
  <2>2. CASE j # 1
    <3>1. j - 1 \in 1 .. i /\ j - 1 \in DOMAIN Frames(s)' /\ (j - 1) + 1 = j
      BY <1>2, <1>3, <2>2
    <3>2. Frames(s)'[j - 1] = Frames(s)[j]
      BY <1>2, <3>1
    <3> QED
      BY <1>3, <3>1, <3>2 DEF Clear
  <2> QED
    BY <2>1, <2>2
<1> QED
  BY <1>1, <1>2, <1>3

\* subscribe_cmd() reads the confirmation it waits for.
LEMMA SubscribedInStep ==
  ASSUME SessionOK, NEW s \in Subscribers, InCall(s), ReadSubscribed(s),
         Confirms(s, Head(inbound[s])), left' = [left EXCEPT ![s] = @ - 1], UNCHANGED client
  PROVE  InCall(s)'
<1> DEFINE n == Len(Frames(s))
<1>1. /\ client'[s] = client[s] /\ argument'[s] = argument[s] /\ left'[s] = left[s] - 1
      /\ requests'[s] = requests[s] /\ listed'[s] = listed[s] /\ pc'[s] = pc[s]
      /\ pending'[s] = pending[s] /\ Subscribed(s)' = Subscribed(s)
      /\ client[s] # "unsubscribing" /\ left[s] > 0
      /\ inbound[s] # <<>> /\ inbound'[s] = Tail(inbound[s]) /\ out'[s] = out[s]
      /\ Head(inbound[s]).kind # "message"
  BY DEF ReadSubscribed, Confirms, vars, SessionOK, SessionTypes, Subscribed
<1>2. /\ Frames(s) # <<>> /\ n \in Nat \ {0} /\ Len(Frames(s)') = n - 1
      /\ DOMAIN Frames(s) = 1 .. n /\ DOMAIN Frames(s)' = 1 .. n - 1
      /\ \A i \in DOMAIN Frames(s)' : Frames(s)'[i] = Frames(s)[i + 1]
      /\ Frames(s)[1].kind # "message"
      /\ \A i \in DOMAIN Frames(s)' : Clear(s, i)' => Clear(s, i + 1)
  BY <1>1, FramesAfterFirst
<1>3. /\ left[s] \in Nat /\ Len(argument[s]) \in Nat /\ left[s] <= Len(argument[s])
      /\ DOMAIN pending[s] = 1 .. Len(pending[s]) /\ Len(pending[s]) \in Nat
      /\ argument[s] \in Seq(Channels) /\ listed[s] \in Seq(Channels)
      /\ pc[s] = "inserting" => pending[s] # <<>>
  BY <1>1, SessionFacts DEF InCall
<1>4. ASSUME NEW i \in DOMAIN Frames(s)', i <= left'[s], Clear(s, i)'
      PROVE  Expects(s, i, Frames(s)[i])'
  <2>1. i + 1 \in DOMAIN Frames(s) /\ i + 1 <= left[s] /\ Clear(s, i + 1)
    BY <1>1, <1>2, <1>3, <1>4
  <2>2. Expects(s, i + 1, Frames(s)[i + 1])
    BY <2>1 DEF InCall
  <2>3. Len(argument[s]) - left[s] + (i + 1) = Len(argument[s]) - (left[s] - 1) + i
    <3>1. i \in Nat
      BY <1>2
    <3>2. \A a, b \in Int : a - b + (i + 1) = a - (b - 1) + i
      BY <3>1
    <3>3. Len(argument[s]) \in Int /\ left[s] \in Int
      BY <1>3
    <3> QED
      BY <3>2, <3>3, Zenon
  <2> QED
    BY <1>1, <1>2, <2>2, <2>3 DEF Expects
<1>5. (\E i \in DOMAIN Frames(s) : i <= left[s] /\ Frames(s)[i].kind = "message")
        => \E i \in DOMAIN Frames(s)' : i <= left'[s] /\ Frames(s)'[i].kind = "message"
  <2> SUFFICES ASSUME NEW i \in DOMAIN Frames(s), i <= left[s], Frames(s)[i].kind = "message"
               PROVE  i - 1 \in DOMAIN Frames(s)' /\ i - 1 <= left'[s]
                        /\ Frames(s)'[i - 1].kind = "message"
    OBVIOUS
  <2>1. i # 1 /\ i - 1 \in DOMAIN Frames(s)' /\ (i - 1) + 1 = i
    BY <1>2
  <2> QED
    BY <1>1, <1>2, <1>3, <2>1
<1>6. (\E i \in DOMAIN Frames(s) : i <= left[s] /\ Frames(s)[i].kind = "message") \/ Processed(s)
  BY <1>1, <1>2 DEF InCall, Hopeless, RepeatsAll, InFlight
<1>7. CASE Processed(s)
  <2>1. \A i \in DOMAIN Frames(s)' : Frames(s)'[i].kind = "message" <=> i > left'[s]
    <3> SUFFICES ASSUME NEW i \in DOMAIN Frames(s)'
                 PROVE  Frames(s)'[i].kind = "message" <=> i > left'[s]
      OBVIOUS
    <3>1. i + 1 \in DOMAIN Frames(s) /\ Frames(s)'[i] = Frames(s)[i + 1]
      BY <1>2
    <3>2. Frames(s)[i + 1].kind = "message" <=> i + 1 > left[s]
      BY <1>7, <3>1 DEF Processed
    <3> QED
      BY <1>1, <1>2, <1>3, <3>1, <3>2
  <2>2. Adds(s) /\ Adds(s)'
    BY <1>1, <1>7 DEF Processed, Adds, Removes
  <2>3. Len(pending[s]) = IF n < left[s] THEN left[s] - n ELSE 0
    BY <1>7 DEF Processed
  <2>4. Len(pending'[s]) = IF Len(Frames(s)') < left'[s] THEN left'[s] - Len(Frames(s)') ELSE 0
    BY <1>1, <1>2, <1>3, <2>3
  <2>5. Processed(s)'
    BY <1>1, <1>7, <2>1, <2>2, <2>4 DEF Processed
  <2>6. ASSUME left'[s] = 0 PROVE Agreed(s, ListAfter(s))'
    <3>1. Len(pending[s]) = 0 /\ pending[s] = <<>>
      BY <1>1, <1>2, <1>3, <2>3, <2>6, SessionFacts
    <3>2. Subscribed(s) = Elements(listed[s]) \cup Elements(argument[s])
      <4>1. 1 .. Len(argument[s]) - Len(pending[s]) = DOMAIN argument[s]
        BY <1>3, <3>1
      <4>2. Elements(argument[s]) = {argument[s][j] : j \in DOMAIN argument[s]}
        BY DEF Elements
      <4> QED
        BY <2>2, <4>1, <4>2 DEF Adds
    <3>3. Elements(listed[s] \o argument[s]) = Subscribed(s)
      BY <1>3, <3>2, ElementsConcat
    <3>4. Served(s)'
      BY <1>1, <1>3, <1>7, <2>2, <3>1 DEF Served, Quiet, OnlyNoOps, Processed, Adds
    <3>5. ListAfter(s)' = listed[s] \o argument[s]
      BY <1>1 DEF ListAfter
    <3>6. \A i \in DOMAIN Frames(s)' : Frames(s)'[i].kind = "message"
      BY <1>2, <2>1, <2>6
    <3> QED
      BY <1>1, <3>3, <3>4, <3>5, <3>6 DEF Agreed
  <2> QED
    BY <1>1, <1>3, <1>4, <2>5, <2>6 DEF InCall
<1>8. CASE \E i \in DOMAIN Frames(s) : i <= left[s] /\ Frames(s)[i].kind = "message"
  <2>1. Hopeless(s)' /\ left'[s] # 0
    BY <1>5, <1>8, <1>2 DEF Hopeless
  <2> QED
    BY <1>1, <1>3, <1>4, <2>1 DEF InCall
<1> QED
  BY <1>6, <1>7, <1>8

\* unsubscribe() reads a confirmation that is for one entry of the list.
LEMMA UnsubscribedInStep ==
  ASSUME SessionOK, NEW s \in Subscribers, InCall(s), ReadUnsubscribed(s),
         Head(inbound[s]).kind = "unsubscribe",
         Len(Retained(s, Head(inbound[s]).channel)) = Len(listed[s]) - 1,
         listed' = [listed EXCEPT ![s] = Retained(s, Head(inbound[s]).channel)],
         left' = [left EXCEPT ![s] = @ - 1], UNCHANGED client
  PROVE  InCall(s)'
<1> DEFINE n == Len(Frames(s))
           ch == Head(inbound[s]).channel
           L == listed'[s]
<1>1. /\ client'[s] = client[s] /\ left'[s] = left[s] - 1
      /\ requests'[s] = requests[s] /\ L = Retained(s, ch) /\ pc'[s] = pc[s]
      /\ pending'[s] = pending[s] /\ Subscribed(s)' = Subscribed(s)
      /\ client[s] = "unsubscribing" /\ left[s] > 0
      /\ inbound[s] # <<>> /\ inbound'[s] = Tail(inbound[s]) /\ out'[s] = out[s]
      /\ Head(inbound[s]).kind # "message"
  BY DEF ReadUnsubscribed, vars, SessionOK, SessionTypes, Subscribed
<1>2. /\ Frames(s) # <<>> /\ n \in Nat \ {0} /\ Len(Frames(s)') = n - 1
      /\ DOMAIN Frames(s) = 1 .. n /\ DOMAIN Frames(s)' = 1 .. n - 1
      /\ \A i \in DOMAIN Frames(s)' : Frames(s)'[i] = Frames(s)[i + 1]
      /\ Frames(s)[1].kind # "message" /\ Frames(s)[1].channel = ch
      /\ \A i \in DOMAIN Frames(s)' : Clear(s, i)' => Clear(s, i + 1)
  BY <1>1, FramesAfterFirst
<1>3. left[s] \in Nat /\ Len(pending[s]) \in Nat /\ listed[s] \in Seq(Channels)
  BY SessionFacts
<1>4. /\ Elements(L) = Elements(listed[s]) \ {ch}
      /\ Len(L) = Len(listed[s]) - 1 /\ Len(listed[s]) \in Nat
      /\ ch \in Elements(listed[s]) /\ L \in Seq(Channels)
  <2>1. L = Without(listed[s], ch) /\ Len(L) = Len(listed[s]) - 1
    BY <1>1 DEF Retained
  <2> HIDE DEF L, ch
  <2>2. L \in Seq(Channels) /\ Elements(L) = Elements(listed[s]) \ {ch}
    BY <1>3, <2>1, WithoutKeeps
  <2>3. ch \in Elements(listed[s])
    BY <1>3, <2>1, WithoutOne
  <2> QED
    BY <1>3, <2>1, <2>2, <2>3
<1>5. ASSUME NEW i \in DOMAIN Frames(s)', i <= left'[s], Clear(s, i)'
      PROVE  Expects(s, i, Frames(s)[i])'
  <2>1. i + 1 \in DOMAIN Frames(s) /\ i + 1 <= left[s] /\ Clear(s, i + 1)
    BY <1>1, <1>2, <1>3, <1>5
  <2>2. Expects(s, i + 1, Frames(s)[i + 1])
    BY <2>1 DEF InCall
  <2> QED
    BY <1>1, <1>2, <2>2 DEF Expects
<1>6. CASE \E i \in DOMAIN Frames(s) : i <= left[s] /\ Frames(s)[i].kind = "message"
  <2>1. PICK i \in DOMAIN Frames(s) : i <= left[s] /\ Frames(s)[i].kind = "message"
    BY <1>6
  <2>2. i # 1 /\ i - 1 \in DOMAIN Frames(s)' /\ (i - 1) + 1 = i
    BY <1>2, <2>1
  <2>3. i - 1 <= left'[s] /\ Frames(s)'[i - 1].kind = "message" /\ left'[s] # 0
    BY <1>1, <1>2, <1>3, <2>1, <2>2
  <2>4. Hopeless(s)'
    BY <2>2, <2>3 DEF Hopeless
  <2> QED
    BY <1>1, <1>5, <2>3, <2>4 DEF InCall
<1>7. CASE RepeatsAll(s)
  <2>1. IsFiniteSet(Elements(listed[s])) /\ IsFiniteSet(Elements(L))
    BY <1>3, <1>4, ElementsFinite, FS_RemoveElement
  <2>2. Cardinality(Elements(listed[s])) \in Nat /\ Cardinality(Elements(L)) \in Nat
    BY <2>1, FS_CardinalityType
  <2>3. Cardinality(Elements(L)) = Cardinality(Elements(listed[s])) - 1
    BY <1>4, <2>1, FS_RemoveElement
  <2>4. Cardinality(Elements(L)) # Len(L)
    BY <1>4, <1>7, <2>2, <2>3 DEF RepeatsAll
  <2>5. RepeatsAll(s)'
    BY <1>1, <1>3, <1>4, <1>7, <2>4 DEF RepeatsAll
  <2>6. left'[s] # 0
    <3> SUFFICES ASSUME left'[s] = 0 PROVE FALSE
      OBVIOUS
    <3>1. Len(L) = 0
      BY <1>1, <1>4, <1>7, <2>5 DEF RepeatsAll
    <3>2. Cardinality(Elements(L)) <= Len(L)
      BY <1>4, ElementsFinite
    <3> QED
      BY <2>2, <2>4, <3>1, <3>2
  <2> QED
    BY <1>1, <1>5, <2>5, <2>6 DEF InCall, Hopeless
<1>8. CASE Processed(s)
  <2>1. \A i \in DOMAIN Frames(s)' : Frames(s)'[i].kind = "message" <=> i > left'[s]
    <3> SUFFICES ASSUME NEW i \in DOMAIN Frames(s)'
                 PROVE  Frames(s)'[i].kind = "message" <=> i > left'[s]
      OBVIOUS
    <3>1. i + 1 \in DOMAIN Frames(s) /\ Frames(s)'[i] = Frames(s)[i + 1]
      BY <1>2
    <3>2. Frames(s)[i + 1].kind = "message" <=> i + 1 > left[s]
      BY <1>8, <3>1 DEF Processed
    <3> QED
      BY <1>1, <1>2, <1>3, <3>1, <3>2
  <2>2. Removes(s)
    BY <1>1, <1>8 DEF Processed, Adds
  <2>3. Len(pending[s]) = IF n < left[s] THEN left[s] - n ELSE 0
    BY <1>8 DEF Processed
  <2>4. Len(pending'[s]) = IF Len(Frames(s)') < left'[s] THEN left'[s] - Len(Frames(s)') ELSE 0
    BY <1>1, <1>2, <1>3, <2>3
  <2> DEFINE C == {Frames(s)[i].channel : i \in {j \in DOMAIN Frames(s) : j <= left[s]}}
             D == {Frames(s)'[i].channel : i \in {j \in DOMAIN Frames(s)' : j <= left'[s]}}
  <2>5. C \subseteq D \cup {ch}
    <3> SUFFICES ASSUME NEW i \in DOMAIN Frames(s), i <= left[s], i # 1
                 PROVE  Frames(s)[i].channel \in D
      BY <1>2
    <3>1. i - 1 \in DOMAIN Frames(s)' /\ (i - 1) + 1 = i /\ i - 1 <= left'[s]
      BY <1>1, <1>2, <1>3
    <3>2. Frames(s)'[i - 1].channel = Frames(s)[i].channel
      BY <1>2, <3>1
    <3> QED
      BY <3>1, <3>2
  <2>6. D \cup {ch} \subseteq C
    <3>1. ch \in C
      <4>1. 1 \in DOMAIN Frames(s) /\ 1 <= left[s] /\ Frames(s)[1].channel = ch
        BY <1>1, <1>2, <1>3
      <4> QED
        BY <4>1
    <3>2. ASSUME NEW i \in DOMAIN Frames(s)', i <= left'[s] PROVE Frames(s)'[i].channel \in C
      <4>1. i + 1 \in DOMAIN Frames(s) /\ i + 1 <= left[s] /\ Frames(s)'[i] = Frames(s)[i + 1]
        BY <1>1, <1>2, <1>3, <3>2
      <4> QED
        BY <4>1
    <3> QED
      BY <3>1, <3>2
  <2>7. Subscribed(s)' = Elements(L) \ D
    <3>1. Subscribed(s)' = Elements(listed[s]) \ C
      BY <1>1, <2>2 DEF Removes
    <3> HIDE DEF C, D, ch, L
    <3> QED
      BY <1>4, <2>5, <2>6, <3>1
  <2>8. Removes(s)'
    BY <1>1, <2>2, <2>7 DEF Removes
  <2>9. Processed(s)'
    BY <1>1, <1>8, <2>1, <2>4, <2>8 DEF Processed
  <2>10. ASSUME left'[s] = 0 PROVE Agreed(s, ListAfter(s))'
    <3>1. D = {}
      BY <1>2, <2>10
    <3>2. pending[s] = <<>>
      BY <1>1, <1>2, <1>3, <2>3, <2>10, SessionFacts
    <3>3. Served(s)'
      BY <1>1, <1>8, <2>2, <3>2 DEF Served, Quiet, OnlyNoOps, Processed, Removes
    <3>4. \A i \in DOMAIN Frames(s)' : Frames(s)'[i].kind = "message"
      BY <1>2, <2>1, <2>10
    <3>5. ListAfter(s)' = L
      BY <1>1 DEF ListAfter
    <3>6. Elements(L) = Subscribed(s)'
      BY <2>7, <3>1
    <3> QED
      BY <3>3, <3>4, <3>5, <3>6 DEF Agreed
  <2> QED
    BY <1>1, <1>5, <2>9, <2>10 DEF InCall
<1> QED
  BY <1>1, <1>2, <1>6, <1>7, <1>8 DEF InCall, Hopeless, InFlight

\* The call returns.
LEMMA ReturnInStep ==
  ASSUME SessionOK, NEW s \in Subscribers, InCall(s), Return(s)
  PROVE  Agreed(s, listed[s])'
<1>1. /\ requests'[s] = requests[s] /\ pc'[s] = pc[s] /\ pending'[s] = pending[s]
      /\ Subscribed(s)' = Subscribed(s) /\ Frames(s)' = Frames(s)
      /\ listed'[s] = ListAfter(s) /\ left[s] = 0
  BY DEF Return, vars, sockets, SessionOK, SessionTypes, Subscribed, Frames, AtHand, ListAfter
<1>2. Agreed(s, ListAfter(s))
  BY <1>1 DEF InCall
<1>3. (Served(s) => Served(s)') /\ (Doomed(s) => Doomed(s)')
  BY <1>1 DEF Served, Doomed, Quiet, OnlyNoOps
<1> QED
  BY <1>1, <1>2, <1>3 DEF Agreed

-------------------------------------------------------------------------------
(* In step: what a step of the server preserves.                           *)

\* A conversation that goes on does so in one of these ways.
LEMMA OngoingCall ==
  ASSUME NEW s \in Subscribers, client[s] \in Calling,
         InCall(s)
  PROVE  \/ Agreed(s, ListAfter(s)) /\ left[s] = 0
         \/ \E i \in DOMAIN Frames(s) : i <= left[s] /\ Frames(s)[i].kind = "message"
         \/ Doomed(s) /\ Frames(s) = <<>>
         \/ RepeatsAll(s)
         \/ InFlight(s)
         \/ Processed(s)
         \/ left[s] \notin Nat
BY DEF InCall, Hopeless

\* The server leaves what is the client's alone.
LEMMA ClientsPart ==
  ASSUME SessionOK, NEW s \in Subscribers, UNCHANGED own
  PROVE  /\ client'[s] = client[s] /\ listed'[s] = listed[s] /\ argument'[s] = argument[s]
         /\ left'[s] = left[s] /\ failed'[s] = failed[s] /\ ListAfter(s)' = ListAfter(s)
BY DEF own, ListAfter

\* The frames under way and those the call expects do not change.
LEMMA SameFrames ==
  ASSUME SessionOK, NEW s \in Subscribers, UNCHANGED own, Frames(s)' = Frames(s),
         InCall(s),
         left[s] = 0 => Agreed(s, ListAfter(s))',
         left[s] > 0 => Hopeless(s)' \/ InFlight(s)' \/ Processed(s)'
  PROVE  InCall(s)'
<1>1. \A i : (Clear(s, i)' => Clear(s, i))
  BY DEF Clear
<1>2. \A i, f : Expects(s, i, f) => Expects(s, i, f)'
  BY ClientsPart DEF Expects
<1> QED
  BY <1>1, <1>2, ClientsPart DEF InCall

\* A SUBSCRIBE is read.
LEMMA SubscribeInStep ==
  ASSUME SessionOK, NEW s \in Subscribers, Conversation(s), ~failed[s], pc[s] # "ended",
         requests[s] # <<>>, requests' = [requests EXCEPT ![s] = Tail(@)],
         Head(requests[s]).op = "subscribe", Subscribe(s, Head(requests[s]).channels),
         UNCHANGED <<own, inbound>>
  PROVE  Conversation(s)'
<1> DEFINE r == Head(requests[s])
<1>1. /\ pc'[s] = "subscribing" /\ pending'[s] = r.channels /\ r.channels # <<>>
      /\ Subscribed(s)' = Subscribed(s) /\ Frames(s)' = Frames(s)
      /\ requests'[s] = Tail(requests[s]) /\ r = requests[s][1]
  BY DEF Subscribe, SessionOK, IInv, TypeOK, RequestsTyped, Subscribed, Frames, AtHand
<1>2. /\ requests[s] \in Seq(Request) /\ Len(requests[s]) \in Nat \ {0}
      /\ DOMAIN requests[s] = 1 .. Len(requests[s])
      /\ left[s] \in Nat /\ argument[s] \in Seq(Channels)
  BY SessionFacts
<1>3. r # NoOp /\ r # Poison
  BY <1>1 DEF NoOp, Poison
<1>4. \A n \in Nat : n > 0 => ~OnlyNoOps(s, n)
  BY <1>1, <1>3 DEF OnlyNoOps
<1>5. ~Served(s)
  BY <1>2, <1>4 DEF Served
<1>6. ~Doomed(s)
  <2> SUFFICES ASSUME NEW n \in DOMAIN requests[s], requests[s][n] = Poison, OnlyNoOps(s, n - 1)
               PROVE  FALSE
    BY DEF Doomed
  <2>1. n = 1
    BY <1>2, <1>4
  <2> QED
    BY <1>1, <1>3, <2>1
<1>7. client[s] # "client" /\ client[s] # "idle" /\ \A list : ~Agreed(s, list)
  BY <1>5, <1>6 DEF Conversation, Fresh, Agreed
<1>8. ASSUME client[s] \in Calling PROVE InCall(s)'
  <2>0. InCall(s) /\ left[s] # 0
    BY <1>7, <1>8 DEF Conversation, InCall
  <2>1. ASSUME NEW i \in DOMAIN Frames(s), i <= left[s], Frames(s)[i].kind = "message"
        PROVE  Hopeless(s)'
    BY <1>1, <2>1, ClientsPart DEF Hopeless
  <2>2. ~RepeatsAll(s) /\ ~Processed(s)
    BY <1>1, <1>2, <1>3 DEF RepeatsAll, Processed
  <2>3. ASSUME InFlight(s) PROVE Processed(s)'
    <3>1. Len(requests[s]) = 1
      <4>0. Len(requests[s]) - 1 \in Nat /\ (Len(requests[s]) - 1 = 0 => Len(requests[s]) = 1)
        BY <1>2
      <4>1. PICK m \in Nat : m = Len(requests[s]) - 1
        BY <4>0, Zenon
      <4>2. OnlyNoOps(s, m)
        BY <2>3, <4>1 DEF InFlight
      <4>3. ~(m > 0)
        BY <1>4, <4>2
      <4>4. m = 0
        BY <4>3
      <4> QED
        BY <4>0, <4>1, <4>4
    <3>2. requests'[s] = <<>>
      <4>1. Tail(requests[s]) \in Seq(Request) /\ Len(Tail(requests[s])) = 0
        BY <1>2, <3>1, TailEntries
      <4>2. \A q \in Seq(Request) : Len(q) = 0 => q = <<>>
        OBVIOUS
      <4> QED
        BY <1>1, <4>1, <4>2, Zenon
    <3>3. client[s] # "unsubscribing" /\ r.channels = argument[s]
      BY <1>1, <2>3, <3>1 DEF InFlight
    <3>4. /\ Frames(s) = <<>> /\ left[s] = Len(argument[s]) /\ Elements(listed[s]) = Subscribed(s)
          /\ Len(Frames(s)) = 0 /\ DOMAIN Frames(s) = {}
      BY <2>3, <3>3 DEF InFlight
    <3>5. Len(pending'[s]) = IF Len(Frames(s)') < left'[s] THEN left'[s] - Len(Frames(s)') ELSE 0
      BY <1>1, <1>2, <3>3, <3>4, ClientsPart
    <3>6. Adds(s)'
      <4>1. PICK k \in Nat : k = Len(argument[s]) /\ DOMAIN argument[s] = 1 .. k
        BY SMTT(30), <1>2
      <4>2. /\ pc'[s] = "subscribing" /\ pending'[s] = argument[s] /\ Subscribed(s)' = Subscribed(s)
            /\ client'[s] = client[s] /\ argument'[s] = argument[s] /\ listed'[s] = listed[s]
        BY <1>1, <3>3, ClientsPart
      <4>3. k - k = 0 /\ {argument[s][j] : j \in 1 .. 0} = {} /\ k <= k
        OBVIOUS
      <4>4. \A j \in 1 .. k : k - k + j = j
        OBVIOUS
      <4>5. Subscribed(s) = Elements(listed[s]) \cup {argument[s][j] : j \in 1 .. k - k}
        BY <3>4, <4>3
      <4> QED
        BY <3>3, <4>1, <4>2, <4>3, <4>4, <4>5 DEF Adds
    <3> QED
      BY <1>1, <3>2, <3>4, <3>5, <3>6 DEF Processed
  <2>4. Hopeless(s)' \/ Processed(s)'
    BY <1>2, <1>6, <1>8, <2>0, <2>1, <2>2, <2>3, OngoingCall
  <2> QED
    BY <1>1, <2>0, <2>4, SameFrames
<1> QED
  BY <1>7, <1>8, ClientsPart DEF Conversation

\* The list of all the channels that a client is subscribed to.
LEMMA OrderLength ==
  ASSUME NEW n \in Nat, NEW S, NEW order \in [1 .. n -> S]
  PROVE  order \in Seq(S) /\ Len(order) = n
OBVIOUS

\* An UNSUBSCRIBE is read.
LEMMA UnsubscribeInStep ==
  ASSUME SessionOK, NEW s \in Subscribers, Conversation(s), ~failed[s], pc[s] # "ended",
         requests[s] # <<>>, requests' = [requests EXCEPT ![s] = Tail(@)],
         Head(requests[s]).op = "unsubscribe", Unsubscribe(s, Head(requests[s]).channels),
         UNCHANGED <<own, inbound>>
  PROVE  Conversation(s)'
<1> DEFINE r == Head(requests[s])
<1>1. /\ pc'[s] = "unsubscribing" /\ pc[s] # "serving"
      /\ Subscribed(s)' = Subscribed(s) /\ Frames(s)' = Frames(s)
      /\ requests'[s] = Tail(requests[s]) /\ r = requests[s][1]
  BY DEF Unsubscribe, InSelect, SessionOK, IInv, TypeOK, RequestsTyped, Subscribed, Frames, AtHand
<1>2. /\ requests[s] \in Seq(Request) /\ Len(requests[s]) \in Nat \ {0}
      /\ DOMAIN requests[s] = 1 .. Len(requests[s])
      /\ Len(requests'[s]) = Len(requests[s]) - 1
      /\ DOMAIN requests'[s] = 1 .. Len(requests[s]) - 1
      /\ \A i \in 1 .. Len(requests[s]) - 1 : requests'[s][i] = requests[s][i + 1]
      /\ left[s] \in Nat /\ argument[s] \in Seq(Channels)
  <2>1. requests[s] \in Seq(Request) /\ left[s] \in Nat /\ argument[s] \in Seq(Channels)
    BY SessionFacts
  <2>2. PICK q \in Seq(Request) : q = requests[s]
    BY <2>1
  <2>3. q # <<>> /\ requests'[s] = Tail(q)
    BY <1>1, <2>2
  <2>4. /\ Len(q) \in Nat \ {0} /\ DOMAIN q = 1 .. Len(q) /\ Len(Tail(q)) = Len(q) - 1
        /\ DOMAIN Tail(q) = 1 .. Len(q) - 1 /\ \A i \in 1 .. Len(q) - 1 : Tail(q)[i] = q[i + 1]
    BY <2>3, TailEntries
  <2> QED
    BY <2>1, <2>2, <2>3, <2>4, Zenon
<1>3. /\ Subscribed(s) \subseteq Channels /\ Cardinality(Subscribed(s)) \in Nat
  BY SessionFacts, SubscribedFinite
<1>4. /\ r.channels # <<>> => pending'[s] = r.channels
      /\ r.channels = <<>> => Len(pending'[s]) = Cardinality(Subscribed(s))
                                /\ pending'[s] \in Seq(Channels)
  <2>1. CASE r.channels # <<>>
    BY <2>1 DEF Unsubscribe, SessionOK, IInv, TypeOK
  <2>2. CASE r.channels = <<>>
    <3>1. PICK order \in [1 .. Cardinality(Subscribed(s)) -> Subscribed(s)] : pending'[s] = order
      BY <2>2 DEF Unsubscribe, SessionOK, IInv, TypeOK
    <3>2. order \in [1 .. Cardinality(Subscribed(s)) -> Channels]
      BY <1>3
    <3> QED
      BY <1>3, <2>2, <3>1, <3>2, OrderLength
  <2> QED
    BY <2>1, <2>2
<1>5. ASSUME NEW n \in Nat, n > 0, n <= Len(requests[s]), OnlyNoOps(s, n)
      PROVE  OnlyNoOps(s, n - 1)' /\ Quiet(s)'
  <2>1. r = NoOp /\ Subscribed(s) = {}
    BY <1>1, <1>5 DEF OnlyNoOps
  <2>2. Len(pending'[s]) = 0 /\ pending'[s] \in Seq(Channels)
    BY <1>4, <2>1, FS_EmptySet DEF NoOp
  <2>3. Quiet(s)'
    BY <1>1, <2>2 DEF Quiet
  <2>4. \A i \in 1 .. n - 1 : requests'[s][i] = NoOp
    <3> SUFFICES ASSUME NEW i \in 1 .. n - 1 PROVE requests'[s][i] = NoOp
      OBVIOUS
    <3>1. i + 1 \in 1 .. n /\ i \in 1 .. Len(requests[s]) - 1
      BY <1>2, <1>5
    <3> QED
      BY <1>2, <1>5, <3>1 DEF OnlyNoOps
  <2> QED
    BY <1>1, <2>1, <2>3, <2>4 DEF OnlyNoOps
<1>6. ASSUME Served(s) PROVE Served(s)'
  <2>1. OnlyNoOps(s, Len(requests[s])) /\ Len(requests[s]) > 0
    BY <1>2, <1>6 DEF Served
  <2>2. PICK n \in Nat : n = Len(requests[s])
    BY <1>2
  <2>3. OnlyNoOps(s, n - 1)' /\ Quiet(s)'
    BY <1>5, <2>1, <2>2
  <2>4. Len(requests'[s]) = n - 1
    BY <1>2, <2>2
  <2> QED
    BY <1>1, <2>3, <2>4 DEF Served
<1>7. ASSUME Doomed(s) PROVE Doomed(s)'
  <2>1. PICK n \in DOMAIN requests[s] : requests[s][n] = Poison /\ OnlyNoOps(s, n - 1)
    BY <1>7 DEF Doomed
  <2>2. n # 1 /\ n \in Nat
    BY <1>1, <1>2, <2>1 DEF Poison
  <2>3. OnlyNoOps(s, (n - 1) - 1)' /\ Quiet(s)'
    BY <1>2, <1>5, <2>1, <2>2
  <2>4. requests'[s][n - 1] = Poison /\ n - 1 \in DOMAIN requests'[s]
    BY <1>2, <2>1, <2>2
  <2> QED
    BY <2>3, <2>4 DEF Doomed
<1>8. ASSUME NEW list, Agreed(s, list) PROVE Agreed(s, list)'
  BY <1>1, <1>6, <1>7, <1>8 DEF Agreed
<1>9. client[s] # "client"
  BY DEF Conversation, Fresh
<1>10. ASSUME client[s] \in Calling PROVE InCall(s)'
  <2>0. InCall(s)
    BY <1>10 DEF Conversation
  <2>1. ASSUME NEW i \in DOMAIN Frames(s), i <= left[s], Frames(s)[i].kind = "message"
        PROVE  Hopeless(s)'
    BY <1>1, <2>1, ClientsPart DEF Hopeless
  <2>2. ASSUME RepeatsAll(s) PROVE Hopeless(s)'
    <3>1. \A i \in DOMAIN requests'[s] : requests'[s][i] = NoOp
      <4> SUFFICES ASSUME NEW i \in 1 .. Len(requests[s]) - 1 PROVE requests'[s][i] = NoOp
        BY <1>2
      <4>1. i + 1 \in DOMAIN requests[s]
        BY <1>2
      <4> QED
        BY <1>2, <2>2, <4>1 DEF RepeatsAll
    <3> QED
      BY <1>1, <2>2, <3>1, ClientsPart DEF RepeatsAll, Hopeless
  <2>3. ASSUME Doomed(s), Frames(s) = <<>> PROVE Hopeless(s)'
    BY <1>1, <1>7, <2>3 DEF Hopeless
  <2>4. ~Processed(s)
    BY DEF Processed
  <2>5. ASSUME InFlight(s), Len(requests[s]) # 1 PROVE InFlight(s)'
    <3>0. PICK n \in Nat : n = Len(requests[s]) - 1 /\ n > 0
      <4>1. \A k \in Nat \ {0} : k # 1 => k - 1 \in Nat /\ k - 1 > 0
        OBVIOUS
      <4>2. Len(requests[s]) \in Nat \ {0}
        BY <1>2
      <4> QED
        BY <2>5, <4>1, <4>2, Zenon
    <3>1. n = Len(requests[s]) - 1 /\ n > 0 /\ OnlyNoOps(s, n)
      BY <2>5, <3>0 DEF InFlight
    <3>2. OnlyNoOps(s, n - 1)' /\ Quiet(s)'
      BY <1>5, <3>1, <1>2
    <3>3. OnlyNoOps(s, Len(requests[s]) - 1)'
      BY <1>2, <3>1, <3>2
    <3>4. requests'[s][Len(requests'[s])] = requests[s][Len(requests[s])] /\ requests'[s] # <<>>
      <4>1. n \in 1 .. Len(requests[s]) - 1 /\ n + 1 = Len(requests[s]) /\ Len(requests'[s]) = n
        BY <1>2, <3>1
      <4> QED
        BY <1>2, <4>1
    <3> QED
      BY <1>1, <2>5, <3>2, <3>3, <3>4, ClientsPart DEF InFlight
  <2>6. ASSUME InFlight(s), Len(requests[s]) = 1 PROVE Processed(s)'
    <3>1. requests'[s] = <<>>
      BY <1>1, <1>2, <2>6
    <3>2. client[s] = "unsubscribing" /\ r.channels = argument[s]
      BY <1>1, <2>6 DEF InFlight
    <3>3. /\ Frames(s) = <<>> /\ Elements(listed[s]) = Subscribed(s)
          /\ Len(Frames(s)) = 0 /\ DOMAIN Frames(s) = {}
          /\ left[s] = IF argument[s] = <<>> THEN Cardinality(Subscribed(s)) ELSE Len(argument[s])
      BY <2>6, <3>2 DEF InFlight
    <3>4. Len(pending'[s]) = left[s]
      BY <1>4, <3>2, <3>3
    <3>5. Len(pending'[s]) = IF Len(Frames(s)') < left'[s] THEN left'[s] - Len(Frames(s)') ELSE 0
      BY <1>1, <1>2, <3>3, <3>4, ClientsPart
    <3>6. Removes(s)'
      BY <1>1, <3>2, <3>3, ClientsPart DEF Removes
    <3> QED
      BY <1>1, <3>1, <3>3, <3>5, <3>6 DEF Processed
  <2>7. left[s] = 0 => Agreed(s, ListAfter(s))'
    BY <1>8, <2>0, ClientsPart DEF InCall
  <2>8. left[s] > 0 => Hopeless(s)' \/ InFlight(s)' \/ Processed(s)'
    BY <1>2, <1>10, <2>0, <2>1, <2>2, <2>3, <2>4, <2>5, <2>6, OngoingCall
  <2> QED
    BY <1>1, <2>0, <2>7, <2>8, SameFrames
<1> QED
  BY <1>8, <1>9, <1>10, ClientsPart DEF Conversation

\* The frames when the server has one more to write.
LEMMA FramesGrow ==
  ASSUME SessionOK, NEW s \in Subscribers,
         inbound'[s] = inbound[s], out[s] = None, out'[s] # None
  PROVE  /\ Len(Frames(s)) \in Nat /\ Len(Frames(s)') = Len(Frames(s)) + 1
         /\ DOMAIN Frames(s) = 1 .. Len(Frames(s)) /\ DOMAIN Frames(s)' = 1 .. Len(Frames(s)) + 1
         /\ \A i \in 1 .. Len(Frames(s)) : Frames(s)'[i] = Frames(s)[i]
         /\ Frames(s)'[Len(Frames(s)) + 1] = out'[s]
<1>1. Frames(s)' = Append(Frames(s), out'[s])
  BY FramesAppended
<1>2. Frames(s) \in Seq(Confirmation \cup Message)
  BY FramesTyped
<1> QED
  BY <1>1, <1>2, AppendEntries

\* A call that expects the frames under way, and the next one unless a message comes
\* first, is still in step.
LEMMA MoreFrames ==
  ASSUME SessionOK, NEW s \in Subscribers, UNCHANGED own, InCall(s),
         inbound'[s] = inbound[s], out[s] = None, out'[s] # None,
         \/ \E i \in DOMAIN Frames(s) : i <= left[s] /\ Frames(s)[i].kind = "message"
         \/ out'[s].kind = "message"
         \/ Len(Frames(s)) + 1 <= left[s] => Expects(s, Len(Frames(s)) + 1, out'[s]),
         left[s] = 0 => Agreed(s, ListAfter(s))',
         left[s] > 0 => Hopeless(s)' \/ InFlight(s)' \/ Processed(s)'
  PROVE  InCall(s)'
<1> DEFINE n == Len(Frames(s))
<1>1. /\ n \in Nat /\ Len(Frames(s)') = n + 1
      /\ DOMAIN Frames(s) = 1 .. n /\ DOMAIN Frames(s)' = 1 .. n + 1
      /\ \A i \in 1 .. n : Frames(s)'[i] = Frames(s)[i]
      /\ Frames(s)'[n + 1] = out'[s]
  BY FramesGrow
<1>2. ASSUME NEW i \in DOMAIN Frames(s)', i <= left'[s], Clear(s, i)'
      PROVE  Expects(s, i, Frames(s)[i])'
  <2>1. left'[s] = left[s] /\ client'[s] = client[s] /\ argument'[s] = argument[s]
    BY ClientsPart
  <2>2. CASE i \in 1 .. n
    <3>1. Clear(s, i)
      BY <1>1, <1>2, <2>2 DEF Clear
    <3>2. Expects(s, i, Frames(s)[i])
      BY <1>1, <1>2, <2>1, <2>2, <3>1 DEF InCall
    <3> QED
      BY <1>1, <2>1, <2>2, <3>2 DEF Expects
  <2>3. CASE i = n + 1
    <3>1. out'[s].kind # "message"
      <4>1. i \in 1 .. i /\ Frames(s)'[i] = out'[s]
        BY <1>1, <2>3
      <4> QED
        BY <1>2, <4>1 DEF Clear
    <3>2. ASSUME NEW j \in DOMAIN Frames(s), Frames(s)[j].kind = "message" PROVE FALSE
      <4>1. j \in 1 .. i /\ Frames(s)'[j] = Frames(s)[j]
        BY <1>1, <2>3
      <4> QED
        BY <1>2, <3>2, <4>1 DEF Clear
    <3>3. Expects(s, n + 1, out'[s])
      BY <1>2, <2>1, <2>3, <3>1, <3>2
    <3> QED
      BY <1>1, <2>1, <2>3, <3>3 DEF Expects
  <2> QED
    BY <1>1, <2>2, <2>3
<1> QED
  BY <1>2, ClientsPart DEF InCall

\* While the server works at a request, the conversation is in a call.
LEMMA BusyConversation ==
  ASSUME SessionOK, NEW s \in Subscribers, Conversation(s), ~failed[s], pc[s] # "ended",
         ~Quiet(s)
  PROVE  /\ client[s] # "client" /\ client[s] # "idle"
         /\ client[s] \in Calling =>
              /\ InCall(s) /\ left[s] > 0
              /\ \/ \E i \in DOMAIN Frames(s) : i <= left[s] /\ Frames(s)[i].kind = "message"
                 \/ RepeatsAll(s)
                 \/ Processed(s)
<1>1. ~Served(s) /\ ~Doomed(s) /\ ~InFlight(s) /\ ~Fresh(s) /\ \A list : ~Agreed(s, list)
  BY DEF Served, Doomed, InFlight, Agreed, Fresh, Quiet
<1>2. left[s] \in Nat
  BY SessionFacts
<1> QED
  BY <1>1, <1>2, OngoingCall DEF Conversation, InCall

\* Db::subscribe is called.
LEMMA DbSubscribeInStep ==
  ASSUME SessionOK, NEW s \in Subscribers, Conversation(s), ~failed[s], DbSubscribe(s),
         UNCHANGED <<own, sockets>>
  PROVE  Conversation(s)'
<1>1. /\ pc[s] = "subscribing" /\ pc'[s] = "inserting" /\ pending'[s] = pending[s]
      /\ pending[s] # <<>> /\ requests'[s] = requests[s]
      /\ Subscribed(s)' = Subscribed(s) /\ Frames(s)' = Frames(s)
  BY DEF DbSubscribe, sockets, SessionOK, IInv, TypeOK, Subscribed, Frames, AtHand
<1>2. ~Quiet(s) /\ ~RepeatsAll(s) /\ ~Removes(s)
  BY <1>1 DEF Quiet, RepeatsAll, Removes
<1>3. ASSUME client[s] \in Calling PROVE InCall(s)'
  <2>1. ASSUME Processed(s) PROVE Processed(s)'
    <3>1. Adds(s)'
      BY <1>1, <1>2, <2>1, ClientsPart DEF Processed, Adds
    <3> QED
      BY <1>1, <2>1, <3>1, ClientsPart DEF Processed
  <2>2. (\E i \in DOMAIN Frames(s) : i <= left[s] /\ Frames(s)[i].kind = "message")
          => Hopeless(s)'
    BY <1>1, ClientsPart DEF Hopeless
  <2>3. InCall(s) /\ left[s] > 0 /\ (Hopeless(s)' \/ Processed(s)')
    BY <1>1, <1>2, <1>3, <2>1, <2>2, BusyConversation
  <2> QED
    BY <1>1, <2>3, SameFrames
<1> QED
  BY <1>1, <1>2, <1>3, BusyConversation, ClientsPart DEF Conversation

\* A receiver is inserted, and its confirmation at hand.
LEMMA InsertInStep ==
  ASSUME SessionOK, NEW s \in Subscribers, Conversation(s), ~failed[s], Insert(s),
         UNCHANGED <<own, sockets>>
  PROVE  Conversation(s)'
<1> DEFINE n  == Len(Frames(s))
           ch == Head(pending[s])
           p  == Len(pending[s])
           k  == left[s]
           a  == Len(argument[s])
<1>1. /\ pc[s] = "inserting" /\ pc'[s] = "subscribing" /\ pending'[s] = Tail(pending[s])
      /\ pending[s] # <<>> /\ requests'[s] = requests[s] /\ inbound'[s] = inbound[s]
      /\ out[s] = None /\ out'[s].kind = "subscribe" /\ out'[s].channel = ch
      /\ subs'[s] = [subs[s] EXCEPT ![ch] = fresh[s]] /\ fresh[s] # None
  BY DEF Insert, sockets, SessionOK, IInv, TypeOK, Consistent, InsertReady
<1>2. out'[s] # None
  <2>1. /\ Head(pending[s]) \in Channels
        /\ Cardinality(Subscribed(s) \cup {Head(pending[s])}) \in Nat
    <3>1. Head(pending[s]) \in Channels
      BY <1>1, SessionFacts
    <3>2. Subscribed(s) \cup {Head(pending[s])} \in SUBSET Channels
      BY <3>1, SessionFacts
    <3> QED
      BY <3>1, <3>2, SubscribedFinite
  <2>2. out'[s] \in Confirmation
    BY <2>1 DEF Insert, SessionOK, IInv, TypeOK, Confirmation
  <2> QED
    BY <2>2, Kinds
<1>3. /\ p \in Nat \ {0} /\ DOMAIN pending[s] = 1 .. p /\ ch = pending[s][1] /\ ch \in Channels
      /\ Len(pending'[s]) = p - 1 /\ DOMAIN pending'[s] = 1 .. p - 1
      /\ \A j \in 1 .. p - 1 : pending'[s][j] = pending[s][j + 1]
  <2>1. pending[s] \in Seq(Channels)
    BY SessionFacts
  <2> QED
    BY <1>1, <2>1, TailEntries
<1>4. Subscribed(s)' = Subscribed(s) \cup {ch}
  <2>1. subs[s] \in [Channels -> Nat \cup {None}]
    BY DEF SessionOK, IInv, TypeOK
  <2> QED
    BY <1>1, <1>3, <2>1 DEF Subscribed
<1>5. /\ n \in Nat /\ Len(Frames(s)') = n + 1
      /\ DOMAIN Frames(s) = 1 .. n /\ DOMAIN Frames(s)' = 1 .. n + 1
      /\ \A i \in 1 .. n : Frames(s)'[i] = Frames(s)[i]
      /\ Frames(s)'[n + 1] = out'[s]
  BY <1>1, <1>2, FramesGrow
<1>6. k \in Nat /\ a \in Nat /\ argument[s] \in Seq(Channels) /\ DOMAIN argument[s] = 1 .. a
  BY SessionFacts
<1>7. ~Quiet(s) /\ ~RepeatsAll(s) /\ ~Removes(s)
  BY <1>1 DEF Quiet, RepeatsAll, Removes
<1>8. ASSUME client[s] \in Calling PROVE InCall(s)'
  <2>1. ASSUME NEW i \in DOMAIN Frames(s), i <= k, Frames(s)[i].kind = "message"
        PROVE  Hopeless(s)'
    <3>1. i \in DOMAIN Frames(s)' /\ Frames(s)'[i] = Frames(s)[i]
      BY <1>5
    <3> QED
      BY <2>1, <3>1, ClientsPart DEF Hopeless
  <2>2. ASSUME Processed(s) PROVE Processed(s)' /\ Expects(s, n + 1, out'[s])
    <3>1. Adds(s)
      BY <1>7, <2>2 DEF Processed
    <3>2. p = k - n /\ n < k /\ p <= a /\ client[s] # "unsubscribing"
      BY <1>3, <1>5, <1>6, <2>2, <3>1 DEF Processed, Adds
    <3>3. \A j \in 1 .. p : pending[s][j] = argument[s][a - p + j]
      BY <1>3, <3>1 DEF Adds
    <3>4. 1 \in 1 .. p /\ a - p + 1 \in 1 .. a /\ a - p + 1 = a - k + (n + 1) /\ a - (p - 1) = a - p + 1
      BY SMTT(30), <1>3, <1>5, <1>6, <3>2
    <3>5. ch = argument[s][a - p + 1]
      BY <1>3, <3>3, <3>4
    <3>6. Expects(s, n + 1, out'[s])
      BY <1>1, <3>2, <3>4, <3>5 DEF Expects
    <3>7. \A i \in DOMAIN Frames(s)' : Frames(s)'[i].kind = "message" <=> i > k
      <4> SUFFICES ASSUME NEW i \in 1 .. n + 1 PROVE Frames(s)'[i].kind = "message" <=> i > k
        BY <1>5
      <4>1. CASE i = n + 1
        BY <1>1, <1>5, <1>6, <3>2, <4>1
      <4>2. CASE i \in 1 .. n
        BY <1>5, <2>2, <4>2 DEF Processed
      <4> QED
        BY <1>5, <4>1, <4>2
    <3>8. Len(pending'[s]) = IF Len(Frames(s)') < k THEN k - Len(Frames(s)') ELSE 0
      BY <1>3, <1>5, <1>6, <3>2
    <3>9. Adds(s)'
      <4>1. ASSUME NEW j \in 1 .. p - 1 PROVE pending'[s][j] = argument[s][a - (p - 1) + j]
        <5>1. \A x, y \in Nat : \A i \in 1 .. y - 1 : i + 1 \in 1 .. y /\ x - y + (i + 1) = x - (y - 1) + i
          OBVIOUS
        <5>2. a \in Nat /\ p \in Nat
          BY <1>3, <1>6
        <5>3. j + 1 \in 1 .. p /\ a - p + (j + 1) = a - (p - 1) + j
          BY <5>1, <5>2, Zenon
        <5>4. pending'[s][j] = pending[s][j + 1] /\ pending[s][j + 1] = argument[s][a - p + (j + 1)]
          BY <1>3, <3>3, <5>3, Zenon
        <5> QED
          BY <5>3, <5>4, Zenon
      <4>2. 1 .. a - (p - 1) = (1 .. a - p) \cup {a - p + 1}
        <5>1. \A x, y \in Nat : y <= x => 1 .. x - (y - 1) = (1 .. x - y) \cup {x - y + 1}
          OBVIOUS
        <5>2. a \in Nat /\ p \in Nat /\ p <= a
          BY <1>3, <1>6, <3>2
        <5> QED
          BY <5>1, <5>2, Zenon
      <4>3. {argument[s][j] : j \in 1 .. a - (p - 1)}
              = {argument[s][j] : j \in 1 .. a - p} \cup {ch}
        BY <3>5, <4>2
      <4>4. Subscribed(s) = Elements(listed[s]) \cup {argument[s][j] : j \in 1 .. a - p}
        BY <3>1 DEF Adds
      <4>5. Subscribed(s)' = Elements(listed[s]) \cup {argument[s][j] : j \in 1 .. a - (p - 1)}
        BY <1>4, <4>3, <4>4
      <4>6. p - 1 <= a
        BY <1>3, <1>6, <3>2
      <4>7. /\ client'[s] = client[s] /\ argument'[s] = argument[s] /\ listed'[s] = listed[s]
            /\ pc'[s] = "subscribing" /\ Len(pending'[s]) = p - 1
            /\ DOMAIN pending'[s] = 1 .. p - 1 /\ client[s] # "unsubscribing"
        BY <1>1, <1>3, <3>2, ClientsPart
      <4> HIDE DEF p, a
      <4>8. Len(argument[s]) = a
        BY DEF a
      <4> QED
        BY <4>1, <4>5, <4>6, <4>7, <4>8 DEF Adds
    <3>10. Processed(s)'
      BY <1>1, <2>2, <3>7, <3>8, <3>9, ClientsPart DEF Processed
    <3> QED
      BY <3>6, <3>10
  <2>3. InCall(s) /\ k > 0
    BY <1>1, <1>7, <1>8, BusyConversation
  <2>4. \/ Hopeless(s)' /\ \E i \in DOMAIN Frames(s) : i <= k /\ Frames(s)[i].kind = "message"
        \/ Processed(s)' /\ Expects(s, n + 1, out'[s])
    BY <1>1, <1>7, <1>8, <2>1, <2>2, BusyConversation
  <2> QED
    BY <1>1, <1>2, <1>6, <2>3, <2>4, MoreFrames
<1> QED
  BY <1>1, <1>7, <1>8, BusyConversation, ClientsPart DEF Conversation

\* A receiver is removed, and its confirmation at hand.
LEMMA RemoveInStep ==
  ASSUME SessionOK, NEW s \in Subscribers, Conversation(s), ~failed[s], Remove(s),
         UNCHANGED <<own, sockets>>
  PROVE  Conversation(s)'
<1> DEFINE n  == Len(Frames(s))
           ch == Head(pending[s])
           p  == Len(pending[s])
           k  == left[s]
<1>1. /\ pc[s] = "unsubscribing" /\ pc'[s] = "unsubscribing" /\ pending'[s] = Tail(pending[s])
      /\ pending[s] # <<>> /\ requests'[s] = requests[s] /\ inbound'[s] = inbound[s]
      /\ out[s] = None /\ out'[s].kind = "unsubscribe" /\ out'[s].channel = ch
      /\ subs'[s] = [subs[s] EXCEPT ![ch] = None]
  BY DEF Remove, sockets, SessionOK, IInv, TypeOK
<1>2. out'[s] # None
  <2>1. Head(pending[s]) \in Channels /\ Cardinality(Subscribed(s) \ {Head(pending[s])}) \in Nat
    <3>1. Head(pending[s]) \in Channels
      BY <1>1, SessionFacts
    <3>2. Subscribed(s) \ {Head(pending[s])} \in SUBSET Channels
      BY SessionFacts
    <3> QED
      BY <3>1, <3>2, SubscribedFinite
  <2>2. out'[s] \in Confirmation
    BY <2>1 DEF Remove, SessionOK, IInv, TypeOK, Confirmation
  <2> QED
    BY <2>2, Kinds
<1>3. /\ p \in Nat \ {0} /\ ch \in Channels /\ Len(pending'[s]) = p - 1
  <2>1. pending[s] \in Seq(Channels)
    BY SessionFacts
  <2> QED
    BY <1>1, <2>1, TailEntries
<1>4. Subscribed(s)' = Subscribed(s) \ {ch}
  <2>1. subs[s] \in [Channels -> Nat \cup {None}]
    BY DEF SessionOK, IInv, TypeOK
  <2> QED
    BY <1>1, <1>3, <2>1 DEF Subscribed
<1>5. /\ n \in Nat /\ Len(Frames(s)') = n + 1
      /\ DOMAIN Frames(s) = 1 .. n /\ DOMAIN Frames(s)' = 1 .. n + 1
      /\ \A i \in 1 .. n : Frames(s)'[i] = Frames(s)[i]
      /\ Frames(s)'[n + 1] = out'[s]
  BY <1>1, <1>2, FramesGrow
<1>6. k \in Nat
  BY SessionFacts
<1>7. ~Quiet(s) /\ ~Adds(s)
  BY <1>1 DEF Quiet, Adds
<1>8. ASSUME client[s] \in Calling PROVE InCall(s)'
  <2>1. ASSUME NEW i \in DOMAIN Frames(s), i <= k, Frames(s)[i].kind = "message"
        PROVE  Hopeless(s)'
    <3>1. i \in DOMAIN Frames(s)' /\ Frames(s)'[i] = Frames(s)[i]
      BY <1>5
    <3> QED
      BY <2>1, <3>1, ClientsPart DEF Hopeless
  <2>2. ASSUME Processed(s) PROVE Processed(s)' /\ client[s] = "unsubscribing"
    <3>1. Removes(s) /\ client[s] = "unsubscribing"
      BY <1>7, <2>2 DEF Processed, Removes
    <3>2. p = k - n /\ n < k
      BY <1>3, <1>5, <1>6, <2>2 DEF Processed
    <3>3. \A i \in DOMAIN Frames(s)' : Frames(s)'[i].kind = "message" <=> i > k
      <4> SUFFICES ASSUME NEW i \in 1 .. n + 1 PROVE Frames(s)'[i].kind = "message" <=> i > k
        BY <1>5
      <4>1. CASE i = n + 1
        BY <1>1, <1>5, <1>6, <3>2, <4>1
      <4>2. CASE i \in 1 .. n
        BY <1>5, <2>2, <4>2 DEF Processed
      <4> QED
        BY <1>5, <4>1, <4>2
    <3>4. Len(pending'[s]) = IF Len(Frames(s)') < k THEN k - Len(Frames(s)') ELSE 0
      BY <1>3, <1>5, <1>6, <3>2
    <3>5. Removes(s)'
      <4> DEFINE C == {Frames(s)[i].channel : i \in {j \in DOMAIN Frames(s) : j <= k}}
                 D == {Frames(s)'[i].channel : i \in {j \in DOMAIN Frames(s)' : j <= k}}
      <4>1. D \subseteq C \cup {ch}
        <5> SUFFICES ASSUME NEW i \in 1 .. n + 1, i <= k
                     PROVE  Frames(s)'[i].channel \in C \cup {ch}
          BY <1>5
        <5>1. CASE i = n + 1
          BY <1>1, <1>5, <5>1
        <5>2. CASE i \in 1 .. n
          BY <1>5, <5>2
        <5> QED
          BY <1>5, <5>1, <5>2
      <4>2. C \subseteq D
        <5> SUFFICES ASSUME NEW i \in 1 .. n, i <= k PROVE Frames(s)[i].channel \in D
          BY <1>5
        <5>1. i \in DOMAIN Frames(s)' /\ Frames(s)'[i] = Frames(s)[i]
          BY <1>5
        <5> QED
          BY <5>1
      <4>3. ch \in D
        <5>1. n + 1 \in DOMAIN Frames(s)' /\ n + 1 <= k /\ Frames(s)'[n + 1].channel = ch
          BY <1>1, <1>5, <1>6, <3>2
        <5> QED
          BY <5>1
      <4>4. Subscribed(s) = Elements(listed[s]) \ C
        BY <3>1 DEF Removes
      <4>5. Subscribed(s)' = Elements(listed[s]) \ D
        <5> HIDE DEF C, D, ch
        <5> QED
          BY <1>4, <4>1, <4>2, <4>3, <4>4
      <4>6. client'[s] = client[s] /\ left'[s] = k /\ listed'[s] = listed[s]
        BY ClientsPart
      <4> QED
        BY <1>1, <3>1, <4>5, <4>6 DEF Removes
    <3>6. Processed(s)'
      BY <1>1, <2>2, <3>3, <3>4, <3>5, ClientsPart DEF Processed
    <3> QED
      BY <3>1, <3>6
  <2>3. ASSUME RepeatsAll(s) PROVE Hopeless(s)' /\ client[s] = "unsubscribing"
    <3>1. RepeatsAll(s)'
      BY <1>1, <2>3, ClientsPart DEF RepeatsAll
    <3> QED
      BY <2>3, <3>1 DEF Hopeless, RepeatsAll
  <2>4. InCall(s) /\ k > 0
    BY <1>1, <1>7, <1>8, BusyConversation
  <2>5. \/ Hopeless(s)' /\ \E i \in DOMAIN Frames(s) : i <= k /\ Frames(s)[i].kind = "message"
        \/ (Hopeless(s)' \/ Processed(s)') /\ client[s] = "unsubscribing"
    BY <1>1, <1>7, <1>8, <2>1, <2>2, <2>3, BusyConversation
  <2>6. client[s] = "unsubscribing" => Expects(s, n + 1, out'[s])
    BY <1>1 DEF Expects
  <2> QED
    BY <1>1, <1>2, <1>6, <2>4, <2>5, <2>6, MoreFrames
<1> QED
  BY <1>1, <1>7, <1>8, BusyConversation, ClientsPart DEF Conversation

\* A message is at hand.
LEMMA MessageInStep ==
  ASSUME SessionOK, NEW s \in Subscribers, NEW ch \in Channels, Conversation(s), ~failed[s],
         NextMessage(s, ch), UNCHANGED <<own, sockets>>
  PROVE  Conversation(s)'
<1> DEFINE n == Len(Frames(s))
           k == left[s]
<1>1. NextPosition(s, ch) \in Nat
  BY PositionInRange DEF SessionOK, IInv
<1>2. /\ pc[s] \in {"subscribing", "unsubscribing"} /\ pc'[s] = pc[s] /\ pending'[s] = pending[s]
      /\ pending[s] = <<>> /\ requests'[s] = requests[s] /\ inbound'[s] = inbound[s]
      /\ out[s] = None /\ out'[s].kind = "message"
      /\ subs'[s] = [subs[s] EXCEPT ![ch] = NextPosition(s, ch) + 1] /\ ch \in Subscribed(s)
  BY DEF NextMessage, InSelect, sockets, SessionOK, IInv, TypeOK
<1>3. out'[s] # None
  <2>1. out'[s] \in Message
    BY <1>1 DEF NextMessage, SessionOK, IInv, TypeOK, Message
  <2> QED
    BY <2>1, Kinds
<1>4. Subscribed(s)' = Subscribed(s)
  <2>1. NextPosition(s, ch) + 1 # None
    BY <1>1, PubSubAssumption
  <2>2. subs[s] \in [Channels -> Nat \cup {None}]
    BY DEF SessionOK, IInv, TypeOK
  <2> QED
    BY <1>2, <2>1, <2>2 DEF Subscribed
<1>5. /\ n \in Nat /\ Len(Frames(s)') = n + 1
      /\ DOMAIN Frames(s) = 1 .. n /\ DOMAIN Frames(s)' = 1 .. n + 1
      /\ \A i \in 1 .. n : Frames(s)'[i] = Frames(s)[i]
      /\ Frames(s)'[n + 1] = out'[s]
  BY <1>2, <1>3, FramesGrow
<1>6. k \in Nat
  BY SessionFacts
<1>7. (Served(s) => Served(s)') /\ (Doomed(s) => Doomed(s)')
  BY <1>2, <1>4 DEF Served, Doomed, Quiet, OnlyNoOps
<1>8. ASSUME NEW list, Agreed(s, list) PROVE Agreed(s, list)'
  <2>1. ASSUME NEW i \in DOMAIN Frames(s)' PROVE Frames(s)'[i].kind = "message"
    <3>1. CASE i = n + 1
      BY <1>2, <1>5, <3>1
    <3>2. CASE i \in 1 .. n
      BY <1>5, <1>8, <3>2 DEF Agreed
    <3> QED
      BY <1>5, <3>1, <3>2
  <2> QED
    BY <1>4, <1>7, <1>8, <2>1 DEF Agreed
<1>9. ASSUME client[s] \in Calling PROVE InCall(s)'
  <2>0. InCall(s)
    BY <1>2, <1>9 DEF Conversation
  <2>1. ASSUME NEW i \in DOMAIN Frames(s), i <= k, Frames(s)[i].kind = "message"
        PROVE  Hopeless(s)'
    <3>1. i \in DOMAIN Frames(s)' /\ Frames(s)'[i] = Frames(s)[i]
      BY <1>5
    <3> QED
      BY <2>1, <3>1, ClientsPart DEF Hopeless
  <2>2. ASSUME Frames(s) = <<>>, k > 0 PROVE Hopeless(s)'
    <3>1. n = 0
      BY <2>2
    <3>2. 1 \in DOMAIN Frames(s)' /\ Frames(s)'[1] = out'[s] /\ 1 <= k
      BY <1>5, <1>6, <2>2, <3>1
    <3> QED
      BY <1>2, <3>2, ClientsPart DEF Hopeless
  <2>3. ASSUME RepeatsAll(s) PROVE Hopeless(s)'
    <3>1. RepeatsAll(s)'
      BY <1>2, <2>3, ClientsPart DEF RepeatsAll
    <3> QED
      BY <3>1 DEF Hopeless
  <2>4. ASSUME Processed(s) PROVE Processed(s)'
    <3>1. Len(pending[s]) = 0
      BY <1>2
    <3>2. ~(n < k)
      BY <1>5, <1>6, <2>4, <3>1 DEF Processed
    <3>3. Len(pending'[s]) = IF Len(Frames(s)') < k THEN k - Len(Frames(s)') ELSE 0
      BY <1>2, <1>5, <1>6, <3>1, <3>2
    <3>4. \A i \in DOMAIN Frames(s)' : Frames(s)'[i].kind = "message" <=> i > k
      <4> SUFFICES ASSUME NEW i \in 1 .. n + 1 PROVE Frames(s)'[i].kind = "message" <=> i > k
        BY <1>5
      <4>1. CASE i = n + 1
        BY <1>2, <1>5, <1>6, <3>2, <4>1
      <4>2. CASE i \in 1 .. n
        BY <1>5, <2>4, <4>2 DEF Processed
      <4> QED
        BY <1>5, <4>1, <4>2
    <3>5. ASSUME Adds(s) PROVE Adds(s)'
      BY <1>2, <1>4, <3>5, ClientsPart DEF Adds
    <3>6. ASSUME Removes(s) PROVE Removes(s)'
      <4> DEFINE C == {Frames(s)[i].channel : i \in {j \in DOMAIN Frames(s) : j <= k}}
                 D == {Frames(s)'[i].channel : i \in {j \in DOMAIN Frames(s)' : j <= k}}
      <4>1. {j \in DOMAIN Frames(s)' : j <= k} = {j \in DOMAIN Frames(s) : j <= k}
        BY <1>5, <1>6, <3>2
      <4>2. \A i \in {j \in DOMAIN Frames(s) : j <= k} : Frames(s)'[i] = Frames(s)[i]
        BY <1>5
      <4>3. D = C
        BY <4>1, <4>2
      <4>4. Subscribed(s)' = Elements(listed[s]) \ D
        BY <1>4, <3>6, <4>3 DEF Removes
      <4>5. client'[s] = client[s] /\ left'[s] = k /\ listed'[s] = listed[s]
        BY ClientsPart
      <4> QED
        BY <1>2, <3>6, <4>4, <4>5 DEF Removes
    <3> QED
      BY <1>2, <2>4, <3>3, <3>4, <3>5, <3>6, ClientsPart DEF Processed
  <2>5. left[s] = 0 => Agreed(s, ListAfter(s))'
    BY <1>8, <2>0, ClientsPart DEF InCall
  <2>6. left[s] > 0 => Hopeless(s)' \/ Processed(s)'
    <3>1. InFlight(s) => Frames(s) = <<>>
      BY DEF InFlight
    <3> QED
      BY <1>6, <1>9, <2>0, <2>1, <2>2, <2>3, <2>4, <3>1, OngoingCall
  <2> QED
    BY <1>2, <1>3, <2>0, <2>5, <2>6, MoreFrames
<1> QED
  BY <1>2, <1>8, <1>9, ClientsPart DEF Conversation, Fresh

-------------------------------------------------------------------------------
(* In step: the theorems.                                                  *)

\* A step of one client and its task leaves the others' conversations alone.
LEMMA OthersConversations ==
  ASSUME SessionOK, NEW s \in Subscribers, ClientNext(s) \/ ServerNext(s),
         NEW t \in Subscribers, t # s
  PROVE  UNCHANGED Whole(t)
<1> DEFINE raw == <<client[t], listed[t], argument[t], left[t], requests[t], inbound[t], failed[t],
                    pc[t], pending[t], subs[t], out[t]>>
<1>0. UNCHANGED raw => UNCHANGED Whole(t)
  BY DEF Whole, Frames, AtHand, Subscribed
<1> USE DEF SessionOK, SessionTypes, RequestsTyped, IInv, TypeOK
<1>1. ASSUME NEW state, NEW op, NEW channels, NEW num, Begin(s, state, op, channels, num)
      PROVE  UNCHANGED raw
  BY <1>1 DEF Begin, vars
<1>2. ASSUME CallStep(s) \/ WriteFails(s) \/ Abandon(s) \/ TakeMessage(s) \/ Leave(s)
      PROVE  UNCHANGED raw
  BY <1>2 DEF CallStep, ReadSubscribed, ReadUnsubscribed, Return, CallFails, WriteFails, Abandon,
              TakeMessage, Leave, Fail, vars, sockets
<1>3. ASSUME ServerReads(s) PROVE UNCHANGED raw
  <2>1. CASE Subscribe(s, Head(requests[s]).channels)
    BY <1>3, <2>1 DEF ServerReads, Subscribe, own
  <2>2. CASE Unsubscribe(s, Head(requests[s]).channels)
    BY <1>3, <2>2 DEF ServerReads, Unsubscribe, own
  <2>3. CASE End(s)
    BY <1>3, <2>3 DEF ServerReads, End, own
  <2> QED
    BY <1>3, <2>1, <2>2, <2>3 DEF ServerReads
<1>4. ASSUME ServerWorks(s) PROVE UNCHANGED raw
  <2>1. CASE DbSubscribe(s)
    BY <1>4, <2>1 DEF ServerWorks, DbSubscribe, own, sockets
  <2>2. CASE Insert(s)
    BY <1>4, <2>2 DEF ServerWorks, Insert, own, sockets
  <2>3. CASE Remove(s)
    BY <1>4, <2>3 DEF ServerWorks, Remove, own, sockets
  <2> QED
    BY <1>4, <2>1, <2>2, <2>3 DEF ServerWorks
<1>5. ASSUME NEW ch \in Channels, ServerForwards(s, ch) PROVE UNCHANGED raw
  BY <1>5 DEF ServerForwards, NextMessage, own, sockets
<1>6. ASSUME ServerWrites(s) \/ ServerEnds(s) PROVE UNCHANGED raw
  <2>1. CASE ServerWrites(s)
    BY <2>1 DEF ServerWrites, FrameWritten, own
  <2>2. CASE ServerEnds(s)
    <3>1. inbound'[t] = inbound[t]
      BY <2>2 DEF ServerEnds
    <3> QED
      BY <2>2, <3>1 DEF ServerEnds, End, own
  <2> QED
    BY <1>6, <2>1, <2>2
<1> QED
  BY <1>0, <1>1, <1>2, <1>3, <1>4, <1>5, <1>6
     DEF ClientNext, ServerNext, Join, CallSubscribe, CallUnsubscribe

\* A step of a client keeps its conversation in step.
LEMMA ClientInStep ==
  ASSUME SessionOK, NEW s \in Subscribers, Conversation(s), ClientNext(s)
  PROVE  Conversation(s)'
<1> SUFFICES ASSUME ~failed'[s], pc'[s] # "ended" PROVE Conversation(s)'
  BY DEF Conversation
<1> USE DEF SessionOK, SessionTypes
<1>1. pc'[s] = pc[s] /\ (failed'[s] = failed[s] \/ failed'[s] = TRUE)
  BY DEF ClientNext, Join, CallSubscribe, CallUnsubscribe, Begin, CallStep, ReadSubscribed,
         ReadUnsubscribed, Return, CallFails, WriteFails, Abandon, TakeMessage, Leave, Fail, vars
<1>2. ~failed[s] /\ pc[s] # "ended"
  BY <1>1
<1>3. ASSUME NEW channels \in Lists, Join(s, channels) PROVE Conversation(s)'
  <2>1. channels \in Seq(Channels) /\ Fresh(s)
    BY <1>2, <1>3, ListsAreSequences DEF Join, Conversation
  <2>2. InCall(s)' /\ client'[s] = "joining"
    BY <1>3, <2>1, JoinConversation DEF Join, Begin
  <2> QED
    BY <2>2 DEF Conversation
<1>4. ASSUME NEW channels \in Lists, CallSubscribe(s, channels) \/ CallUnsubscribe(s, channels)
      PROVE  Conversation(s)'
  <2>1. channels \in Seq(Channels) /\ Agreed(s, listed[s])
    BY <1>2, <1>4, ListsAreSequences DEF CallSubscribe, CallUnsubscribe, Conversation
  <2>2. CASE CallSubscribe(s, channels)
    <3>1. InCall(s)'
      BY <2>1, <2>2, CallsInStep DEF CallSubscribe
    <3>2. client'[s] = "subscribing"
      BY <2>2 DEF CallSubscribe, Begin
    <3> QED
      BY <3>1, <3>2 DEF Conversation
  <2>3. CASE CallUnsubscribe(s, channels)
    <3>1. InCall(s)'
      BY <2>1, <2>3, CallsInStep DEF CallUnsubscribe
    <3>2. client'[s] = "unsubscribing"
      BY <2>3 DEF CallUnsubscribe, Begin
    <3> QED
      BY <3>1, <3>2 DEF Conversation
  <2> QED
    BY <1>4, <2>2, <2>3
<1>5. ASSUME ReadSubscribed(s) PROVE Conversation(s)'
  <2>1. /\ Confirms(s, Head(inbound[s])) /\ left' = [left EXCEPT ![s] = @ - 1]
        /\ UNCHANGED client /\ InCall(s)
    BY <1>2, <1>5 DEF ReadSubscribed, Fail, Conversation, Calling
  <2>2. InCall(s)' /\ client'[s] \in {"joining", "subscribing"}
    BY <1>5, <2>1, SubscribedInStep DEF ReadSubscribed
  <2> QED
    BY <2>2 DEF Conversation
<1>6. ASSUME ReadUnsubscribed(s) PROVE Conversation(s)'
  <2>1. /\ Head(inbound[s]).kind = "unsubscribe"
        /\ Len(Retained(s, Head(inbound[s]).channel)) = Len(listed[s]) - 1
        /\ listed' = [listed EXCEPT ![s] = Retained(s, Head(inbound[s]).channel)]
        /\ left' = [left EXCEPT ![s] = @ - 1]
        /\ UNCHANGED client /\ InCall(s)
    BY <1>2, <1>6 DEF ReadUnsubscribed, Fail, Conversation, Calling
  <2>2. InCall(s)' /\ client'[s] = "unsubscribing"
    BY <1>6, <2>1, UnsubscribedInStep DEF ReadUnsubscribed
  <2> QED
    BY <2>2 DEF Conversation
<1>7. ASSUME Return(s) PROVE Conversation(s)'
  <2>1. Agreed(s, listed[s])' /\ client'[s] = "idle"
    BY <1>2, <1>7, ReturnInStep DEF Return, Conversation
  <2> QED
    BY <2>1 DEF Conversation, Calling
<1>8. ASSUME TakeMessage(s) PROVE Conversation(s)'
  <2>1. Agreed(s, listed[s])' /\ client'[s] = "idle"
    BY <1>2, <1>8, TakeInStep DEF TakeMessage, Conversation
  <2> QED
    BY <2>1 DEF Conversation, Calling
<1>9. ASSUME Leave(s) PROVE Conversation(s)'
  BY <1>9 DEF Leave, Conversation, Calling
<1>10. ~(CallFails(s) \/ WriteFails(s) \/ Abandon(s))
  BY <1>1, <1>2 DEF CallFails, WriteFails, Abandon, Fail
<1> QED
  BY <1>3, <1>4, <1>5, <1>6, <1>7, <1>8, <1>9, <1>10 DEF ClientNext, CallStep

\* A step of its task does, too.
LEMMA ServerInStep ==
  ASSUME SessionOK, NEW s \in Subscribers, Conversation(s), ServerNext(s)
  PROVE  Conversation(s)'
<1> SUFFICES ASSUME ~failed'[s], pc'[s] # "ended" PROVE Conversation(s)'
  BY DEF Conversation
<1>1. failed'[s] = failed[s]
  BY DEF ServerNext, ServerReads, ServerWorks, ServerForwards, ServerWrites, ServerEnds, own
<1>2. ~End(s)
  BY DEF End, SessionOK, IInv, TypeOK
<1>3. ASSUME ServerReads(s) PROVE Conversation(s)'
  <2>1. /\ requests[s] # <<>> /\ requests' = [requests EXCEPT ![s] = Tail(@)]
        /\ UNCHANGED <<own, inbound>>
    BY <1>3 DEF ServerReads
  <2>2. CASE Head(requests[s]).op = "subscribe" /\ Subscribe(s, Head(requests[s]).channels)
    <3>1. pc[s] # "ended"
      BY <2>2 DEF Subscribe, InSelect
    <3> QED
      BY <1>1, <2>1, <2>2, <3>1, SubscribeInStep
  <2>3. CASE Head(requests[s]).op = "unsubscribe" /\ Unsubscribe(s, Head(requests[s]).channels)
    <3>1. pc[s] # "ended"
      BY <2>3 DEF Unsubscribe, InSelect
    <3> QED
      BY <1>1, <2>1, <2>3, <3>1, UnsubscribeInStep
  <2> QED
    BY <1>2, <1>3, <2>2, <2>3 DEF ServerReads
<1>4. ASSUME ServerWorks(s) PROVE Conversation(s)'
  BY <1>1, <1>4, DbSubscribeInStep, InsertInStep, RemoveInStep DEF ServerWorks
<1>5. ASSUME NEW ch \in Channels, ServerForwards(s, ch) PROVE Conversation(s)'
  BY <1>1, <1>5, MessageInStep DEF ServerForwards
<1>6. ASSUME ServerWrites(s) PROVE Conversation(s)'
  <2>1. /\ out[s] # None /\ out'[s] = None /\ inbound'[s] = Append(inbound[s], out[s])
        /\ UNCHANGED <<own, requests, pc, pending, subs>>
    BY <1>6 DEF ServerWrites, FrameWritten, SessionOK, SessionTypes, IInv, TypeOK
  <2>2. Frames(s)' = Frames(s)
    BY <2>1, FramesWritten
  <2>3. UNCHANGED Whole(s)
    BY <2>1, <2>2 DEF Whole, own, Subscribed
  <2> QED
    BY <2>3, UntouchedConversation
<1> QED
  BY <1>2, <1>3, <1>4, <1>5, <1>6 DEF ServerNext, ServerEnds

\* Each step of the session keeps every conversation in step.
LEMMA StepSession == SessionOK /\ SessionIInv /\ [SessionNext]_sessionVars => SessionIInv'
<1> SUFFICES ASSUME SessionOK, SessionIInv, [SessionNext]_sessionVars, NEW t \in Subscribers
             PROVE  Conversation(t)'
  BY DEF SessionIInv
<1>0. Conversation(t)
  BY DEF SessionIInv
<1>1. CASE Published \/ UNCHANGED sessionVars
  <2>1. UNCHANGED Whole(t)
    BY <1>1 DEF Published, Publish, sessionVars, vars, own, sockets, Whole, Frames, AtHand, Subscribed
  <2> QED
    BY <1>0, <2>1, UntouchedConversation
<1>2. ASSUME NEW s \in Subscribers, ClientNext(s) \/ ServerNext(s) PROVE Conversation(t)'
  <2>1. CASE s = t
    BY <1>0, <1>2, <2>1, ClientInStep, ServerInStep
  <2>2. CASE s # t
    BY <1>0, <1>2, <2>2, OthersConversations, UntouchedConversation
  <2> QED
    BY <2>1, <2>2
<1> QED
  BY <1>1, <1>2 DEF SessionNext

\* In the first state every client is a Client that has sent nothing.
LEMMA InitSession == SessionInit => SessionIInv
<1> SUFFICES ASSUME SessionInit, NEW s \in Subscribers PROVE Conversation(s)
  BY DEF SessionIInv
<1>1. /\ client[s] = "client" /\ requests[s] = <<>> /\ inbound[s] = <<>> /\ out[s] = None
      /\ listed[s] = <<>> /\ pc[s] = "serving" /\ pending[s] = <<>>
      /\ subs[s] = [ch \in Channels |-> None]
  BY DEF SessionInit, Init
<1>2. Frames(s) = <<>> /\ Subscribed(s) = {}
  BY <1>1 DEF Frames, AtHand, Subscribed
<1> QED
  BY <1>1, <1>2 DEF Conversation, Fresh, Calling

\* What holds of every session.
THEOREM SessionInvariance == SessionSafeSpec => [](SessionOK /\ SessionIInv)
BY SessionInitOK, InitSession, StepSessionOK, StepSession, PTL DEF SessionSafeSpec

\* A Subscriber none of whose calls has failed lists what the server has it subscribed
\* to, and the next frame it is sent is a message.
THEOREM InStepCorrect == SessionSafeSpec => []InStep
<1>1. SessionOK /\ SessionIInv => InStep
  <2> SUFFICES ASSUME SessionOK, SessionIInv, NEW s \in Subscribers,
                      client[s] = "idle", ~failed[s], pc[s] # "ended"
               PROVE  /\ {listed[s][i] : i \in DOMAIN listed[s]} = Subscribed(s)
                      /\ out[s] # None => out[s].kind = "message"
                      /\ \A i \in DOMAIN inbound[s] : inbound[s][i].kind = "message"
    BY DEF InStep
  <2>1. Agreed(s, listed[s])
    BY DEF SessionIInv, Conversation
  <2>2. inbound[s] \in Seq(Confirmation \cup Message)
    BY FramesTyped
  <2>3. \A i \in DOMAIN inbound[s] : i \in DOMAIN Frames(s) /\ Frames(s)[i] = inbound[s][i]
    <3>1. AtHand(s) \in Seq(Confirmation \cup Message)
      BY FramesTyped
    <3> HIDE DEF AtHand
    <3> QED
      BY <2>2, <3>1 DEF Frames
  <2>4. ASSUME out[s] # None PROVE out[s].kind = "message"
    <3>1. Frames(s) = Append(inbound[s], out[s])
      BY <2>2, <2>4 DEF Frames, AtHand
    <3>2. /\ Len(inbound[s]) + 1 \in DOMAIN Frames(s)
          /\ Frames(s)[Len(inbound[s]) + 1] = out[s]
      BY <2>2, <3>1, AppendEntries
    <3> QED
      BY <2>1, <3>2 DEF Agreed
  <2> QED
    BY <2>1, <2>3, <2>4 DEF Agreed, Elements
<1> QED
  BY <1>1, SessionInvariance, PTL

\* A frame a call takes for its confirmation is the one it waits for, or a message.
LEMMA NextExpected ==
  ASSUME SessionOK, NEW s \in Subscribers, InCall(s), left[s] > 0, inbound[s] # <<>>,
         Head(inbound[s]).kind # "message"
  PROVE  Expects(s, 1, Head(inbound[s]))
<1>1. inbound[s] \in Seq(Confirmation \cup Message) /\ AtHand(s) \in Seq(Confirmation \cup Message)
  BY FramesTyped
<1>2. 1 \in DOMAIN Frames(s) /\ Frames(s)[1] = Head(inbound[s])
  <2> HIDE DEF AtHand
  <2> QED
    BY <1>1 DEF Frames
<1>3. Clear(s, 1) /\ 1 <= left[s]
  <2>1. left[s] \in Nat
    BY SessionFacts
  <2> QED
    BY <1>2, <2>1 DEF Clear
<1> QED
  BY <1>2, <1>3 DEF InCall

\* The first call of a Subscriber to fail fails because the connection is over, it was
\* given up, a message came before a confirmation, or it named a channel that is not
\* on the list exactly once.
THEOREM FailuresHaveCause == SessionSafeSpec => FailsForCause
<1> DEFINE Cause(s) ==
             \/ pc[s] = "ended"
             \/ Abandon(s)
             \/ Head(inbound[s]).kind = "message"
             \/ /\ client[s] = "unsubscribing"
                /\ Cardinality({i \in DOMAIN listed[s] :
                                  listed[s][i] = Head(inbound[s]).channel}) # 1
<1>1. ASSUME SessionOK, SessionIInv, [SessionNext]_sessionVars,
             NEW s \in Subscribers, ~failed[s], failed'[s]
      PROVE  Cause(s)
  <2> USE DEF SessionOK, SessionTypes
  <2>0. SUFFICES ASSUME pc[s] # "ended" PROVE Cause(s)
    OBVIOUS
  <2>1. Conversation(s) /\ failed'[s] # failed[s]
    BY <1>1 DEF SessionIInv
  <2>2. ~(Published \/ UNCHANGED sessionVars)
    BY <2>1 DEF Published, sessionVars, own
  <2>3. ASSUME NEW t \in Subscribers, ClientNext(t) \/ ServerNext(t), t # s PROVE FALSE
    <3>1. UNCHANGED Whole(s)
      BY <1>1, <2>3, OthersConversations
    <3> QED
      BY <2>1, <3>1 DEF Whole
  <2>4. ~ServerNext(s)
    BY <2>1 DEF ServerNext, ServerReads, ServerWorks, ServerForwards, ServerWrites, ServerEnds, own
  <2>5. ClientNext(s)
    BY <1>1, <2>2, <2>3, <2>4 DEF SessionNext
  <2>6. ASSUME NEW channels \in Lists,
               Join(s, channels) \/ CallSubscribe(s, channels) \/ CallUnsubscribe(s, channels)
        PROVE  FALSE
    BY <2>1, <2>6 DEF Join, CallSubscribe, CallUnsubscribe, Begin
  <2>7. CASE ReadSubscribed(s)
    <3> SUFFICES ASSUME Head(inbound[s]).kind # "message" PROVE FALSE
      OBVIOUS
    <3>1. /\ InCall(s) /\ left[s] > 0 /\ inbound[s] # <<>> /\ ~Confirms(s, Head(inbound[s]))
          /\ client[s] # "unsubscribing"
      BY <1>1, <2>0, <2>1, <2>7 DEF ReadSubscribed, Conversation, Calling
    <3>2. Expects(s, 1, Head(inbound[s]))
      BY <1>1, <3>1, NextExpected
    <3> QED
      BY <3>1, <3>2 DEF Expects, Confirms
  <2>8. CASE ReadUnsubscribed(s)
    <3> SUFFICES ASSUME Head(inbound[s]).kind # "message",
                        Cardinality({i \in DOMAIN listed[s] :
                                       listed[s][i] = Head(inbound[s]).channel}) = 1
                 PROVE  FALSE
      BY <2>8 DEF ReadUnsubscribed
    <3>1. /\ InCall(s) /\ left[s] > 0 /\ inbound[s] # <<>> /\ client[s] = "unsubscribing"
          /\ \/ Head(inbound[s]).kind # "unsubscribe"
             \/ Len(Retained(s, Head(inbound[s]).channel)) # Len(listed[s]) - 1
      BY <1>1, <2>0, <2>1, <2>8 DEF ReadUnsubscribed, Conversation, Calling
    <3>2. Head(inbound[s]).kind = "unsubscribe"
      BY <1>1, <3>1, NextExpected DEF Expects
    <3>3. Len(Retained(s, Head(inbound[s]).channel)) = Len(listed[s]) - 1
      <4> DEFINE ch == Head(inbound[s]).channel
      <4>1. listed[s] \in Seq(Channels) /\ Retained(s, ch) = Without(listed[s], ch)
        BY <1>1 DEF Retained
      <4> HIDE DEF ch
      <4>2. Len(Without(listed[s], ch)) = Len(listed[s]) - Cardinality({i \in DOMAIN listed[s] : listed[s][i] = ch})
        BY <4>1, WithoutKeeps
      <4> QED
        BY <4>1, <4>2 DEF ch
    <3> QED
      BY <3>1, <3>2, <3>3
  <2>9. CASE TakeMessage(s)
    <3>1. /\ Agreed(s, listed[s]) /\ inbound[s] # <<>> /\ inbound'[s] = Tail(inbound[s])
          /\ out'[s] = out[s] /\ Head(inbound[s]).kind # "message"
      BY <1>1, <2>0, <2>1, <2>9 DEF TakeMessage, Conversation, vars
    <3>2. Frames(s) # <<>> /\ Frames(s)[1] = Head(inbound[s])
      BY <1>1, <3>1, FramesRead
    <3>3. 1 \in DOMAIN Frames(s)
      BY <1>1, <3>2, FramesTyped
    <3> QED
      BY <3>1, <3>2, <3>3 DEF Agreed
  <2>10. ~Return(s) /\ ~Leave(s) /\ ~CallFails(s) /\ ~WriteFails(s)
    BY <2>0, <2>1 DEF Return, Leave, CallFails, WriteFails
  <2> QED
    BY <2>5, <2>6, <2>7, <2>8, <2>9, <2>10 DEF ClientNext, CallStep
<1>2. SessionOK /\ SessionIInv /\ [SessionNext]_sessionVars
        => [\A s \in Subscribers : ~failed[s] /\ failed'[s] => Cause(s)]_sessionVars
  BY <1>1
<1> QED
  BY <1>2, SessionInvariance, PTL DEF SessionSafeSpec, FailsForCause

===============================================================================
