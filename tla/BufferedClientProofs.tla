------------------------- MODULE BufferedClientProofs -------------------------
(***************************************************************************)
(* Theorems about BufferedClient, for any number of callers, calls, keys   *)
(* and values and any capacity of the queue: an answer found by its        *)
(* position alone is the answer to the request at hand, and the client     *)
(* keeps the promise of CallStore to each of the tasks that share it.      *)
(***************************************************************************)
EXTENDS BufferedClient, SequenceLemmas

-------------------------------------------------------------------------------
(* The invariant.                                                          *)

\* What the server replies, and what a call returns.
Replies   == Values \cup {None, OK}
Responses == {Nothing, Failed} \cup {Value(v) : v \in Replies}

AnswerTypes ==
  /\ inbound \in Seq(Replies)
  /\ response \in Responses
  /\ oneshot \in [Callers -> Responses]
  /\ answer \in [Callers -> Responses]

\* A caller that is sending or waiting has a command, of a call it made.
Called ==
  \A c \in Callers :
    call[c] \in {"sending", "waiting"} => made[c] >= 1 /\ request[c] \in Commands

\* A caller is in the line for room once.
LineOnce ==
  /\ waiting \in Seq(Callers)
  /\ \A i, j \in DOMAIN waiting : waiting[i] = waiting[j] => i = j

\* The owner has a message at hand exactly while it works at one.
AtHand ==
  /\ run \in {"write", "read", "answer"} => current \in Messages
  /\ run \in {"recv", "ended"} => current = None

Types == TypeOK /\ AnswerTypes /\ Called /\ LineOnce /\ AtHand

\* The reply in the socket of a working connection fits the current request.
ReplyFits == alive /\ inbound # <<>> /\ current.cmd.op = "set" => Head(inbound) = OK

\* An error is on its way to a caller, or has arrived, only when the connection is
\* broken.
ErrorsOfBreak ==
  /\ response = Failed => ~alive
  /\ \A c \in Callers : oneshot[c] = Failed => ~alive
  /\ FailsOnlyWhenBroken

\* The task ends with nothing queued and no handle left.
EndedForGood == run = "ended" => queue = <<>> /\ \A c \in Callers : call[c] = "gone"

IInv == Types /\ OneInFlight /\ ReplyFits /\ ErrorsOfBreak /\ EndedForGood

-------------------------------------------------------------------------------
(* Lemmas about the line for room.                                         *)

\* RemoveAt leaves out the element at its index and keeps the order.
LEMMA RemoveAtElements ==
  ASSUME NEW S, NEW s \in Seq(S), NEW i \in DOMAIN s
  PROVE  /\ RemoveAt(s, i) \in Seq(S)
         /\ Len(RemoveAt(s, i)) = Len(s) - 1
         /\ \A k \in 1 .. Len(s) - 1 :
              RemoveAt(s, i)[k] = IF k < i THEN s[k] ELSE s[k + 1]
<1> DEFINE front == SubSeq(s, 1, i - 1)
           back  == SubSeq(s, i + 1, Len(s))
<1>1. Len(s) \in Nat /\ i \in 1 .. Len(s) /\ DOMAIN s = 1 .. Len(s)
  OBVIOUS
<1>2. /\ front \in Seq(S) /\ Len(front) = i - 1
      /\ \A k \in 1 .. i - 1 : front[k] = s[k]
  BY <1>1
<1>3. /\ back \in Seq(S) /\ Len(back) = Len(s) - i
      /\ \A k \in 1 .. Len(s) - i : back[k] = s[i + k]
  BY <1>1
<1> HIDE DEF front, back
<1>4. /\ front \o back \in Seq(S)
      /\ Len(front \o back) = Len(front) + Len(back)
      /\ \A k \in 1 .. Len(front) + Len(back) :
           (front \o back)[k] = IF k <= Len(front) THEN front[k] ELSE back[k - Len(front)]
  BY SMTT(30), <1>2, <1>3
<1>5. Len(front \o back) = Len(s) - 1
  BY <1>1, <1>2, <1>3, <1>4
<1>6. ASSUME NEW k \in 1 .. Len(s) - 1
      PROVE  (front \o back)[k] = IF k < i THEN s[k] ELSE s[k + 1]
  <2>1. /\ k \in 1 .. Len(front) + Len(back)
        /\ k <= Len(front) <=> k < i
        /\ k - Len(front) = k - (i - 1)
    BY <1>1, <1>2, <1>3
  <2>2. (front \o back)[k] = IF k < i THEN front[k] ELSE back[k - (i - 1)]
    BY <2>1, <1>4
  <2>3. CASE k < i
    <3>1. k \in 1 .. i - 1
      BY <2>3, <1>1
    <3> QED
      BY <3>1, <2>2, <2>3, <1>2
  <2>4. CASE k >= i
    <3>1. k - (i - 1) \in 1 .. Len(s) - i
      BY <2>4, <1>1
    <3>2. back[k - (i - 1)] = s[i + (k - (i - 1))]
      BY <3>1, <1>3
    <3>3. i + (k - (i - 1)) = k + 1 /\ ~(k < i)
      BY <2>4, <1>1
    <3>4. back[k - (i - 1)] = s[k + 1]
      BY <3>2, <3>3
    <3> QED
      BY <2>2, <3>3, <3>4
  <2>5. k < i \/ k >= i
    BY <1>1
  <2> QED
    BY <2>3, <2>4, <2>5
<1> QED
  BY <1>4, <1>5, <1>6 DEF RemoveAt, front, back

\* Who leaves the line leaves it altogether, and nobody else does.
LEMMA LeaveLine ==
  ASSUME NEW S, NEW s \in Seq(S), NEW i \in DOMAIN s,
         \A j, k \in DOMAIN s : s[j] = s[k] => j = k
  PROVE  /\ ToSet(RemoveAt(s, i)) = ToSet(s) \ {s[i]}
         /\ \A j, k \in DOMAIN RemoveAt(s, i) :
              RemoveAt(s, i)[j] = RemoveAt(s, i)[k] => j = k
<1> DEFINE r == RemoveAt(s, i)
<1>1. /\ r \in Seq(S) /\ Len(r) = Len(s) - 1
      /\ \A k \in 1 .. Len(s) - 1 : r[k] = IF k < i THEN s[k] ELSE s[k + 1]
  BY RemoveAtElements
<1> HIDE DEF r
<1>2. Len(s) \in Nat /\ DOMAIN s = 1 .. Len(s) /\ DOMAIN r = 1 .. Len(s) - 1
  BY <1>1
<1>3. ASSUME NEW k \in DOMAIN r
      PROVE  r[k] \in ToSet(s) \ {s[i]}
  <2>1. CASE k < i
    BY <2>1, <1>1, <1>2 DEF ToSet
  <2>2. CASE k >= i
    <3>1. k + 1 \in DOMAIN s /\ k + 1 # i
      BY <2>2, <1>2
    <3> QED
      BY <2>2, <3>1, <1>1, <1>2 DEF ToSet
  <2> QED
    BY <2>1, <2>2, <1>2
<1>4. ASSUME NEW k \in DOMAIN s, k # i
      PROVE  s[k] \in ToSet(r)
  <2>1. CASE k < i
    <3>1. k \in DOMAIN r /\ r[k] = s[k]
      BY <2>1, <1>1, <1>2
    <3> QED
      BY <3>1 DEF ToSet
  <2>2. CASE k > i
    <3>1. k - 1 \in DOMAIN r /\ r[k - 1] = s[(k - 1) + 1]
      BY <2>2, <1>1, <1>2
    <3>2. (k - 1) + 1 = k
      BY <1>2
    <3> QED
      BY <3>1, <3>2 DEF ToSet
  <2> QED
    BY <2>1, <2>2, <1>2, <1>4
<1>5. ToSet(r) = ToSet(s) \ {s[i]}
  BY <1>3, <1>4 DEF ToSet
<1>6. ASSUME NEW j \in DOMAIN r, NEW k \in DOMAIN r, r[j] = r[k]
      PROVE  j = k
  <2>1. PICK p \in DOMAIN s : p = (IF j < i THEN j ELSE j + 1) /\ r[j] = s[p]
    BY <1>1, <1>2
  <2>2. PICK q \in DOMAIN s : q = (IF k < i THEN k ELSE k + 1) /\ r[k] = s[q]
    BY <1>1, <1>2
  <2>3. p = q
    BY <2>1, <2>2, <1>6
  <2> QED
    BY <2>1, <2>2, <2>3, <1>2
<1> QED
  BY <1>5, <1>6 DEF r

-------------------------------------------------------------------------------
(* Lemmas about a list that loses an entry, and a list taken entry by entry. *)

\* Two lists in one, entry by entry.
LEMMA ConcatEntries ==
  ASSUME NEW V, NEW u \in Seq(V), NEW v \in Seq(V)
  PROVE  /\ u \o v \in Seq(V)
         /\ Len(u) \in Nat /\ Len(v) \in Nat /\ Len(u \o v) = Len(u) + Len(v)
         /\ DOMAIN (u \o v) = 1 .. Len(u) + Len(v)
         /\ \A i \in 1 .. Len(u) : (u \o v)[i] = u[i]
         /\ \A i \in 1 .. Len(v) : (u \o v)[Len(u) + i] = v[i]
OBVIOUS

\* A list with x between two parts of it.
Between(u, x, v) == u \o (<<x>> \o v)

\* x is the entry after the first part, and without that entry the two parts are left.
LEMMA RemoveBetween ==
  ASSUME NEW V, NEW u \in Seq(V), NEW x \in V, NEW v \in Seq(V)
  PROVE  \E n \in 1 .. Len(Between(u, x, v)) :
           Between(u, x, v)[n] = x /\ RemoveAt(Between(u, x, v), n) = u \o v
<1> DEFINE s == <<x>>
           t == s \o v
           p == u \o t
<1>1. /\ s \in Seq(V) /\ Len(s) = 1 /\ s[1] = x
      /\ Len(u) \in Nat /\ Len(v) \in Nat
  OBVIOUS
<1> HIDE DEF s
<1>2. /\ t \in Seq(V) /\ Len(t) = 1 + Len(v) /\ t[1] = x
      /\ \A i \in 1 .. Len(v) : t[1 + i] = v[i]
  <2>1. 1 \in 1 .. Len(s)
    BY <1>1
  <2>2. /\ t \in Seq(V) /\ Len(t) = Len(s) + Len(v)
        /\ \A i \in 1 .. Len(s) : t[i] = s[i]
        /\ \A i \in 1 .. Len(v) : t[Len(s) + i] = v[i]
    <3>1. s \in Seq(V)
      BY <1>1
    <3> QED
      BY <3>1, ConcatEntries
  <2> QED
    BY <1>1, <2>1, <2>2
<1> HIDE DEF t
<1>3. /\ p \in Seq(V) /\ Len(p) = Len(u) + (1 + Len(v)) /\ DOMAIN p = 1 .. Len(p)
      /\ \A i \in 1 .. Len(u) : p[i] = u[i]
      /\ \A i \in 1 .. 1 + Len(v) : p[Len(u) + i] = t[i]
  <2>1. t \in Seq(V)
    BY <1>2
  <2>2. /\ p \in Seq(V) /\ Len(p) = Len(u) + Len(t) /\ DOMAIN p = 1 .. Len(u) + Len(t)
        /\ \A i \in 1 .. Len(u) : p[i] = u[i]
        /\ \A i \in 1 .. Len(t) : p[Len(u) + i] = t[i]
    BY <2>1, ConcatEntries
  <2> QED
    BY <1>2, <2>2
<1> HIDE DEF p
<1>4. Len(u) + 1 \in DOMAIN p /\ p[Len(u) + 1] = x
  <2>1. 1 \in 1 .. 1 + Len(v) /\ Len(u) + 1 \in 1 .. Len(u) + (1 + Len(v))
    BY <1>1
  <2> QED
    BY <1>2, <1>3, <2>1
<1>5. SubSeq(p, 1, (Len(u) + 1) - 1) = u
  <2>1. (Len(u) + 1) - 1 = Len(u) /\ Len(u) <= Len(p)
    BY <1>1, <1>3
  <2>2. SubSeq(p, 1, Len(u)) = u
    <3>1. SubSeq(p, 1, Len(u)) \in Seq(V) /\ Len(SubSeq(p, 1, Len(u))) = Len(u)
      BY <1>1, <1>3, <2>1
    <3>2. \A i \in 1 .. Len(u) : SubSeq(p, 1, Len(u))[i] = u[i]
      BY <1>1, <1>3, <2>1
    <3> QED
      BY <3>1, <3>2, SeqEqual
  <2> QED
    BY <2>1, <2>2
<1>6. SubSeq(p, (Len(u) + 1) + 1, Len(p)) = v
  <2> DEFINE b == SubSeq(p, (Len(u) + 1) + 1, Len(p))
  <2>1. b \in Seq(V) /\ Len(b) = Len(v)
    BY <1>1, <1>3
  <2>2. ASSUME NEW i \in 1 .. Len(v) PROVE b[i] = v[i]
    <3>1. b[i] = p[Len(u) + (1 + i)]
      BY <1>1, <1>3
    <3>2. 1 + i \in 1 .. 1 + Len(v)
      BY <1>1
    <3> QED
      BY <1>2, <1>3, <3>1, <3>2
  <2> HIDE DEF b
  <2>3. b = v
    BY <2>1, <2>2, SeqEqual
  <2> QED
    BY <2>3 DEF b
<1>7. RemoveAt(p, Len(u) + 1) = u \o v
  BY <1>5, <1>6 DEF RemoveAt
<1>8. p = Between(u, x, v)
  BY DEF p, t, s, Between
<1>9. Len(u) + 1 \in 1 .. Len(p)
  BY <1>3, <1>4
<1> QED
  BY <1>4, <1>7, <1>8, <1>9

\* Such a list is one of their type.
LEMMA BetweenType ==
  ASSUME NEW V, NEW u \in Seq(V), NEW x \in V, NEW v \in Seq(V)
  PROVE  Between(u, x, v) \in Seq(V) /\ u \o v \in Seq(V)
<1>1. <<x>> \in Seq(V) /\ u \o v \in Seq(V)
  OBVIOUS
<1>2. <<x>> \o v \in Seq(V)
  BY <1>1, ConcatProperties
<1>3. u \o (<<x>> \o v) \in Seq(V)
  BY <1>2, ConcatProperties
<1> QED
  BY <1>1, <1>3 DEF Between

\* A list with f taken of its entries.
Map(f, seq) == [i \in DOMAIN seq |-> f[seq[i]]]

\* It is a list of what f gives.
LEMMA MapType ==
  ASSUME NEW V, NEW f, NEW s \in Seq(V), NEW W, \A x \in V : f[x] \in W
  PROVE  Map(f, s) \in Seq(W)
<1>1. DOMAIN s = 1 .. Len(s) /\ Len(s) \in Nat /\ \A i \in 1 .. Len(s) : s[i] \in V
  OBVIOUS
<1>2. Map(f, s) \in [1 .. Len(s) -> W]
  BY <1>1 DEF Map
<1> QED
  BY <1>1, <1>2

\* f is taken of one list after the other.
LEMMA MapConcat ==
  ASSUME NEW V, NEW f, NEW u \in Seq(V), NEW v \in Seq(V)
  PROVE  Map(f, u \o v) = Map(f, u) \o Map(f, v)
<1> DEFINE W == {f[x] : x \in V}
<1>0. \A x \in V : f[x] \in W
  OBVIOUS
<1> HIDE DEF W
<1>1. ASSUME NEW s \in Seq(V)
      PROVE  /\ Map(f, s) \in Seq(W) /\ Len(Map(f, s)) = Len(s) /\ Len(s) \in Nat
             /\ \A i \in 1 .. Len(s) : Map(f, s)[i] = f[s[i]]
  <2>1. DOMAIN s = 1 .. Len(s) /\ Len(s) \in Nat /\ \A i \in 1 .. Len(s) : s[i] \in V
    OBVIOUS
  <2>2. Map(f, s) \in [1 .. Len(s) -> W]
    BY <1>0, <2>1 DEF Map
  <2>3. Map(f, s) \in Seq(W) /\ Len(Map(f, s)) = Len(s)
    BY <2>1, <2>2
  <2> QED
    BY <2>1, <2>3 DEF Map
<1> DEFINE w == u \o v
           a == Map(f, u)
           b == Map(f, v)
           m == Map(f, w)
<1>2. /\ w \in Seq(V) /\ Len(w) = Len(u) + Len(v) /\ Len(u) \in Nat /\ Len(v) \in Nat
      /\ \A i \in 1 .. Len(u) : w[i] = u[i]
      /\ \A i \in 1 .. Len(v) : w[Len(u) + i] = v[i]
  BY ConcatEntries
<1> HIDE DEF w
<1>3. /\ a \in Seq(W) /\ Len(a) = Len(u) /\ \A i \in 1 .. Len(u) : a[i] = f[u[i]]
      /\ b \in Seq(W) /\ Len(b) = Len(v) /\ \A i \in 1 .. Len(v) : b[i] = f[v[i]]
      /\ m \in Seq(W) /\ Len(m) = Len(w) /\ \A i \in 1 .. Len(w) : m[i] = f[w[i]]
  BY <1>1, <1>2
<1> HIDE DEF a, b, m
<1>4. /\ a \o b \in Seq(W) /\ Len(a \o b) = Len(u) + Len(v)
      /\ \A i \in 1 .. Len(u) : (a \o b)[i] = a[i]
      /\ \A i \in 1 .. Len(v) : (a \o b)[Len(u) + i] = b[i]
  <2>1. /\ a \o b \in Seq(W) /\ Len(a \o b) = Len(a) + Len(b)
        /\ \A i \in 1 .. Len(a) : (a \o b)[i] = a[i]
        /\ \A i \in 1 .. Len(b) : (a \o b)[Len(a) + i] = b[i]
    <3>1. a \in Seq(W) /\ b \in Seq(W)
      BY <1>3
    <3> QED
      BY <3>1, ConcatEntries
  <2> QED
    BY <1>3, <2>1
<1>5. ASSUME NEW i \in 1 .. Len(u) + Len(v) PROVE m[i] = (a \o b)[i]
  <2>1. m[i] = f[w[i]]
    BY <1>2, <1>3
  <2>2. CASE i \in 1 .. Len(u)
    BY <1>2, <1>3, <1>4, <2>1, <2>2
  <2>3. CASE i \notin 1 .. Len(u)
    <3>1. PICK j \in 1 .. Len(v) : i = Len(u) + j
      <4>1. i - Len(u) \in 1 .. Len(v) /\ i = Len(u) + (i - Len(u))
        BY <1>2, <2>3
      <4> QED
        BY <4>1
    <3>2. m[i] = f[v[j]]
      BY <1>2, <2>1, <3>1
    <3> QED
      BY <1>3, <1>4, <3>1, <3>2
  <2> QED
    BY <2>2, <2>3
<1>6. m = a \o b
  BY <1>2, <1>3, <1>4, <1>5, SeqEqual
<1> QED
  BY <1>6 DEF a, b, m, w

\* The same of a list of one entry, and of none.
LEMMA MapSingle ==
  ASSUME NEW f, NEW x
  PROVE  Map(f, <<x>>) = <<f[x]>> /\ Map(f, <<>>) = <<>>
BY DEF Map

-------------------------------------------------------------------------------
(* Types.                                                                  *)

\* An initial state is typed.
LEMMA InitTypes == ASSUME Init PROVE Types
<1>1. TypeOK
  BY BufferedClientAssumption DEF Init, TypeOK, ToSet, Commands, Messages
<1>2. AnswerTypes
  <2>1. Nothing \in Responses /\ Value(None) \in Responses
    BY DEF Responses, Replies
  <2> QED
    BY <2>1 DEF Init, AnswerTypes
<1> QED
  BY <1>1, <1>2 DEF Types, Init, Called, LineOnce, AtHand

\* The message of a caller that sends is one.
LEMMA MessageOfCaller ==
  ASSUME Types, NEW c \in Callers, call[c] \in {"sending", "waiting"}
  PROVE  Message(c) \in Messages
BY BufferedClientAssumption DEF Types, TypeOK, Called, Message, Messages

\* The same in the line for room.
LEMMA LeavesLine ==
  ASSUME LineOnce, NEW c \in Callers, NEW i \in DOMAIN waiting, waiting[i] = c,
         waiting' = RemoveAt(waiting, i)
  PROVE  ToSet(waiting') = ToSet(waiting) \ {c} /\ LineOnce'
<1>1. waiting \in Seq(Callers) /\ \A j, k \in DOMAIN waiting : waiting[j] = waiting[k] => j = k
  BY DEF LineOnce
<1>2. RemoveAt(waiting, i) \in Seq(Callers)
  BY <1>1, RemoveAtElements
<1>3. /\ ToSet(RemoveAt(waiting, i)) = ToSet(waiting) \ {waiting[i]}
      /\ \A j, k \in DOMAIN RemoveAt(waiting, i) :
           RemoveAt(waiting, i)[j] = RemoveAt(waiting, i)[k] => j = k
  BY <1>1, LeaveLine
<1> QED
  BY <1>2, <1>3 DEF LineOnce

\* The steps of a caller.
LEMMA CallerTypes ==
  ASSUME Types, NEW c \in Callers,
         Call(c) \/ Send(c) \/ Return(c) \/ Abandon(c) \/ DropHandle(c)
  PROVE  Types'
<1> USE DEF Types
<1>1. CASE Call(c)
  <2>1. TypeOK'
    <3>1. ToSet(waiting') = ToSet(waiting) \cup {c}
      <4>1. waiting' = Append(waiting, c) /\ waiting \in Seq(Callers)
        BY <1>1 DEF Call, LineOnce
      <4>2. /\ DOMAIN waiting' = 1 .. Len(waiting) + 1 /\ DOMAIN waiting = 1 .. Len(waiting)
            /\ \A i \in 1 .. Len(waiting) : waiting'[i] = waiting[i]
            /\ waiting'[Len(waiting) + 1] = c
            /\ Len(waiting) \in Nat
        BY <4>1
      <4>3. \A i \in DOMAIN waiting' : i \in DOMAIN waiting \/ i = Len(waiting) + 1
        BY <4>2
      <4> QED
        BY <4>2, <4>3 DEF ToSet
    <3> QED
      BY <1>1, <3>1, BufferedClientAssumption DEF Call, TypeOK, owner
  <2>2. LineOnce'
    <3>1. c \notin ToSet(waiting)
      BY <1>1 DEF Call, TypeOK
    <3> QED
      BY <1>1, <3>1 DEF Call, LineOnce, ToSet
  <2>3. Called'
    BY <1>1, BufferedClientAssumption DEF Call, TypeOK, Called
  <2> QED
    BY <1>1, <2>1, <2>2, <2>3 DEF Call, owner, AnswerTypes, AtHand
<1>2. CASE Send(c)
  <2> USE DEF Send, owner, server
  <2>1. PICK i \in DOMAIN waiting :
          waiting[i] = c /\ i + Len(queue) <= Capacity /\ waiting' = RemoveAt(waiting, i)
    BY <1>2 DEF LineOnce
  <2>2. ToSet(waiting') = ToSet(waiting) \ {c} /\ LineOnce'
    BY <2>1, LeavesLine
  <2>3. queue' \in Seq(Messages) /\ Len(queue') <= Capacity
    BY <1>2, <2>1, MessageOfCaller, BufferedClientAssumption DEF TypeOK, LineOnce
  <2>4. TypeOK'
    BY <1>2, <2>2, <2>3 DEF TypeOK
  <2> QED
    BY <1>2, <2>2, <2>4 DEF Called, AnswerTypes, AtHand
<1>3. CASE Return(c)
  BY <1>3 DEF Return, channel, owner, server, TypeOK, AnswerTypes, Called, LineOnce, AtHand,
              Responses
<1>4. CASE Abandon(c)
  <2> USE DEF Abandon, owner, server
  <2>1. ToSet(waiting') = ToSet(waiting) \ {c} /\ LineOnce'
    <3>1. CASE call[c] = "sending"
      <4>1. PICK i \in DOMAIN waiting : waiting[i] = c /\ waiting' = RemoveAt(waiting, i)
        BY <1>4, <3>1
      <4> QED
        BY <4>1, LeavesLine
    <3>2. CASE call[c] = "waiting"
      BY <1>4, <3>2 DEF TypeOK, LineOnce
    <3> QED
      BY <1>4, <3>1, <3>2
  <2>2. TypeOK'
    BY <1>4, <2>1 DEF TypeOK
  <2>3. AnswerTypes'
    BY <1>4 DEF AnswerTypes, Responses
  <2> QED
    BY <1>4, <2>1, <2>2, <2>3 DEF Called, AtHand
<1>5. CASE DropHandle(c)
  BY <1>5 DEF DropHandle, channel, owner, server, TypeOK, AnswerTypes, Called, LineOnce, AtHand
<1> QED
  BY <1>1, <1>2, <1>3, <1>4, <1>5

\* The steps of the owner, of the server and of the network.
LEMMA OtherTypes ==
  ASSUME Types,
         \/ Receive \/ ReceiveNone \/ Write \/ ReadResponse \/ ReadFails \/ Answer
         \/ Serve \/ Break
  PROVE  Types'
<1> USE DEF Types, callers, channel, owner, server
<1>1. CASE Receive
  <2>1. Head(queue) \in Messages /\ Tail(queue) \in Seq(Messages) /\ Len(Tail(queue)) <= Capacity
    BY <1>1, BufferedClientAssumption DEF Receive, TypeOK
  <2> QED
    BY <1>1, <2>1 DEF Receive, TypeOK, AnswerTypes, Called, LineOnce, AtHand
<1>2. CASE ReceiveNone
  BY <1>2 DEF ReceiveNone, TypeOK, AnswerTypes, Called, LineOnce, AtHand
<1>3. CASE Write
  <2>1. outbound' \in Seq(Messages)
    <3>1. current \in Messages /\ outbound \in Seq(Messages)
      BY <1>3 DEF Write, TypeOK, AtHand
    <3>2. outbound' = Append(outbound, current) \/ outbound' = outbound
      BY <1>3 DEF Write
    <3> QED
      BY <3>1, <3>2
  <2>2. run' \in {"read", "answer"} /\ response' \in Responses /\ current' \in Messages
    BY <1>3 DEF Write, AnswerTypes, AtHand, Responses
  <2>3. TypeOK'
    BY <1>3, <2>1, <2>2 DEF Write, TypeOK
  <2>4. AnswerTypes' /\ AtHand'
    BY <1>3, <2>2 DEF Write, AnswerTypes, AtHand
  <2> QED
    BY <1>3, <2>3, <2>4 DEF Write, Called, LineOnce
<1>4. CASE ReadResponse
  <2>1. Head(inbound) \in Replies /\ Tail(inbound) \in Seq(Replies)
    BY <1>4 DEF ReadResponse, AnswerTypes
  <2>2. Reply(current.cmd, Head(inbound)) \in Responses
    BY <2>1 DEF Reply, Responses, Replies
  <2> QED
    <3>1. TypeOK'
      BY <1>4 DEF ReadResponse, TypeOK
    <3>2. AnswerTypes' /\ AtHand'
      BY <1>4, <2>1, <2>2 DEF ReadResponse, AnswerTypes, AtHand
    <3> QED
      BY <1>4, <3>1, <3>2 DEF ReadResponse, Called, LineOnce
<1>5. CASE ReadFails
  BY <1>5 DEF ReadFails, TypeOK, AnswerTypes, Called, LineOnce, AtHand, Responses
<1>6. CASE Answer
  <2>1. TypeOK'
    BY <1>6 DEF Answer, TypeOK
  <2>2. AnswerTypes'
    BY <1>6 DEF Answer, AnswerTypes, Responses
  <2> QED
    BY <1>6, <2>1, <2>2 DEF Answer, Called, LineOnce, AtHand
<1>7. CASE Serve
  <2>1. Head(outbound) \in Messages /\ Tail(outbound) \in Seq(Messages)
    BY <1>7 DEF Serve, TypeOK
  <2>2. store' \in [Keys -> Values \cup {None}]
    BY <1>7, <2>1 DEF Serve, TypeOK, Messages, Commands
  <2>3. inbound' \in Seq(Replies)
    BY <1>7, <2>1 DEF Serve, TypeOK, AnswerTypes, Messages, Commands, Replies
  <2> QED
    <3>1. TypeOK'
      BY <1>7, <2>1, <2>2 DEF Serve, TypeOK
    <3>2. AnswerTypes' /\ AtHand'
      BY <1>7, <2>3 DEF Serve, AnswerTypes, AtHand
    <3> QED
      BY <1>7, <3>1, <3>2 DEF Serve, Called, LineOnce
<1>8. CASE Break
  <2>1. outbound' \in Seq(Messages)
    <3>1. outbound \in Seq(Messages) /\ (outbound' = outbound \/ outbound' = <<>>)
      BY <1>8 DEF Break, TypeOK
    <3>2. <<>> \in Seq(Messages)
      OBVIOUS
    <3> QED
      BY <3>1, <3>2
  <2>2. TypeOK'
    BY <1>8, <2>1 DEF Break, TypeOK
  <2> QED
    BY <1>8, <2>2 DEF Break, AnswerTypes, Called, LineOnce, AtHand
<1> QED
  BY <1>1, <1>2, <1>3, <1>4, <1>5, <1>6, <1>7, <1>8

\* A step keeps the types.
LEMMA StepTypes == ASSUME Types, [Next]_vars PROVE Types'
<1>1. CASE Next
  BY <1>1, CallerTypes, OtherTypes DEF Next
<1>2. CASE UNCHANGED vars
  BY <1>2 DEF vars, callers, channel, owner, server, Types, TypeOK, AnswerTypes, Called, LineOnce,
              AtHand
<1> QED
  BY <1>1, <1>2

-------------------------------------------------------------------------------
(* Requests and replies in the socket, matched by position.                *)

\* Facts of Types about the sockets.
LEMMA Sockets ==
  ASSUME Types
  PROVE  /\ outbound \in Seq(Messages) /\ inbound \in Seq(Replies)
         /\ Len(outbound) \in Nat /\ Len(inbound) \in Nat
         /\ outbound = <<>> <=> Len(outbound) = 0
         /\ inbound = <<>> <=> Len(inbound) = 0
BY DEF Types, TypeOK, AnswerTypes

\* A step keeps request and reply in their places: a caller's leaves the owner and
\* the sockets alone, the others move one frame.
LEMMA StepInFlight ==
  ASSUME Types, Types', OneInFlight, ReplyFits, [Next]_vars
  PROVE  OneInFlight' /\ ReplyFits'
<1> USE DEF callers, channel, owner, server
<1>1. CASE UNCHANGED <<owner, alive, outbound, inbound>>
  BY <1>1 DEF OneInFlight, ReplyFits
<1>2. CASE Receive
  BY <1>2, Sockets DEF Receive, OneInFlight, ReplyFits
<1>3. CASE ReceiveNone
  BY <1>3 DEF ReceiveNone, OneInFlight, ReplyFits
<1>4. CASE Write
  <2>1. CASE alive
    <3>1. outbound = <<>> /\ inbound = <<>>
      BY <1>4, <2>1, Sockets DEF Write, OneInFlight
    <3>2. outbound' = <<current>> /\ inbound' = <<>> /\ run' = "read" /\ current' = current
      BY <1>4, <2>1, <3>1 DEF Write
    <3> QED
      BY <3>2 DEF OneInFlight, ReplyFits
  <2>2. CASE ~alive
    BY <1>4, <2>2 DEF Write, OneInFlight, ReplyFits, Types, TypeOK
  <2> QED
    BY <2>1, <2>2
<1>5. CASE ReadResponse
  <2>1. inbound' = Tail(inbound) /\ Len(inbound') = Len(inbound) - 1 /\ outbound' = outbound
    BY <1>5, Sockets DEF ReadResponse
  <2>2. alive => Len(outbound) = 0 /\ Len(inbound) = 1
    <3>1. alive => Len(outbound) + Len(inbound) = 1
      BY <1>5 DEF ReadResponse, OneInFlight
    <3>2. Len(outbound) \in Nat /\ Len(inbound) \in Nat /\ Len(inbound) # 0
      BY <1>5, Sockets DEF ReadResponse
    <3> QED
      BY <3>1, <3>2
  <2>3. alive => inbound' = <<>> /\ outbound' = <<>>
    BY <2>1, <2>2, Sockets
  <2> QED
    BY <1>5, <2>1, <2>2, <2>3 DEF ReadResponse, OneInFlight, ReplyFits
<1>6. CASE ReadFails
  BY <1>6 DEF ReadFails, OneInFlight, ReplyFits
<1>7. CASE Answer
  BY <1>7, Sockets DEF Answer, OneInFlight, ReplyFits
<1>8. CASE Serve
  <2>1. CASE alive
    <3>1. /\ run = "read" /\ Len(outbound) = 1 /\ inbound = <<>>
          /\ Head(outbound) = current
      <4>1. /\ run = "read" => Len(outbound) + Len(inbound) = 1
            /\ run # "read" => Len(outbound) + Len(inbound) = 0
            /\ Head(outbound) = current
        BY <1>8, <2>1 DEF Serve, OneInFlight
      <4>2. Len(outbound) \in Nat /\ Len(inbound) \in Nat /\ Len(outbound) # 0
        BY <1>8, Sockets DEF Serve
      <4>3. \A m, n \in Nat : m # 0 => m + n # 0 /\ (m + n = 1 => m = 1 /\ n = 0)
        OBVIOUS
      <4>4. run = "read" /\ Len(outbound) = 1 /\ Len(inbound) = 0
        BY <4>1, <4>2, <4>3, Zenon
      <4> QED
        BY <4>1, <4>4, Sockets
    <3>2. outbound' = <<>>
      BY <1>8, <3>1, Sockets DEF Serve
    <3>3. PICK frame :
            inbound' = <<frame>> /\ (current.cmd.op = "set" => frame = OK)
      BY <1>8, <2>1, <3>1 DEF Serve
    <3>4. run' = "read" /\ current' = current /\ Len(inbound') = 1 /\ Len(outbound') = 0
      BY <1>8, <3>1, <3>2, <3>3 DEF Serve
    <3> QED
      BY <3>2, <3>3, <3>4 DEF OneInFlight, ReplyFits
  <2>2. CASE ~alive
    BY <1>8, <2>2 DEF Serve, OneInFlight, ReplyFits
  <2> QED
    BY <2>1, <2>2
<1>9. CASE Break
  BY <1>9 DEF Break, OneInFlight, ReplyFits
<1> QED
  <2>1. ASSUME NEW c \in Callers,
               Call(c) \/ Send(c) \/ Return(c) \/ Abandon(c) \/ DropHandle(c)
        PROVE  UNCHANGED <<owner, alive, outbound, inbound>>
    BY <2>1 DEF Call, Send, Return, Abandon, DropHandle
  <2> QED
    BY <1>1, <1>2, <1>3, <1>4, <1>5, <1>6, <1>7, <1>8, <1>9, <2>1 DEF Next, vars

\* An error is the owner's only on a broken connection, and stays with its caller.
LEMMA StepErrors ==
  ASSUME Types, ReplyFits, ErrorsOfBreak, [Next]_vars
  PROVE  ErrorsOfBreak'
<1> USE DEF callers, channel, owner, server, ErrorsOfBreak, FailsOnlyWhenBroken
<1>1. alive' => alive
  BY DEF Next, vars, Call, Send, Return, Abandon, DropHandle, Receive, ReceiveNone, Write,
         ReadResponse, ReadFails, Answer, Serve, Break
<1>2. oneshot \in [Callers -> Responses] /\ answer \in [Callers -> Responses]
  BY DEF Types, AnswerTypes
<1>3. CASE UNCHANGED <<response, oneshot, answer>>
  BY <1>1, <1>3
<1>4. ASSUME NEW c \in Callers, Return(c)
      PROVE  ErrorsOfBreak'
  BY <1>1, <1>2, <1>4 DEF Return, Nothing, Failed
<1>5. ASSUME NEW c \in Callers, Abandon(c)
      PROVE  ErrorsOfBreak'
  BY <1>1, <1>2, <1>5 DEF Abandon, Nothing, Failed
<1>6. CASE Write
  BY <1>1, <1>2, <1>6 DEF Write
<1>7. CASE ReadResponse
  <2>1. Reply(current.cmd, Head(inbound)) = Failed => ~alive
    <3>1. current.cmd.op \in {"get", "set"}
      BY <1>7 DEF ReadResponse, Types, AtHand, Messages, Commands
    <3>2. \A v : Value(v) # Failed
      BY DEF Value, Failed
    <3> QED
      BY <1>7, <3>1, <3>2 DEF ReadResponse, Reply, ReplyFits
  <2> QED
    BY <1>7, <2>1 DEF ReadResponse
<1>8. CASE ReadFails
  BY <1>8 DEF ReadFails
<1>9. CASE Answer
  BY <1>1, <1>2, <1>9 DEF Answer, Nothing, Failed
<1> QED
  <2>1. ASSUME NEW c \in Callers, Call(c) \/ Send(c) \/ DropHandle(c)
        PROVE  UNCHANGED <<response, oneshot, answer>>
    BY <2>1 DEF Call, Send, DropHandle
  <2>2. ASSUME Receive \/ ReceiveNone \/ Serve \/ Break
        PROVE  UNCHANGED <<response, oneshot, answer>>
    BY <2>2 DEF Receive, ReceiveNone, Serve, Break
  <2> QED
    BY <1>3, <1>4, <1>5, <1>6, <1>7, <1>8, <1>9, <2>1, <2>2 DEF Next, vars

\* Nobody who could queue a request is left when the task ends, and none comes.
LEMMA StepEnded == ASSUME Types, EndedForGood, [Next]_vars PROVE EndedForGood'
<1> USE DEF callers, channel, owner, server, EndedForGood
<1>1. CASE run = "ended"
  <2>1. \A c \in Callers : call[c] = "gone"
    BY <1>1
  <2> QED
    BY <1>1, <2>1 DEF Next, vars, Call, Send, Return, Abandon, DropHandle, Receive, ReceiveNone,
       Write, ReadResponse, ReadFails, Answer, Serve, Break
<1>2. CASE run # "ended" /\ run' = "ended"
  <2>1. ReceiveNone
    BY <1>2 DEF Next, vars, Call, Send, Return, Abandon, DropHandle, Receive,
       Write, ReadResponse, ReadFails, Answer, Serve, Break
  <2> QED
    BY <2>1 DEF ReceiveNone
<1> QED
  BY <1>1, <1>2

-------------------------------------------------------------------------------
(* Theorems.                                                               *)

\* The invariant holds at first.
LEMMA InitIInv == ASSUME Init PROVE IInv
<1>1. Types
  BY InitTypes
<1> QED
  BY <1>1 DEF Init, IInv, OneInFlight, ReplyFits, ErrorsOfBreak, FailsOnlyWhenBroken, EndedForGood,
              Value, Failed, Nothing

\* A step keeps the invariant.
LEMMA StepIInv == ASSUME IInv, [Next]_vars PROVE IInv'
BY StepTypes, StepInFlight, StepErrors, StepEnded DEF IInv

\* The invariant holds in every state of a buffered client.
THEOREM Invariance == Spec => []IInv
<1>1. Init => IInv
  BY InitIInv
<1>2. IInv /\ [Next]_vars => IInv'
  BY StepIInv
<1> QED
  BY <1>1, <1>2, PTL DEF Spec

\* buffered_client.rs:67-77: the queue keeps its limit, and exactly the callers in
\* tx.send are in the line for room.
THEOREM TypesCorrect == Spec => []TypeOK
<1>1. IInv => TypeOK
  BY DEF IInv, Types
<1> QED
  BY <1>1, Invariance, PTL

\* buffered_client.rs:30-42: one request at most awaits its reply, whoever gives up
\* a call and whenever.
THEOREM OneRequestInFlight == Spec => []OneInFlight
<1>1. IInv => OneInFlight
  BY DEF IInv
<1> QED
  BY <1>1, Invariance, PTL

\* client.rs:159-164, 267-270: a call fails only when the connection has broken.
THEOREM FailuresCorrect == Spec => []FailsOnlyWhenBroken
<1>1. IInv => FailsOnlyWhenBroken
  BY DEF IInv, ErrorsOfBreak
<1> QED
  BY <1>1, Invariance, PTL

\* buffered_client.rs:30: the task ends with the queue and the line empty.
THEOREM EndCorrect == Spec => []EndsDrained
<1>1. IInv => EndsDrained
  <2> SUFFICES ASSUME IInv, run = "ended" PROVE queue = <<>> /\ waiting = <<>> /\ current = None
    BY DEF EndsDrained
  <2>1. queue = <<>> /\ \A c \in Callers : call[c] = "gone"
    BY DEF IInv, EndedForGood
  <2>2. ToSet(waiting) = {} /\ waiting \in Seq(Callers)
    BY <2>1 DEF IInv, Types, TypeOK, LineOnce
  <2>3. waiting = <<>>
    BY <2>2 DEF ToSet
  <2> QED
    BY <2>1, <2>3 DEF IInv, Types, AtHand
<1> QED
  BY <1>1, Invariance, PTL
-------------------------------------------------------------------------------
(* The invariant of the refinement: the journey of a command from the call *)
(* to its answer.                                                          *)

\* The messages whose oneshot may still get an answer.
AtWork ==
  Elements(Pipeline) \cup (IF run \in {"write", "read", "answer"} THEN {current} ELSE {})

\* A message is of a call that was made, and of an earlier one than a call that
\* still waits for room.
Numbered ==
  \A m \in AtWork :
    m.n <= made[m.caller] /\ (call[m.caller] = "sending" => m.n < made[m.caller])

\* A call has one message.
Apart ==
  \A i, j \in DOMAIN Pipeline :
    Pipeline[i].caller = Pipeline[j].caller /\ Pipeline[i].n = Pipeline[j].n => i = j

\* A call whose message is on the way to the server, or waits for room, has no reply.
Unanswered ==
  /\ \A m \in Elements(Pipeline) : Awaited(m) => result[m.caller] = Nothing
  /\ \A c \in Callers : call[c] = "sending" => result[c] = Nothing

\* The reply on the way back, and the answer at hand, are those of the current
\* request, if its caller still waits.
Matched ==
  /\ Len(outbound) + Len(inbound) <= 1
  /\ inbound # <<>> =>
       /\ run = "read"
       /\ Awaited(current) => result[current.caller] = Reply(current.cmd, Head(inbound))
  /\ run = "answer" /\ response # Failed =>
       /\ outbound = <<>>
       /\ Awaited(current) => result[current.caller] = response

\* A oneshot holds the reply of the server, or an error.
Delivered ==
  /\ result \in [Callers -> {Nothing} \cup {Value(v) : v \in Values \cup {None}}]
  /\ \A c \in Callers :
       /\ oneshot[c] # Nothing => call[c] = "waiting"
       /\ oneshot[c] \notin {Failed, Nothing} => result[c] = oneshot[c]

Journey == Numbered /\ Apart /\ Unanswered /\ Matched /\ Delivered
-------------------------------------------------------------------------------
(* The commands without effect, from the socket to the line.               *)

\* The pipeline and the line hold messages.
LEMMA PipelineTypes ==
  Types => Pipeline \in Seq(Messages) /\ Line \in Seq(Messages)
<1> SUFFICES ASSUME Types PROVE Pipeline \in Seq(Messages) /\ Line \in Seq(Messages)
  OBVIOUS
<1>1. outbound \in Seq(Messages) /\ queue \in Seq(Messages)
  BY DEF Types, TypeOK
<1> DEFINE hand == IF run = "write" THEN <<current>> ELSE <<>>
<1>2. hand \in Seq(Messages)
  BY DEF Types, AtHand
<1>3. Line \in Seq(Messages)
  <2>1. waiting \in Seq(Callers) /\ Len(waiting) \in Nat /\ DOMAIN waiting = 1 .. Len(waiting)
    BY DEF Types, LineOnce
  <2>2. ASSUME NEW i \in 1 .. Len(waiting) PROVE Message(waiting[i]) \in Messages
    <3>1. waiting[i] \in Callers /\ call[waiting[i]] = "sending"
      BY <2>1 DEF Types, TypeOK, ToSet
    <3> QED
      BY <3>1, MessageOfCaller
  <2>3. Line \in [1 .. Len(waiting) -> Messages]
    BY <2>1, <2>2 DEF Line
  <2> QED
    BY <2>1, <2>3
<1>4. Pipeline = outbound \o hand \o queue
  BY DEF Pipeline
<1> HIDE DEF hand
<1>5. outbound \o hand \o queue \in Seq(Messages)
  BY <1>1, <1>2
<1> QED
  BY <1>3, <1>4, <1>5

\* The messages of a caller, with effect still to come, in the socket, at hand or in
\* the queue, and in the line.
Kept(c)   == Within(Pipeline, Own(c))
Queued(c) == IF call[c] = "sending" THEN <<Message(c)>> ELSE <<>>

\* The messages of a caller: those of the pipeline and then the one in the line.
LEMMA Listed ==
  Types => \A c \in Callers :
             /\ Kept(c) \in Seq(Own(c)) /\ Queued(c) \in Seq(Own(c))
             /\ Within(Pipeline \o Line, Own(c)) = Kept(c) \o Queued(c)
<1> SUFFICES ASSUME Types, NEW c \in Callers
             PROVE  /\ Kept(c) \in Seq(Own(c)) /\ Queued(c) \in Seq(Own(c))
                    /\ Within(Pipeline \o Line, Own(c)) = Kept(c) \o Queued(c)
  OBVIOUS
<1>1. Pipeline \in Seq(Messages) /\ Line \in Seq(Messages)
  BY PipelineTypes
<1>2. Within(Pipeline \o Line, Own(c)) = Kept(c) \o Within(Line, Own(c))
  BY <1>1, WithinConcat DEF Kept
<1>3. ASSUME NEW seq \in Seq(Messages) PROVE Within(seq, Own(c)) \in Seq(Own(c))
  <2> DEFINE w == Within(seq, Own(c))
  <2>1. w \in Seq(Messages) /\ Elements(w) \subseteq Own(c)
    <3>1. w \in Seq(Messages) /\ Elements(w) = Elements(seq) \cap Own(c)
      BY WithinKeeps
    <3> HIDE DEF w
    <3> QED
      BY <3>1
  <2> HIDE DEF w
  <2>2. \A i \in 1 .. Len(w) : w[i] \in Own(c)
    BY <2>1 DEF Elements
  <2>3. w \in Seq(Own(c))
    BY <2>1, <2>2, IsASeq
  <2> QED
    BY <2>3 DEF w
<1>4. /\ waiting \in Seq(Callers) /\ DOMAIN Line = DOMAIN waiting
      /\ \A i \in DOMAIN Line : Line[i] = Message(waiting[i]) /\ waiting[i] \in Callers
      /\ \A i, j \in DOMAIN waiting : waiting[i] = waiting[j] => i = j
      /\ \A i \in DOMAIN Line : Line[i] \in Messages
  BY <1>1 DEF Line, Types, LineOnce
<1>5. ASSUME NEW i \in DOMAIN Line PROVE Line[i] \in Own(c) <=> waiting[i] = c
  BY <1>4 DEF Own, Message
<1>6. Within(Line, Own(c)) = Queued(c)
  <2>1. CASE call[c] = "sending"
    <3>1. PICK i \in DOMAIN waiting : waiting[i] = c
      BY <2>1 DEF Types, TypeOK, ToSet
    <3>2. i \in DOMAIN Line /\ Line[i] = Message(c) /\ Line[i] \in Own(c)
      BY <1>4, <1>5, <3>1
    <3>3. \A j \in DOMAIN Line : Line[j] \in Own(c) => j = i
      BY <1>4, <1>5, <3>1
    <3>4. Within(Line, Own(c)) = <<Line[i]>>
      BY <1>1, <3>2, <3>3, WithinOne
    <3> QED
      BY <2>1, <3>2, <3>4 DEF Queued
  <2>2. CASE call[c] # "sending"
    <3>1. \A i \in DOMAIN waiting : waiting[i] # c
      BY <2>2 DEF Types, TypeOK, ToSet
    <3>2. Elements(Line) \cap Own(c) = {}
      BY <1>4, <1>5, <3>1 DEF Elements
    <3>3. Within(Line, Own(c)) = <<>>
      BY <1>1, <3>2, WithinNone
    <3> QED
      BY <2>2, <3>3 DEF Queued
  <2> QED
    BY <2>1, <2>2
<1> QED
  BY <1>1, <1>2, <1>3, <1>6 DEF Kept

\* The pipeline loses x, and nothing else.
Loses(x) ==
  \E u, v \in Seq(Messages) : Pipeline = Between(u, x, v) /\ Pipeline' = u \o v

\* The steps that change nothing in the pipeline: Receive and Write only move a
\* message from one part to the next.
LEMMA PipelineStays ==
  ASSUME Types,
         \/ \E c \in Callers : Call(c) \/ Return(c) \/ Abandon(c) \/ DropHandle(c)
         \/ Receive \/ ReceiveNone \/ (Write /\ alive) \/ ReadResponse \/ ReadFails \/ Answer
         \/ UNCHANGED vars
  PROVE  Pipeline' = Pipeline
<1> USE DEF callers, channel, owner, server
<1>1. outbound \in Seq(Messages) /\ queue \in Seq(Messages)
  BY DEF Types, TypeOK
<1>2. CASE Receive
  <2>1. run = "recv" /\ run' = "write" /\ outbound' = outbound
        /\ current' = Head(queue) /\ queue' = Tail(queue)
    BY <1>2 DEF Receive
  <2>2. queue = <<Head(queue)>> \o Tail(queue) /\ Head(queue) \in Messages
        /\ Tail(queue) \in Seq(Messages)
    BY <1>1, <1>2 DEF Receive
  <2> DEFINE h == Head(queue)
             t == Tail(queue)
  <2>3. Pipeline = outbound \o <<>> \o queue /\ Pipeline' = outbound \o <<h>> \o t
    BY <2>1 DEF Pipeline
  <2>4. h \in Messages /\ t \in Seq(Messages) /\ queue = <<h>> \o t
    BY <2>2
  <2> HIDE DEF h, t
  <2>5. outbound \o <<>> = outbound /\ <<h>> \in Seq(Messages)
    BY <1>1, <2>4
  <2>6. outbound \o <<h>> \o t = outbound \o (<<h>> \o t)
    BY <1>1, <2>4, <2>5, ConcatAssociative
  <2> QED
    BY <2>3, <2>4, <2>5, <2>6
<1>3. CASE Write /\ alive
  <2>1. run = "write" /\ run' = "read" /\ outbound' = Append(outbound, current)
        /\ queue' = queue /\ current \in Messages
    BY <1>3 DEF Write, Types, AtHand
  <2> DEFINE o == Append(outbound, current)
  <2>2. o = outbound \o <<current>> /\ o \in Seq(Messages)
    BY <1>1, <2>1
  <2>3. Pipeline = outbound \o <<current>> \o queue /\ Pipeline' = o \o <<>> \o queue
    BY <2>1 DEF Pipeline
  <2> HIDE DEF o
  <2>4. o \o <<>> = o
    BY <2>2
  <2> QED
    BY <2>2, <2>3, <2>4
<1>4. CASE \/ \E c \in Callers : Call(c) \/ Return(c) \/ Abandon(c) \/ DropHandle(c)
           \/ ReceiveNone \/ ReadResponse \/ ReadFails \/ Answer
           \/ UNCHANGED vars
  <2>1. outbound' = outbound /\ queue' = queue
    BY <1>4 DEF Call, Return, Abandon, DropHandle, ReceiveNone, ReadResponse, ReadFails, Answer,
                vars
  <2>2. CASE (\E c \in Callers : Call(c) \/ Return(c) \/ Abandon(c) \/ DropHandle(c)) \/ UNCHANGED vars
    BY <2>1, <2>2 DEF Call, Return, Abandon, DropHandle, vars, Pipeline
  <2>3. CASE ReceiveNone \/ ReadResponse \/ ReadFails \/ Answer
    <3>1. run # "write" /\ run' # "write"
      BY <2>3 DEF ReceiveNone, ReadResponse, ReadFails, Answer
    <3> QED
      BY <2>1, <3>1 DEF Pipeline
  <2> QED
    BY <1>4, <2>2, <2>3
<1> QED
  BY <1>2, <1>3, <1>4

\* Send puts the message of its caller at the end.
LEMMA PipelineGrows ==
  ASSUME Types, NEW c \in Callers, Send(c)
  PROVE  Message(c) \in Messages /\ Pipeline' = Pipeline \o <<Message(c)>>
<1> DEFINE o == outbound \o (IF run = "write" THEN <<current>> ELSE <<>>)
           m == Message(c)
<1>1. m \in Messages
  BY MessageOfCaller DEF Send
<1>2. o \in Seq(Messages) /\ queue \in Seq(Messages)
  BY DEF Types, TypeOK, AtHand
<1>3. Pipeline = o \o queue /\ Pipeline' = o \o Append(queue, m)
  BY DEF Pipeline, Send, owner, server
<1> HIDE DEF o, m
<1>4. Append(queue, m) = queue \o <<m>> /\ <<m>> \in Seq(Messages)
  BY <1>1, <1>2
<1>5. o \o (queue \o <<m>>) = o \o queue \o <<m>>
  BY <1>2, <1>4, ConcatAssociative
<1> QED
  BY <1>1, <1>3, <1>4, <1>5 DEF m

\* What leaves the pipeline: the oldest request served, a request on the way when
\* the connection breaks, a request that could not be written.
LEMMA ServeLoses ==
  ASSUME Types, Serve
  PROVE  /\ Head(outbound) \in Messages /\ Pipeline' \in Seq(Messages)
         /\ Pipeline = <<Head(outbound)>> \o Pipeline' /\ Loses(Head(outbound))
<1> DEFINE h == Head(outbound)
           t == Tail(outbound)
           hand == IF run = "write" THEN <<current>> ELSE <<>>
<1>1. h \in Messages /\ t \in Seq(Messages) /\ outbound = <<h>> \o t /\ <<h>> \in Seq(Messages)
  BY DEF Serve, Types, TypeOK
<1>2. hand \in Seq(Messages) /\ queue \in Seq(Messages)
  BY DEF Types, TypeOK, AtHand
<1>3. Pipeline = outbound \o hand \o queue /\ Pipeline' = t \o hand \o queue
  BY DEF Pipeline, Serve, callers, channel, owner
<1> HIDE DEF h, t, hand
<1>4. (<<h>> \o t) \o hand \o queue = <<h>> \o (t \o hand \o queue)
  <2>1. (<<h>> \o t) \o hand = <<h>> \o (t \o hand) /\ t \o hand \in Seq(Messages)
    BY <1>1, <1>2, ConcatAssociative, ConcatProperties
  <2> QED
    BY <1>1, <1>2, <2>1, ConcatAssociative
<1>5. t \o hand \o queue \in Seq(Messages)
  BY <1>1, <1>2
<1>6. Pipeline = <<h>> \o Pipeline' /\ Pipeline' \in Seq(Messages)
  BY <1>1, <1>3, <1>4, <1>5
<1>7. <<>> \o (<<h>> \o Pipeline') = <<h>> \o Pipeline' /\ <<>> \o Pipeline' = Pipeline'
      /\ <<>> \in Seq(Messages)
  <2>1. <<h>> \o Pipeline' \in Seq(Messages)
    BY <1>1, <1>6
  <2> QED
    BY <1>6, <2>1, ConcatEmptySeq
<1> QED
  BY <1>1, <1>6, <1>7 DEF Loses, Between, h

\* A message that could not be written is lost: it was the one after the socket.
LEMMA WriteLoses ==
  ASSUME Types, Write, ~alive
  PROVE  current \in Messages /\ Loses(current)
<1>1. outbound \in Seq(Messages) /\ queue \in Seq(Messages) /\ current \in Messages
  BY DEF Write, Types, TypeOK, AtHand
<1>2. Pipeline = outbound \o <<current>> \o queue /\ Pipeline' = outbound \o <<>> \o queue
  BY DEF Write, Pipeline, callers, channel
<1>3. outbound \o <<>> = outbound /\ <<current>> \in Seq(Messages)
  BY <1>1
<1>4. outbound \o <<current>> \o queue = outbound \o (<<current>> \o queue)
  BY <1>1, <1>3, ConcatAssociative
<1> QED
  BY <1>1, <1>2, <1>3, <1>4 DEF Loses, Between

\* A break loses the request on the way, if there is one and the network drops it.
LEMMA BreakLoses ==
  ASSUME Types, Len(outbound) <= 1, Break
  PROVE  \/ Pipeline' = Pipeline
         \/ outbound # <<>> /\ Head(outbound) \in Messages /\ Loses(Head(outbound))
<1>1. outbound \in Seq(Messages) /\ queue \in Seq(Messages)
  BY DEF Types, TypeOK
<1>2. run' = run /\ current' = current /\ queue' = queue /\ outbound' \in {outbound, <<>>}
  BY DEF Break, owner, channel
<1>3. CASE outbound' = outbound
  BY <1>2, <1>3 DEF Pipeline
<1>4. CASE outbound' = <<>> /\ outbound # <<>>
  <2> DEFINE h == Head(outbound)
             hand == IF run = "write" THEN <<current>> ELSE <<>>
  <2>1. Len(outbound) = 1 /\ h \in Messages
    <3>1. Len(outbound) \in Nat \ {0} /\ h \in Messages
      BY <1>1, <1>4
    <3>2. \A n \in Nat \ {0} : n <= 1 => n = 1
      OBVIOUS
    <3>3. Len(outbound) = 1
      BY <3>1, <3>2, Zenon
    <3> QED
      BY <3>1, <3>3
  <2>2. outbound = <<h>> /\ <<h>> \in Seq(Messages)
    <3>1. ASSUME NEW s \in Seq(Messages), Len(s) = 1 PROVE s = <<Head(s)>>
      BY <3>1
    <3> QED
      BY <1>1, <2>1, <3>1
  <2>3. hand \in Seq(Messages) /\ <<>> \in Seq(Messages)
    BY DEF Types, AtHand
  <2>4. Pipeline = <<h>> \o hand \o queue /\ Pipeline' = <<>> \o hand \o queue
    <3> HIDE DEF h
    <3> QED
      BY <1>2, <1>4, <2>2 DEF Pipeline
  <2> HIDE DEF h, hand
  <2>5. hand \o queue \in Seq(Messages) /\ <<h>> \o hand \o queue = <<h>> \o (hand \o queue)
    BY <1>1, <2>2, <2>3, ConcatAssociative, ConcatProperties
  <2>6. <<>> \o hand = hand
    BY <2>3
  <2>7. <<>> \o (<<h>> \o (hand \o queue)) = <<h>> \o (hand \o queue)
        /\ <<>> \o (hand \o queue) = hand \o queue
    <3>1. <<h>> \o (hand \o queue) \in Seq(Messages)
      BY <2>2, <2>5
    <3> QED
      BY <2>5, <3>1, ConcatEmptySeq
  <2>8. Loses(h)
    BY <2>3, <2>4, <2>5, <2>6, <2>7 DEF Loses, Between
  <2> QED
    BY <1>4, <2>1, <2>8 DEF h
<1> QED
  BY <1>2, <1>3, <1>4

\* The pipeline without x: its other messages, each once.
LEMMA LosesEntry ==
  ASSUME Types, Apart, NEW x \in Messages, Loses(x)
  PROVE  /\ x \in Elements(Pipeline) /\ Elements(Pipeline') = Elements(Pipeline) \ {x}
         /\ Apart'
<1>1. PICK u \in Seq(Messages), v \in Seq(Messages) :
        Pipeline = Between(u, x, v) /\ Pipeline' = u \o v
  BY DEF Loses
<1> DEFINE p == Pipeline
           q == Pipeline'
<1>2. /\ p \in Seq(Messages) /\ q \in Seq(Messages)
      /\ \E k \in 1 .. Len(p) : p[k] = x /\ RemoveAt(p, k) = q
  <2>1. Between(u, x, v) \in Seq(Messages) /\ u \o v \in Seq(Messages)
    BY BetweenType, Zenon
  <2>2. \E k \in 1 .. Len(Between(u, x, v)) :
           Between(u, x, v)[k] = x /\ RemoveAt(Between(u, x, v), k) = u \o v
    BY RemoveBetween, Zenon
  <2> QED
    BY <1>1, <2>1, <2>2
<1>3. \A i, j \in DOMAIN p : p[i].caller = p[j].caller /\ p[i].n = p[j].n => i = j
  BY DEF Apart
<1> HIDE DEF p, q
<1>4. PICK n \in 1 .. Len(p) : p[n] = x /\ RemoveAt(p, n) = q
  BY <1>2
<1>5. n \in DOMAIN p
  BY <1>2
<1>6. ToSet(RemoveAt(p, n)) = ToSet(p) \ {p[n]}
  <2>1. \A i, j \in DOMAIN p : p[i] = p[j] => i = j
    BY <1>3
  <2> QED
    BY <1>2, <1>5, <2>1, LeaveLine
<1>7. Elements(q) = Elements(p) \ {x} /\ x \in Elements(p)
  BY <1>4, <1>5, <1>6 DEF ToSet, Elements
<1>8. /\ Len(RemoveAt(p, n)) = Len(p) - 1
      /\ \A k \in 1 .. Len(p) - 1 : RemoveAt(p, n)[k] = IF k < n THEN p[k] ELSE p[k + 1]
  BY <1>2, <1>5, RemoveAtElements
<1>9. /\ DOMAIN p = 1 .. Len(p) /\ Len(p) \in Nat /\ DOMAIN q = 1 .. Len(p) - 1 /\ n \in 1 .. Len(p)
      /\ \A k \in 1 .. Len(p) - 1 : q[k] = IF k < n THEN p[k] ELSE p[k + 1]
  BY <1>2, <1>4, <1>8
<1>10. ASSUME NEW i \in DOMAIN q, NEW j \in DOMAIN q, q[i].caller = q[j].caller, q[i].n = q[j].n
      PROVE  i = j
  <2>1. PICK k \in DOMAIN p : k = (IF i < n THEN i ELSE i + 1) /\ q[i] = p[k]
    BY <1>9
  <2>2. PICK l \in DOMAIN p : l = (IF j < n THEN j ELSE j + 1) /\ q[j] = p[l]
    BY <1>9
  <2>3. k = l
    BY <1>3, <1>10, <2>1, <2>2
  <2> QED
    BY <1>9, <2>1, <2>2, <2>3
<1> QED
  BY <1>7, <1>10 DEF p, q, Apart

-------------------------------------------------------------------------------
(* The journey, step by step.                                              *)

\* Messages at work are messages.
LEMMA AtWorkMessages == Types => AtWork \subseteq Messages
<1> SUFFICES ASSUME Types PROVE AtWork \subseteq Messages
  OBVIOUS
<1>1. Elements(Pipeline) \subseteq Messages
  BY PipelineTypes DEF Elements
<1> QED
  BY <1>1 DEF AtWork, Types, AtHand

\* The count of a caller only grows, and grows when the caller joins the line.
LEMMA StepCounts ==
  ASSUME Types, [Next]_vars, NEW d \in Callers
  PROVE  /\ made[d] \in Nat
         /\ made'[d] = made[d] \/ made'[d] = made[d] + 1
         /\ call'[d] = "sending" =>
              made'[d] = made[d] + 1 \/ (made'[d] = made[d] /\ call[d] = "sending")
<1> USE DEF callers, channel, owner, server
<1>1. made \in [Callers -> Nat] /\ call \in [Callers -> {"idle", "sending", "waiting", "gone"}]
  BY BufferedClientAssumption DEF Types, TypeOK
<1>2. CASE UNCHANGED <<made, call>>
  BY <1>1, <1>2
<1>3. ASSUME NEW c \in Callers, Call(c) \/ Send(c) \/ Return(c) \/ Abandon(c) \/ DropHandle(c)
      PROVE  /\ made'[d] = made[d] \/ made'[d] = made[d] + 1
             /\ call'[d] = "sending" =>
                  made'[d] = made[d] + 1 \/ (made'[d] = made[d] /\ call[d] = "sending")
  <2>1. CASE Call(c)
    <3>1. /\ made'[d] = IF d = c THEN made[d] + 1 ELSE made[d]
          /\ call'[d] = IF d = c THEN "sending" ELSE call[d]
      BY <1>1, <2>1 DEF Call
    <3>2. CASE d = c
      BY <3>1, <3>2
    <3>3. CASE d # c
      BY <3>1, <3>3
    <3> QED
      BY <3>2, <3>3
  <2>2. CASE Send(c) \/ Return(c) \/ Abandon(c) \/ DropHandle(c)
    BY <1>1, <2>2 DEF Send, Return, Abandon, DropHandle
  <2> QED
    BY <1>3, <2>1, <2>2
<1>4. ASSUME \/ Receive \/ ReceiveNone \/ Write \/ ReadResponse \/ ReadFails \/ Answer
             \/ Serve \/ Break \/ UNCHANGED vars
      PROVE  UNCHANGED <<made, call>>
  BY <1>4 DEF Receive, ReceiveNone, Write, ReadResponse, ReadFails, Answer, Serve, Break, vars
<1> QED
  BY <1>1, <1>2, <1>3, <1>4 DEF Next

\* A caller that waits for a message at work waited for it before, and only the
\* server's step gives it a reply.
LEMMA StepAwaited ==
  ASSUME Types, Numbered, [Next]_vars, NEW m \in AtWork,
         call'[m.caller] = "waiting", made'[m.caller] = m.n
  PROVE  Awaited(m) /\ (~Serve => result'[m.caller] = result[m.caller])
<1> USE DEF callers, channel, owner, server
<1> DEFINE d == m.caller
<1>1. m \in Messages /\ d \in Callers /\ m.n \in Nat
  BY AtWorkMessages, BufferedClientAssumption DEF Messages
<1>2. m.n <= made[d] /\ (call[d] = "sending" => m.n < made[d]) /\ made[d] \in Nat
  BY <1>1, BufferedClientAssumption DEF Numbered, Types, TypeOK
<1>3. made'[d] = made[d]
  BY <1>1, <1>2, StepCounts
<1>4. /\ made \in [Callers -> 0 .. MaxCalls]
      /\ call \in [Callers -> {"idle", "sending", "waiting", "gone"}]
  BY DEF Types, TypeOK
<1>5. ASSUME NEW c \in Callers, Call(c) \/ Send(c) \/ Return(c) \/ Abandon(c) \/ DropHandle(c)
      PROVE  call[d] = "waiting" /\ result'[d] = result[d]
  <2>1. CASE Call(c)
    BY <1>1, <1>2, <1>3, <1>4, <2>1 DEF Call
  <2>2. CASE Send(c)
    <3>1. d # c
      BY <1>1, <1>2, <1>3, <2>2 DEF Send
    <3> QED
      BY <1>1, <1>4, <2>2, <3>1 DEF Send
  <2>3. CASE Return(c) \/ Abandon(c) \/ DropHandle(c)
    BY <1>1, <1>4, <2>3 DEF Return, Abandon, DropHandle
  <2> QED
    BY <1>5, <2>1, <2>2, <2>3
<1>6. ASSUME \/ Receive \/ ReceiveNone \/ Write \/ ReadResponse \/ ReadFails \/ Answer
             \/ Break \/ UNCHANGED vars
      PROVE  UNCHANGED <<made, call, result>>
  BY <1>6 DEF Receive, ReceiveNone, Write, ReadResponse, ReadFails, Answer, Break, vars
<1>7. ASSUME Serve PROVE UNCHANGED <<made, call>>
  BY <1>7 DEF Serve
<1> QED
  BY <1>3, <1>5, <1>6, <1>7 DEF Next, Awaited

\* What a step does to the pipeline, in short.
LEMMA StepPipeline ==
  ASSUME Types, Apart, Len(outbound) <= 1, [Next]_vars
  PROVE  \/ Pipeline' = Pipeline
         \/ \E c \in Callers : /\ Send(c) /\ Message(c) \in Messages
                               /\ Pipeline' = Pipeline \o <<Message(c)>>
         \/ \E x \in Messages : x \in Elements(Pipeline) /\ Loses(x)
<1>1. CASE \/ \E c \in Callers : Call(c) \/ Return(c) \/ Abandon(c) \/ DropHandle(c)
           \/ Receive \/ ReceiveNone \/ (Write /\ alive) \/ ReadResponse \/ ReadFails \/ Answer
           \/ UNCHANGED vars
  BY <1>1, PipelineStays
<1>2. CASE \E c \in Callers : Send(c)
  BY <1>2, PipelineGrows
<1>3. CASE Serve
  BY <1>3, ServeLoses, LosesEntry
<1>4. CASE Write /\ ~alive
  BY <1>4, WriteLoses, LosesEntry
<1>5. CASE Break
  BY <1>5, BreakLoses, LosesEntry
<1>6. CASE Next
  BY <1>1, <1>2, <1>3, <1>4, <1>5, <1>6, Zenon DEF Next
<1> QED
  BY <1>1, <1>6

\* At most one request is on the way.
LEMMA OneOnTheWay == ASSUME Types, Journey PROVE Len(outbound) <= 1
<1>1. Len(outbound) + Len(inbound) <= 1 /\ Len(outbound) \in Nat /\ Len(inbound) \in Nat
  BY Sockets DEF Journey, Matched
<1> QED
  BY <1>1

\* What the pipeline gets: the message of a caller that is given room.
LEMMA NewEntry ==
  ASSUME Types, Apart, Len(outbound) <= 1, [Next]_vars,
         NEW m \in Elements(Pipeline'), m \notin Elements(Pipeline)
  PROVE  \E c \in Callers : Send(c) /\ m = Message(c)
<1>1. Pipeline' # Pipeline
  OBVIOUS
<1>2. ASSUME NEW x \in Messages, x \in Elements(Pipeline), Loses(x) PROVE FALSE
  <2>1. Elements(Pipeline') = Elements(Pipeline) \ {x}
    BY <1>2, LosesEntry
  <2> QED
    BY <2>1
<1>3. PICK c \in Callers :
        Send(c) /\ Message(c) \in Messages /\ Pipeline' = Pipeline \o <<Message(c)>>
  BY <1>1, <1>2, StepPipeline, Zenon
<1>4. Elements(Pipeline') = Elements(Pipeline) \cup {Message(c)}
  <2>1. Pipeline \in Seq(Messages)
    BY PipelineTypes
  <2>2. Pipeline \o <<Message(c)>> = Append(Pipeline, Message(c))
    BY <1>3, <2>1
  <2>3. Elements(Append(Pipeline, Message(c))) = Elements(Pipeline) \cup {Message(c)}
    BY <1>3, <2>1, ElementsAppend
  <2> QED
    BY <1>3, <2>2, <2>3
<1> QED
  BY <1>3, <1>4

\* The messages at work after a step: those before it, and the one of a caller that
\* has been given room.
LEMMA StepAtWork ==
  ASSUME Types, Apart, Len(outbound) <= 1, [Next]_vars, NEW m \in AtWork', m \notin AtWork
  PROVE  \E c \in Callers : Send(c) /\ m = Message(c)
<1> USE DEF callers, channel, owner, server
<1>0. Pipeline \in Seq(Messages) /\ outbound \in Seq(Messages)
  BY PipelineTypes DEF Types, TypeOK
<1>1. CASE m \in Elements(Pipeline')
  <2>1. m \notin Elements(Pipeline)
    BY DEF AtWork
  <2> QED
    BY <1>1, <2>1, NewEntry
<1>2. CASE m \notin Elements(Pipeline')
  <2>1. run' \in {"write", "read", "answer"} /\ m = current'
    BY <1>2 DEF AtWork
  <2>2. CASE Receive
    <3>1. run' = "write" /\ current' \in Elements(Pipeline')
      <4> DEFINE h == current'
                 t == queue'
                 o == outbound
                 s == <<h>>
      <4>1. run' = "write" /\ Pipeline' = o \o s \o t
        BY <2>2 DEF Receive, Pipeline
      <4>2. o \in Seq(Messages) /\ t \in Seq(Messages) /\ h \in Messages
        <5>1. queue \in Seq(Messages) /\ queue # <<>> /\ h = Head(queue) /\ t = Tail(queue)
          BY <2>2 DEF Receive, Types, TypeOK
        <5> QED
          BY <1>0, <5>1
      <4> HIDE DEF h, t, o
      <4>3. s \in Seq(Messages) /\ h \in Elements(s)
        BY <4>2 DEF Elements
      <4> HIDE DEF s
      <4>4. o \o s \in Seq(Messages) /\ Elements(o \o s) = Elements(o) \cup Elements(s)
        BY <4>2, <4>3, ElementsConcat, ConcatProperties
      <4>5. Elements(o \o s \o t) = Elements(o \o s) \cup Elements(t)
        <5> DEFINE os == o \o s
        <5>1. os \in Seq(Messages)
          BY <4>4
        <5> HIDE DEF os
        <5>2. Elements(os \o t) = Elements(os) \cup Elements(t)
          BY <4>2, <5>1, ElementsConcat
        <5> QED
          BY <5>2 DEF os
      <4> QED
        BY <4>1, <4>3, <4>4, <4>5 DEF h
    <3> QED
      BY <1>2, <2>1, <3>1
  <2>3. CASE ~Receive
    <3>1. \/ UNCHANGED <<run, current>>
          \/ run \in {"write", "read"} /\ current' = current
          \/ run' \in {"recv", "ended"}
      <4>1. ASSUME NEW c \in Callers, Call(c) \/ Send(c) \/ Return(c) \/ Abandon(c) \/ DropHandle(c)
            PROVE  UNCHANGED <<run, current>>
        BY <4>1 DEF Call, Send, Return, Abandon, DropHandle
      <4>2. ASSUME Serve \/ Break \/ UNCHANGED vars PROVE UNCHANGED <<run, current>>
        BY <4>2 DEF Serve, Break, vars
      <4>3. ASSUME Write \/ ReadResponse \/ ReadFails
            PROVE  run \in {"write", "read"} /\ current' = current
        BY <4>3 DEF Write, ReadResponse, ReadFails
      <4>4. ASSUME ReceiveNone \/ Answer PROVE run' \in {"recv", "ended"}
        BY <4>4 DEF ReceiveNone, Answer
      <4> QED
        BY <2>3, <4>1, <4>2, <4>3, <4>4 DEF Next
    <3>2. run \in {"write", "read", "answer"} /\ m = current
      BY <2>1, <3>1
    <3> QED
      BY <3>2 DEF AtWork
  <2> QED
    BY <2>2, <2>3
<1> QED
  BY <1>1, <1>2

\* A message keeps its place among the calls of its caller.
LEMMA StepNumbered ==
  ASSUME Types, Types', Journey, [Next]_vars
  PROVE  Numbered'
<1> USE DEF callers, channel, owner, server
<1>0. Numbered /\ Apart /\ Len(outbound) <= 1
  BY OneOnTheWay DEF Journey
<1> SUFFICES ASSUME NEW m \in AtWork'
             PROVE  m.n <= made'[m.caller] /\ (call'[m.caller] = "sending" => m.n < made'[m.caller])
  BY DEF Numbered
<1>1. CASE m \in AtWork
  <2>1. m.caller \in Callers /\ m.n \in Nat
    BY <1>1, AtWorkMessages, BufferedClientAssumption DEF Messages
  <2>2. m.n <= made[m.caller] /\ (call[m.caller] = "sending" => m.n < made[m.caller])
    BY <1>0, <1>1 DEF Numbered
  <2>3. /\ made[m.caller] \in Nat
        /\ made'[m.caller] = made[m.caller] \/ made'[m.caller] = made[m.caller] + 1
        /\ call'[m.caller] = "sending" =>
              \/ made'[m.caller] = made[m.caller] + 1
              \/ made'[m.caller] = made[m.caller] /\ call[m.caller] = "sending"
    BY <2>1, StepCounts
  <2>4. m.n <= made'[m.caller]
    BY <2>1, <2>2, <2>3
  <2>5. ASSUME call'[m.caller] = "sending" PROVE m.n < made'[m.caller]
    <3>1. CASE made'[m.caller] = made[m.caller] + 1
      BY <2>1, <2>2, <2>3, <3>1
    <3>2. CASE made'[m.caller] = made[m.caller] /\ call[m.caller] = "sending"
      BY <2>2, <3>2
    <3> QED
      BY <2>3, <2>5, <3>1, <3>2
  <2> QED
    BY <2>4, <2>5
<1>2. CASE m \notin AtWork
  <2>1. PICK c \in Callers : Send(c) /\ m = Message(c)
    BY <1>0, <1>2, StepAtWork
  <2>2. m.caller = c /\ m.n = made[c] /\ made' = made /\ call'[c] = "waiting"
    BY <2>1 DEF Send, Message, Types, TypeOK
  <2>3. made[c] \in Nat
    BY BufferedClientAssumption DEF Types, TypeOK
  <2> QED
    BY <2>2, <2>3
<1> QED
  BY <1>1, <1>2

\* A call has one message: the one of a caller that is given room is its first.
LEMMA StepApart ==
  ASSUME Types, Types', Journey, [Next]_vars
  PROVE  Apart'
<1>0. Numbered /\ Apart /\ Len(outbound) <= 1
  BY OneOnTheWay DEF Journey
<1>1. CASE Pipeline' = Pipeline
  BY <1>0, <1>1 DEF Apart
<1>2. CASE \E x \in Messages : x \in Elements(Pipeline) /\ Loses(x)
  BY <1>0, <1>2, LosesEntry
<1>3. ASSUME NEW c \in Callers, Send(c), Message(c) \in Messages,
             Pipeline' = Pipeline \o <<Message(c)>>
      PROVE  Apart'
  <2> DEFINE p == Pipeline
             q == Pipeline'
             x == Message(c)
  <2>1. p \in Seq(Messages) /\ q = Append(p, x)
    <3>1. p \in Seq(Messages)
      BY PipelineTypes
    <3> QED
      BY <1>3, <3>1
  <2>2. ASSUME NEW i \in DOMAIN p PROVE ~(p[i].caller = x.caller /\ p[i].n = x.n)
    <3>1. p[i] \in AtWork /\ p[i] \in Messages /\ x.caller = c /\ x.n = made[c]
      BY <2>1 DEF AtWork, Elements, Message
    <3>2. CASE p[i].caller = c
      <4>1. p[i].n < made[c] /\ p[i].n \in Nat /\ made[c] \in Nat
        BY <1>0, <1>3, <3>1, <3>2, BufferedClientAssumption
           DEF Numbered, Send, Messages, Types, TypeOK
      <4> QED
        BY <3>1, <4>1
    <3> QED
      BY <3>1, <3>2
  <2>3. \A i, j \in DOMAIN p : p[i].caller = p[j].caller /\ p[i].n = p[j].n => i = j
    BY <1>0 DEF Apart
  <2> HIDE DEF p, q, x
  <2>4. /\ DOMAIN p = 1 .. Len(p) /\ Len(p) \in Nat /\ DOMAIN Append(p, x) = 1 .. Len(p) + 1
        /\ \A i \in 1 .. Len(p) : Append(p, x)[i] = p[i]
        /\ Append(p, x)[Len(p) + 1] = x
    BY <2>1, AppendEntries
  <2>5. ASSUME NEW i \in DOMAIN q, NEW j \in DOMAIN q, q[i].caller = q[j].caller, q[i].n = q[j].n
        PROVE  i = j
    <3>1. /\ (i \in DOMAIN p /\ q[i] = p[i]) \/ (i = Len(p) + 1 /\ q[i] = x)
          /\ (j \in DOMAIN p /\ q[j] = p[j]) \/ (j = Len(p) + 1 /\ q[j] = x)
      BY <2>1, <2>4
    <3> QED
      BY <2>2, <2>3, <2>5, <3>1
  <2> QED
    BY <2>5 DEF q, Apart
<1> QED
  BY <1>0, <1>1, <1>2, <1>3, StepPipeline, Zenon

\* A call whose message is on the way has no reply: the server's step takes the
\* message away, and a call has no other.
LEMMA StepUnanswered ==
  ASSUME Types, Types', Journey, [Next]_vars
  PROVE  Unanswered'
<1> USE DEF callers, channel, owner, server
<1>0. Numbered /\ Apart /\ Unanswered /\ Len(outbound) <= 1
  BY OneOnTheWay DEF Journey
<1>1. result \in [Callers -> {Nothing} \cup {Value(v) : v \in Values \cup {None}}]
  BY DEF Journey, Delivered
<1>2. ASSUME NEW d \in Callers, call'[d] = "sending" PROVE result'[d] = Nothing
  <2>1. call \in [Callers -> {"idle", "sending", "waiting", "gone"}]
    BY DEF Types, TypeOK
  <2>2. call[d] = "sending" => result[d] = Nothing
    BY <1>0 DEF Unanswered
  <2>3. ASSUME NEW c \in Callers, Call(c) PROVE result'[d] = Nothing
    <3>1. CASE d = c
      BY <1>1, <2>3, <3>1 DEF Call
    <3>2. CASE d # c
      BY <1>1, <1>2, <2>1, <2>2, <2>3, <3>2 DEF Call
    <3> QED
      BY <3>1, <3>2
  <2>4. ASSUME NEW c \in Callers, Send(c) \/ Return(c) \/ Abandon(c) \/ DropHandle(c)
        PROVE  result'[d] = Nothing
    BY <1>2, <2>1, <2>2, <2>4 DEF Send, Return, Abandon, DropHandle
  <2>5. ASSUME \/ Receive \/ ReceiveNone \/ Write \/ ReadResponse \/ ReadFails \/ Answer
               \/ Break \/ UNCHANGED vars
        PROVE  result'[d] = Nothing
    <3>1. UNCHANGED <<call, result>>
      BY <2>5 DEF Receive, ReceiveNone, Write, ReadResponse, ReadFails, Answer, Break, vars
    <3> QED
      BY <1>2, <2>2, <3>1
  <2>6. ASSUME Serve PROVE result'[d] = Nothing
    <3> DEFINE h == Head(outbound)
    <3>1. UNCHANGED call /\ (result' = result \/ (Awaited(h) /\ result' = [result EXCEPT ![h.caller] = Value(Served(h))]))
      BY <2>6 DEF Serve
    <3> HIDE DEF h
    <3>2. Awaited(h) => h.caller # d
      BY <1>2, <3>1 DEF Awaited
    <3> QED
      BY <1>1, <1>2, <2>2, <3>1, <3>2
  <2> QED
    BY <2>3, <2>4, <2>5, <2>6 DEF Next
<1>3. ASSUME NEW m \in Elements(Pipeline'), call'[m.caller] = "waiting", made'[m.caller] = m.n
      PROVE  result'[m.caller] = Nothing
  <2>1. CASE m \in Elements(Pipeline)
    <3>1. m \in AtWork /\ m \in Messages
      BY <2>1, AtWorkMessages DEF AtWork
    <3>2. Awaited(m) /\ (~Serve => result'[m.caller] = result[m.caller])
      BY <1>0, <1>3, <3>1, StepAwaited
    <3>3. result[m.caller] = Nothing
      BY <1>0, <2>1, <3>2 DEF Unanswered
    <3>4. CASE Serve
      <4> DEFINE h == Head(outbound)
      <4>1. h \in Messages /\ Loses(h)
        BY <3>4, ServeLoses
      <4>2. result' = result \/ (Awaited(h) /\ result' = [result EXCEPT ![h.caller] = Value(Served(h))])
        BY <3>4 DEF Serve
      <4> HIDE DEF h
      <4>3. h \in Elements(Pipeline) /\ m # h
        <5>1. h \in Elements(Pipeline) /\ Elements(Pipeline') = Elements(Pipeline) \ {h}
          BY <1>0, <4>1, LosesEntry
        <5> QED
          BY <1>3, <5>1
      <4>4. Awaited(h) => h.caller # m.caller
        <5>1. ~(h.caller = m.caller /\ h.n = m.n)
          BY <1>0, <2>1, <4>3 DEF Apart, Elements
        <5> QED
          BY <3>2, <5>1 DEF Awaited
      <4>5. h.caller \in Callers /\ m.caller \in Callers
        BY <3>1, <4>1 DEF Messages
      <4> QED
        BY <1>1, <3>3, <4>2, <4>4, <4>5
    <3> QED
      BY <3>2, <3>3, <3>4
  <2>2. CASE m \notin Elements(Pipeline)
    <3>1. PICK c \in Callers : Send(c) /\ m = Message(c)
      BY <1>0, <1>3, <2>2, NewEntry
    <3>2. m.caller = c /\ call[c] = "sending" /\ result' = result
      BY <3>1 DEF Send, Message
    <3> QED
      BY <1>0, <3>2 DEF Unanswered
  <2> QED
    BY <2>1, <2>2
<1> QED
  BY <1>2, <1>3 DEF Unanswered, Awaited

\* The current message, if its caller still waits, has the reply it had.
LEMMA CurrentKeeps ==
  ASSUME Types, Numbered, [Next]_vars, ~Serve, run \in {"write", "read", "answer"},
         UNCHANGED current, Awaited(current)'
  PROVE  Awaited(current) /\ result'[current.caller] = result[current.caller]
<1>1. current \in AtWork
  BY DEF AtWork
<1>2. call'[current.caller] = "waiting" /\ made'[current.caller] = current.n
  BY DEF Awaited
<1> QED
  BY <1>1, <1>2, StepAwaited

\* Reply and request in their places: a reply of the server is the one to the current
\* request, and it is what the owner makes of it.
LEMMA StepMatched ==
  ASSUME Types, Types', OneInFlight, Journey, [Next]_vars
  PROVE  Matched'
<1> USE DEF callers, channel, owner, server
<1>1. Numbered /\ Matched /\ Len(outbound) + Len(inbound) <= 1
  BY DEF Journey, Matched
<1>2. /\ outbound \in Seq(Messages) /\ inbound \in Seq(Replies)
      /\ Len(outbound) \in Nat /\ Len(inbound) \in Nat
      /\ outbound = <<>> <=> Len(outbound) = 0
      /\ inbound = <<>> <=> Len(inbound) = 0
  BY Sockets
<1>3. \A m, n \in Nat : m + n <= 1 => (n # 0 => n = 1 /\ m = 0) /\ (m # 0 => m = 1 /\ n = 0)
  OBVIOUS
\* Steps that leave the sockets and the owner alone.
<1>4. ASSUME UNCHANGED <<owner, outbound, inbound>>, ~Serve PROVE Matched'
  <2>1. Len(outbound') + Len(inbound') <= 1
    BY <1>1, <1>4
  <2>2. ASSUME inbound' # <<>>, Awaited(current)'
        PROVE  result'[current'.caller] = Reply(current'.cmd, Head(inbound'))
    <3>1. inbound # <<>> /\ run = "read" /\ current' = current
      BY <1>1, <1>4, <2>2 DEF Matched
    <3>2. Awaited(current) /\ result'[current.caller] = result[current.caller]
      BY <1>1, <1>4, <2>2, <3>1, CurrentKeeps
    <3> QED
      BY <1>1, <1>4, <3>1, <3>2 DEF Matched
  <2>3. ASSUME run' = "answer", response' # Failed, Awaited(current)'
        PROVE  result'[current'.caller] = response'
    <3>1. run = "answer" /\ response # Failed /\ current' = current
      BY <1>4, <2>3
    <3>2. Awaited(current) /\ result'[current.caller] = result[current.caller]
      BY <1>1, <1>4, <2>3, <3>1, CurrentKeeps
    <3> QED
      BY <1>1, <1>4, <3>1, <3>2 DEF Matched
  <2> QED
    BY <1>1, <1>4, <2>1, <2>2, <2>3 DEF Matched
<1>5. CASE Receive \/ ReceiveNone
  <2>1. run = "recv" /\ run' \in {"write", "ended"} /\ outbound' = outbound /\ inbound' = inbound
    BY <1>5 DEF Receive, ReceiveNone
  <2>2. inbound = <<>>
    BY <1>1, <2>1 DEF Matched
  <2> QED
    BY <1>1, <2>1, <2>2 DEF Matched
<1>6. CASE Write
  <2>1. inbound = <<>> /\ inbound' = <<>>
    BY <1>1, <1>6 DEF Matched, Write
  <2>2. Len(outbound') <= 1
    <3>1. CASE alive
      <4>1. outbound = <<>> /\ outbound' = Append(outbound, current)
        BY <1>2, <1>6, <3>1 DEF Write, OneInFlight
      <4> QED
        BY <4>1
    <3>2. CASE ~alive
      BY <1>1, <1>2, <1>6, <2>1, <3>2 DEF Write
    <3> QED
      BY <3>1, <3>2
  <2>3. run' = "read" \/ response' = Failed
    BY <1>6 DEF Write
  <2>4. Len(inbound') = 0 /\ Len(outbound') \in Nat
    BY <2>1 DEF Types, TypeOK
  <2>5. Len(outbound') + Len(inbound') <= 1
    BY <2>2, <2>4
  <2> QED
    BY <2>1, <2>3, <2>5 DEF Matched
<1>7. CASE ReadResponse
  <2>1. /\ inbound # <<>> /\ inbound' = Tail(inbound) /\ outbound' = outbound /\ run' = "answer"
        /\ response' = Reply(current.cmd, Head(inbound)) /\ UNCHANGED <<call, made, result, current>>
    BY <1>7 DEF ReadResponse
  <2>2. Len(inbound) = 1 /\ outbound = <<>>
    BY <1>1, <1>2, <1>3, <2>1, Zenon
  <2>3. inbound' = <<>> /\ outbound' = <<>>
    BY <1>2, <2>1, <2>2
  <2>4. Awaited(current)' => result'[current'.caller] = response'
    BY <1>1, <2>1 DEF Matched, Awaited
  <2> QED
    BY <2>1, <2>3, <2>4 DEF Matched
<1>8. CASE ReadFails
  <2>1. inbound' = <<>> /\ outbound' = outbound /\ response' = Failed
    BY <1>8 DEF ReadFails
  <2> QED
    BY <1>1, <1>2, <2>1 DEF Matched
<1>9. CASE Answer
  <2>1. run = "answer" /\ run' = "recv" /\ outbound' = outbound /\ inbound' = inbound
    BY <1>9 DEF Answer
  <2>2. inbound = <<>>
    BY <1>1, <2>1 DEF Matched
  <2> QED
    BY <1>1, <2>1, <2>2 DEF Matched
<1>10. CASE Serve
  <2> DEFINE h == Head(outbound)
             frame == IF h.cmd.op = "set" THEN OK ELSE store[h.cmd.key]
  <2>1. /\ outbound # <<>> /\ outbound' = Tail(outbound) /\ UNCHANGED <<call, made, owner, alive>>
        /\ inbound' = IF alive THEN Append(inbound, frame) ELSE inbound
        /\ result' = IF Awaited(h) THEN [result EXCEPT ![h.caller] = Value(Served(h))] ELSE result
    BY <1>10 DEF Serve
  <2>2. Len(outbound) = 1 /\ inbound = <<>>
    BY <1>1, <1>2, <1>3, <2>1, Zenon
  <2>3. outbound' = <<>>
    BY <1>2, <2>1, <2>2
  <2>4. run = "answer" => response = Failed
    BY <1>1, <2>1 DEF Matched
  <2>5. CASE ~alive
    <3>1. inbound' = <<>>
      BY <2>1, <2>2, <2>5
    <3>2. run' = "answer" => response' = Failed
      BY <2>1, <2>4
    <3>3. Len(outbound') + Len(inbound') <= 1
      BY <2>3, <3>1
    <3> HIDE DEF frame, h
    <3> QED
      BY <3>1, <3>2, <3>3 DEF Matched
  <2>6. CASE alive
    <3>1. run = "read" /\ h = current
      <4>1. Len(outbound) + Len(inbound) = 1
        BY <1>2, <2>2
      <4> QED
        BY <2>1, <2>6, <4>1 DEF OneInFlight
    <3>2. inbound' = <<frame>>
      BY <2>1, <2>2, <2>6
    <3>3. h \in Messages
      BY <1>2, <2>1
    <3>4. Value(Served(h)) = Reply(h.cmd, frame)
      <4>1. h.cmd \in Commands
        BY <3>3 DEF Messages
      <4>2. h.cmd.op \in {"get", "set"}
        BY <4>1 DEF Commands
      <4> QED
        BY <4>2 DEF Served, Reply
    <3> HIDE DEF frame, h
    <3>5. Awaited(h) => result'[h.caller] = Reply(h.cmd, frame)
      <4>1. h.caller \in DOMAIN result
        BY <3>3 DEF Messages, Journey, Delivered
      <4> QED
        BY <2>1, <3>4, <4>1
    <3>6. current' = current /\ run' = "read" /\ (Awaited(current)' => Awaited(h))
      BY <2>1, <3>1 DEF Awaited
    <3>7. Head(inbound') = frame /\ Len(inbound') = 1 /\ Len(outbound') = 0
      BY <2>3, <3>2
    <3>8. Awaited(current)' => result'[current'.caller] = Reply(current'.cmd, Head(inbound'))
      BY <3>1, <3>5, <3>6, <3>7
    <3> QED
      BY <2>3, <3>6, <3>7, <3>8 DEF Matched
  <2> QED
    BY <2>5, <2>6
<1>11. CASE Break
  <2>1. /\ outbound' = outbound \/ outbound' = <<>>
        /\ UNCHANGED <<call, made, owner, inbound, result>>
    BY <1>11 DEF Break
  <2>2. Len(outbound') + Len(inbound') <= 1
    BY <1>1, <1>2, <2>1
  <2> QED
    BY <1>1, <2>1, <2>2 DEF Matched, Awaited
<1> QED
  <2>1. ASSUME NEW c \in Callers,
               Call(c) \/ Send(c) \/ Return(c) \/ Abandon(c) \/ DropHandle(c)
        PROVE  UNCHANGED <<owner, outbound, inbound>>
    BY <2>1 DEF Call, Send, Return, Abandon, DropHandle
  <2>2. ASSUME UNCHANGED vars PROVE UNCHANGED <<owner, outbound, inbound>>
    BY <2>2 DEF vars
  <2> QED
    BY <1>4, <1>5, <1>6, <1>7, <1>8, <1>9, <1>10, <1>11, <2>1, <2>2 DEF Next

\* An answer arrives while its caller waits, and stays the reply of the server.
LEMMA StepDelivered ==
  ASSUME Types, Types', Journey, [Next]_vars
  PROVE  Delivered'
<1> USE DEF callers, channel, owner, server
<1> DEFINE R == {Nothing} \cup {Value(v) : v \in Values \cup {None}}
<1>1. /\ result \in [Callers -> R]
      /\ \A c \in Callers : /\ oneshot[c] # Nothing => call[c] = "waiting"
                            /\ oneshot[c] \notin {Failed, Nothing} => result[c] = oneshot[c]
  BY DEF Journey, Delivered
<1>2. oneshot \in [Callers -> Responses] /\ call \in [Callers -> {"idle", "sending", "waiting", "gone"}]
  BY DEF Types, TypeOK, AnswerTypes
<1>3. SUFFICES /\ result' \in [Callers -> R]
               /\ \A d \in Callers :
                    /\ oneshot'[d] # Nothing => call'[d] = "waiting"
                    /\ oneshot'[d] \notin {Failed, Nothing} => result'[d] = oneshot'[d]
  BY DEF Delivered
<1>4. Nothing \in R
  OBVIOUS
<1> HIDE DEF R
<1>5. CASE UNCHANGED <<oneshot, call, result>>
  BY <1>1, <1>5
<1>6. ASSUME NEW c \in Callers, Call(c)
      PROVE  /\ result' \in [Callers -> R]
             /\ \A d \in Callers :
                  /\ oneshot'[d] # Nothing => call'[d] = "waiting"
                  /\ oneshot'[d] \notin {Failed, Nothing} => result'[d] = oneshot'[d]
  <2>1. /\ result' = [result EXCEPT ![c] = Nothing] /\ oneshot' = oneshot
        /\ call' = [call EXCEPT ![c] = "sending"] /\ call[c] = "idle"
    BY <1>6 DEF Call
  <2>2. oneshot[c] = Nothing
    BY <1>1, <2>1
  <2>3. result' \in [Callers -> R]
    BY <1>1, <1>4, <2>1
  <2> QED
    BY <1>1, <1>2, <2>1, <2>2, <2>3
<1>7. ASSUME NEW c \in Callers, Send(c) \/ Return(c) \/ Abandon(c) \/ DropHandle(c)
      PROVE  /\ result' \in [Callers -> R]
             /\ \A d \in Callers :
                  /\ oneshot'[d] # Nothing => call'[d] = "waiting"
                  /\ oneshot'[d] \notin {Failed, Nothing} => result'[d] = oneshot'[d]
  <2>1. result' = result
    BY <1>7 DEF Send, Return, Abandon, DropHandle
  <2>2. ASSUME NEW d \in Callers
        PROVE  /\ oneshot'[d] # Nothing => call'[d] = "waiting"
               /\ oneshot'[d] \notin {Failed, Nothing} => oneshot'[d] = oneshot[d]
    <3>1. CASE Send(c)
      BY <1>1, <1>2, <3>1 DEF Send
    <3>2. CASE Return(c)
      BY <1>1, <1>2, <3>2 DEF Return
    <3>3. CASE Abandon(c)
      BY <1>1, <1>2, <3>3 DEF Abandon
    <3>4. CASE DropHandle(c)
      BY <1>1, <1>2, <3>4 DEF DropHandle
    <3> QED
      BY <1>7, <3>1, <3>2, <3>3, <3>4
  <2> QED
    BY <1>1, <2>1, <2>2
<1>8. CASE Receive \/ ReceiveNone \/ Write \/ ReadResponse \/ ReadFails \/ Break \/ UNCHANGED vars
  <2>1. UNCHANGED <<oneshot, call, result>>
    BY <1>8 DEF Receive, ReceiveNone, Write, ReadResponse, ReadFails, Break, vars
  <2> QED
    BY <1>5, <2>1
<1>9. CASE Answer
  <2>1. run = "answer" /\ UNCHANGED <<call, result>>
        /\ oneshot' = IF Awaited(current) THEN [oneshot EXCEPT ![current.caller] = response] ELSE oneshot
    BY <1>9 DEF Answer
  <2>2. response # Failed /\ Awaited(current) => result[current.caller] = response
    BY <2>1 DEF Journey, Matched
  <2>3. ASSUME NEW d \in Callers
        PROVE  /\ oneshot'[d] # Nothing => call'[d] = "waiting"
               /\ oneshot'[d] \notin {Failed, Nothing} => result'[d] = oneshot'[d]
    <3>1. CASE Awaited(current) /\ current.caller = d
      <4>1. oneshot'[d] = response /\ call[d] = "waiting"
        BY <1>2, <2>1, <3>1 DEF Awaited
      <4> QED
        BY <2>1, <2>2, <3>1, <4>1
    <3>2. CASE ~(Awaited(current) /\ current.caller = d)
      <4>1. oneshot'[d] = oneshot[d]
        BY <1>2, <2>1, <3>2
      <4> QED
        BY <1>1, <2>1, <4>1
    <3> QED
      BY <3>1, <3>2
  <2> QED
    BY <1>1, <2>1, <2>3
<1>10. CASE Serve
  <2> DEFINE h == Head(outbound)
  <2>1. /\ UNCHANGED <<call, oneshot>>
        /\ result' = IF Awaited(h) THEN [result EXCEPT ![h.caller] = Value(Served(h))] ELSE result
    BY <1>10 DEF Serve
  <2>2. h \in Messages /\ h \in Elements(Pipeline)
    <3>1. h \in Messages /\ Loses(h) /\ Apart
      BY <1>10, ServeLoses DEF Journey
    <3> HIDE DEF h
    <3> QED
      BY <3>1, LosesEntry
  <2>3. h.caller \in Callers /\ Value(Served(h)) \in R
    <3>1. h.cmd \in Commands /\ h.caller \in Callers
      BY <2>2 DEF Messages
    <3>2. Served(h) \in Values \cup {None}
      BY <3>1 DEF Served, Commands, Types, TypeOK
    <3> QED
      BY <3>1, <3>2 DEF R
  <2>4. Awaited(h) => result[h.caller] = Nothing
    BY <2>2 DEF Journey, Unanswered
  <2> HIDE DEF h
  <2>5. result' \in [Callers -> R]
    BY <1>1, <2>1, <2>3
  <2>6. ASSUME NEW d \in Callers, oneshot'[d] \notin {Failed, Nothing}
        PROVE  result'[d] = oneshot'[d]
    <3>1. result[d] = oneshot[d] /\ oneshot[d] # Nothing
      BY <1>1, <2>1, <2>6
    <3>2. ~(Awaited(h) /\ h.caller = d)
      BY <2>4, <3>1
    <3>3. result'[d] = result[d]
      BY <1>1, <2>1, <3>2
    <3> QED
      BY <2>1, <3>1, <3>3
  <2> QED
    BY <1>1, <2>1, <2>5, <2>6
<1> QED
  BY <1>6, <1>7, <1>8, <1>9, <1>10 DEF Next

\* At first nothing is on its way.
LEMMA InitJourney == ASSUME Init PROVE Journey
<1>1. Pipeline = <<>>
  BY DEF Init, Pipeline
<1>2. AtWork = {} /\ Elements(Pipeline) = {} /\ DOMAIN Pipeline = {}
  BY <1>1 DEF Init, AtWork, Elements
<1>3. Delivered
  BY DEF Init, Delivered
<1>4. Matched
  BY DEF Init, Matched
<1>5. Unanswered
  BY <1>2 DEF Init, Unanswered
<1> QED
  BY <1>2, <1>3, <1>4, <1>5 DEF Journey, Numbered, Apart

\* A step keeps the journey of every command.
LEMMA StepJourney == ASSUME IInv, Journey, [Next]_vars PROVE Journey'
<1>1. Types /\ Types' /\ OneInFlight
  BY StepTypes DEF IInv
<1>2. Numbered'
  BY <1>1, StepNumbered
<1>3. Apart'
  BY <1>1, StepApart
<1>4. Unanswered'
  BY <1>1, StepUnanswered
<1>5. Matched'
  BY <1>1, StepMatched
<1>6. Delivered'
  BY <1>1, StepDelivered
<1> QED
  BY <1>2, <1>3, <1>4, <1>5, <1>6 DEF Journey

-------------------------------------------------------------------------------
(* The refinement mapping.                                                 *)

\* The messages of a caller without effect, and what CallStore sees of each.
Listing(c) == Kept(c) \o Queued(c)
Items      == [cmd : Commands, live : BOOLEAN]
ItemOf     == [m \in Messages |-> Item(m)]

\* The caller's backlog of CallStore.
BacklogListed ==
  \A c \in Callers :
    /\ Listing(c) \in Seq(Messages) /\ Kept(c) \in Seq(Messages) /\ Queued(c) \in Seq(Messages)
    /\ Backlog(c) = Map(ItemOf, Listing(c))

LEMMA BacklogIs == Types => BacklogListed
<1> SUFFICES ASSUME Types, NEW c \in Callers
             PROVE  /\ Listing(c) \in Seq(Messages)
                    /\ Kept(c) \in Seq(Messages) /\ Queued(c) \in Seq(Messages)
                    /\ Backlog(c) = Map(ItemOf, Listing(c))
  BY DEF BacklogListed
<1>1. /\ Kept(c) \in Seq(Own(c)) /\ Queued(c) \in Seq(Own(c))
      /\ Within(Pipeline \o Line, Own(c)) = Listing(c)
  BY Listed DEF Listing
<1>2. Kept(c) \in Seq(Messages) /\ Queued(c) \in Seq(Messages)
  <2>1. Own(c) \subseteq Messages
    BY DEF Own
  <2> QED
    BY <1>1, <2>1, SeqMonotonic
<1> DEFINE s == Listing(c)
<1>3. s \in Seq(Messages)
  BY <1>2 DEF Listing
<1>4. Backlog(c) = [i \in DOMAIN s |-> Item(s[i])]
  BY <1>1 DEF Backlog
<1> HIDE DEF s
<1>5. \A i \in DOMAIN s : ItemOf[s[i]] = Item(s[i])
  BY <1>3 DEF ItemOf
<1>6. Backlog(c) = Map(ItemOf, s)
  BY <1>4, <1>5 DEF Map
<1> QED
  BY <1>2, <1>3, <1>6 DEF s

\* What CallStore sees of a message.
LEMMA ItemTypes == ItemOf \in [Messages -> Items]
<1>1. ASSUME NEW m \in Messages PROVE Item(m) \in Items
  BY DEF Item, Items, Calling, Messages
<1> QED
  BY <1>1 DEF ItemOf

\* A list looks the same if each of its messages does.
LEMMA SameItems ==
  ASSUME NEW s \in Seq(Messages), \A m \in Elements(s) : Item(m)' = Item(m)
  PROVE  Map(ItemOf', s) = Map(ItemOf, s)
<1>1. ASSUME NEW i \in DOMAIN s PROVE ItemOf'[s[i]] = ItemOf[s[i]]
  <2>1. s[i] \in Messages /\ s[i] \in Elements(s)
    BY DEF Elements
  <2>2. Item(s[i])' = Item(s[i])
    BY <2>1
  <2> QED
    BY <2>1, <2>2 DEF ItemOf
<1> QED
  BY <1>1 DEF Map

\* The messages of a caller after a step in which the pipeline loses x.
LEMMA KeptLoses ==
  ASSUME Types, NEW x \in Messages, Loses(x), NEW d \in Callers
  PROVE  /\ d # x.caller => Kept(d)' = Kept(d)
         /\ d = x.caller => \E a, b \in Seq(Messages) : Kept(d) = Between(a, x, b) /\ Kept(d)' = a \o b
<1>1. PICK u \in Seq(Messages), v \in Seq(Messages) :
        Pipeline = Between(u, x, v) /\ Pipeline' = u \o v
  BY DEF Loses
<1> DEFINE S == Own(d)
           a == Within(u, S)
           b == Within(v, S)
           y == Within(<<x>>, S)
<1>2. Kept(d) = Within(Between(u, x, v), S) /\ Kept(d)' = Within(u \o v, S)
  BY <1>1 DEF Kept, Own
<1>3. x \in S <=> d = x.caller
  BY DEF Own
<1> HIDE DEF S
<1>4. a \in Seq(Messages) /\ b \in Seq(Messages)
  BY WithinKeeps
<1>5. Within(u \o v, S) = a \o b
  BY WithinConcat
<1>6. Within(Between(u, x, v), S) = a \o (y \o b)
  <2> DEFINE s == <<x>>
             t == s \o v
  <2>1. s \in Seq(Messages) /\ t \in Seq(Messages)
    OBVIOUS
  <2>2. Between(u, x, v) = u \o t
    BY DEF Between
  <2> HIDE DEF s
  <2>3. Within(t, S) = Within(s, S) \o Within(v, S)
    BY <2>1, WithinConcat, SMTT(30)
  <2> HIDE DEF t
  <2>4. Within(u \o t, S) = Within(u, S) \o Within(t, S)
    BY <2>1, WithinConcat, SMTT(30)
  <2> QED
    BY <2>2, <2>3, <2>4 DEF s
<1>7. y = IF x \in S THEN <<x>> ELSE <<>>
  BY WithinSingle
<1> HIDE DEF a, b, y
<1>8. <<>> \o b = b
  BY <1>4
<1>9. CASE d # x.caller
  BY <1>2, <1>3, <1>5, <1>6, <1>7, <1>8, <1>9
<1>10. CASE d = x.caller
  BY <1>2, <1>3, <1>4, <1>5, <1>6, <1>7, <1>10 DEF Between
<1> QED
  BY <1>9, <1>10

\* The backlog after a step.
LEMMA BacklogNext ==
  ASSUME Types', NEW c \in Callers
  PROVE  /\ Listing(c)' \in Seq(Messages) /\ Kept(c)' \in Seq(Messages) /\ Queued(c)' \in Seq(Messages)
         /\ Backlog(c)' = Map(ItemOf', Listing(c)')
<1>1. (Types => BacklogListed)'
  BY BacklogIs, PTL
<1>2. BacklogListed'
  BY <1>1
<1> QED
  BY <1>2 DEF BacklogListed

\* A backlog stays if its list does, and each message looks the same.
LEMMA BacklogKeeps ==
  ASSUME Types, Types', NEW c \in Callers, Listing(c)' = Listing(c),
         \A m \in Elements(Listing(c)) : Item(m)' = Item(m)
  PROVE  Backlog(c)' = Backlog(c)
<1>1. Listing(c) \in Seq(Messages) /\ Backlog(c) = Map(ItemOf, Listing(c))
  BY BacklogIs DEF BacklogListed
<1>2. Backlog(c)' = Map(ItemOf', Listing(c))
  BY BacklogNext
<1>3. Map(ItemOf', Listing(c)) = Map(ItemOf, Listing(c))
  BY <1>1, SameItems
<1> QED
  BY <1>1, <1>2, <1>3

\* The messages of a caller are its own, and those of the pipeline are at work.
LEMMA ListingOwn ==
  ASSUME Types, NEW c \in Callers
  PROVE  /\ \A m \in Elements(Listing(c)) : m \in Messages /\ m.caller = c
         /\ \A m \in Elements(Kept(c)) : m \in AtWork /\ m \in Elements(Pipeline) /\ m \in Messages /\ m.caller = c
<1>1. Kept(c) \in Seq(Own(c)) /\ Queued(c) \in Seq(Own(c))
  BY Listed
<1>2. Elements(Listing(c)) = Elements(Kept(c)) \cup Elements(Queued(c))
  BY <1>1, ElementsConcat DEF Listing
<1>3. Elements(Kept(c)) \subseteq Own(c) /\ Elements(Queued(c)) \subseteq Own(c)
  BY <1>1 DEF Elements
<1>4. Elements(Kept(c)) \subseteq Elements(Pipeline)
  <2>1. Pipeline \in Seq(Messages)
    BY PipelineTypes
  <2>2. Elements(Within(Pipeline, Own(c))) = Elements(Pipeline) \cap Own(c)
    BY <2>1, WithinKeeps
  <2> QED
    BY <2>2 DEF Kept
<1>5. \A m \in Own(c) : m \in Messages /\ m.caller = c
  BY DEF Own
<1> QED
  BY <1>2, <1>3, <1>4, <1>5 DEF AtWork

\* Steps of the owner and of the network that lose nothing: the callers see none.
LEMMA Unseen ==
  ASSUME Types, Types', Pipeline' = Pipeline,
         UNCHANGED <<made, call, request, answer, store, result>>
  PROVE  UNCHANGED Promise!vars
<1>1. ASSUME NEW c \in Callers PROVE Backlog(c)' = Backlog(c) /\ Progress(c)' = Progress(c)
  <2>1. Listing(c)' = Listing(c)
    BY DEF Listing, Kept, Queued, Message, Own
  <2>2. \A m : Item(m)' = Item(m)
    BY DEF Item, Calling
  <2> QED
    BY <2>1, <2>2, BacklogKeeps DEF Progress
<1> QED
  BY <1>1 DEF Promise!vars

\* The message goes from the line to the queue: the backlog stays.
LEMMA SendUnseen ==
  ASSUME Types, Types', NEW c \in Callers, Send(c)
  PROVE  UNCHANGED Promise!vars
<1> USE DEF callers, channel, owner, server
<1>1. /\ call \in [Callers -> {"idle", "sending", "waiting", "gone"}]
      /\ UNCHANGED <<made, request, answer, store, result>>
      /\ call[c] = "sending" /\ call' = [call EXCEPT ![c] = "waiting"]
  BY DEF Send, Types, TypeOK
<1>2. Message(c) \in Messages /\ Pipeline' = Pipeline \o <<Message(c)>> /\ Pipeline \in Seq(Messages)
  BY PipelineGrows, PipelineTypes
<1>3. ASSUME NEW d \in Callers PROVE Listing(d)' = Listing(d)
  <2> DEFINE x == <<Message(c)>>
             k == Kept(d)
             S == Own(d)
  <2>1. x \in Seq(Messages)
    BY <1>2
  <2>2. Kept(d)' = Within(Pipeline \o x, S) /\ k = Within(Pipeline, S)
    BY <1>2 DEF Kept, Own
  <2>3. Within(x, S) = IF d = c THEN x ELSE <<>>
    <3>1. Message(c) \in S <=> d = c
      BY <1>2 DEF Own, Message
    <3> HIDE DEF S
    <3> QED
      BY <3>1, WithinSingle
  <2>4. k \in Seq(Messages) /\ Queued(d) = IF call[d] = "sending" THEN <<Message(d)>> ELSE <<>>
    BY BacklogIs DEF Queued, BacklogListed
  <2>5. Queued(d)' = IF call'[d] = "sending" THEN <<Message(d)>> ELSE <<>>
    BY <1>1 DEF Queued, Message
  <2> HIDE DEF k, x, S
  <2>6. Within(Pipeline \o x, S) = Within(Pipeline, S) \o Within(x, S)
    BY <1>2, <2>1, WithinConcat
  <2>7. CASE d = c
    <3>1. Queued(d) = x /\ Queued(d)' = <<>>
      BY <1>1, <2>4, <2>5, <2>7 DEF x
    <3>2. Listing(d) = k \o x
      BY <3>1 DEF Listing, k
    <3>3. Listing(d)' = (k \o x) \o <<>>
      BY <2>2, <2>3, <2>6, <2>7, <3>1 DEF Listing
    <3>4. k \o x \in Seq(Messages)
      BY <2>1, <2>4
    <3> QED
      BY <3>2, <3>3, <3>4, ConcatEmptySeq
  <2>8. CASE d # c
    <3>1. Queued(d)' = Queued(d)
      BY <1>1, <2>4, <2>5, <2>8
    <3>2. k \o <<>> = k
      BY <2>4
    <3>3. Kept(d)' = k
      BY <2>2, <2>3, <2>6, <2>8, <3>2
    <3> QED
      BY <3>1, <3>3 DEF Listing, k
  <2> QED
    BY <2>7, <2>8
<1>4. ASSUME NEW m \in Messages PROVE Item(m)' = Item(m)
  <2>1. m.caller \in Callers
    BY DEF Messages
  <2>2. Calling(m)' = Calling(m)
    BY <1>1, <2>1 DEF Calling
  <2> QED
    BY <2>2 DEF Item
<1>5. ASSUME NEW d \in Callers PROVE Backlog(d)' = Backlog(d) /\ Progress(d)' = Progress(d)
  <2>1. Backlog(d)' = Backlog(d)
    BY <1>3, <1>4, ListingOwn, BacklogKeeps
  <2> QED
    BY <1>1, <2>1 DEF Progress
<1> QED
  BY <1>1, <1>5 DEF Promise!vars

\* A caller's own step leaves the pipeline, and so what of a backlog is in it.
LEMMA KeptStays ==
  ASSUME Types, NEW c \in Callers, Call(c) \/ Return(c) \/ Abandon(c) \/ DropHandle(c)
  PROVE  \A d \in Callers : Kept(d)' = Kept(d)
<1>1. Pipeline' = Pipeline
  BY PipelineStays
<1> QED
  BY <1>1 DEF Kept, Own

\* The backlogs of the others stay.
LEMMA OthersKeep ==
  ASSUME Types, Types', NEW d \in Callers, Kept(d)' = Kept(d),
         made'[d] = made[d], request'[d] = request[d], result'[d] = result[d],
         \/ call'[d] = call[d]
         \/ call[d] \in {"idle", "gone"} /\ call'[d] \in {"idle", "gone"}
  PROVE  Backlog(d)' = Backlog(d) /\ Progress(d)' = Progress(d)
<1>1. Listing(d)' = Listing(d)
  BY DEF Listing, Queued, Message
<1>2. \A m \in Elements(Listing(d)) : Item(m)' = Item(m)
  <2> SUFFICES ASSUME NEW m \in Elements(Listing(d)) PROVE Item(m)' = Item(m)
    OBVIOUS
  <2>1. m.caller = d
    BY ListingOwn
  <2>2. Calling(m)' = Calling(m)
    BY <2>1 DEF Calling
  <2> QED
    BY <2>2 DEF Item
<1>3. Backlog(d)' = Backlog(d)
  BY <1>1, <1>2, BacklogKeeps
<1> QED
  BY <1>3 DEF Progress

\* DropHandle: a caller that does not call.
LEMMA DropUnseen ==
  ASSUME Types, Types', NEW c \in Callers, DropHandle(c)
  PROVE  UNCHANGED Promise!vars
<1> USE DEF callers, channel, owner, server
<1>1. /\ call[c] = "idle" /\ call' = [call EXCEPT ![c] = "gone"]
      /\ UNCHANGED <<made, request, answer, store, result>>
      /\ call \in [Callers -> {"idle", "sending", "waiting", "gone"}]
  BY DEF DropHandle, Types, TypeOK
<1>2. \A d \in Callers : Kept(d)' = Kept(d)
  BY KeptStays
<1>3. \A d \in Callers : \/ call'[d] = call[d]
                         \/ call[d] \in {"idle", "gone"} /\ call'[d] \in {"idle", "gone"}
  BY <1>1
<1>4. ASSUME NEW d \in Callers PROVE Backlog(d)' = Backlog(d) /\ Progress(d)' = Progress(d)
  BY <1>1, <1>2, <1>3, OthersKeep
<1> QED
  BY <1>1, <1>4 DEF Promise!vars

\* Call: one more command in the backlog, and its caller waits.
LEMMA CallCalls ==
  ASSUME Types, Types', Journey, NEW c \in Callers, Call(c)
  PROVE  Promise!Call(c)
<1> USE DEF callers, channel, owner, server
<1>1. PICK cmd \in Commands : request' = [request EXCEPT ![c] = cmd]
  BY DEF Call
<1>2. /\ call[c] = "idle" /\ call' = [call EXCEPT ![c] = "sending"]
      /\ made' = [made EXCEPT ![c] = @ + 1] /\ result' = [result EXCEPT ![c] = Nothing]
      /\ UNCHANGED <<answer, store>>
      /\ call \in [Callers -> {"idle", "sending", "waiting", "gone"}]
      /\ made \in [Callers -> Nat] /\ request \in [Callers -> Commands \cup {None}]
      /\ DOMAIN result = Callers
  BY BufferedClientAssumption DEF Call, Types, TypeOK, Journey, Delivered
<1>3. \A d \in Callers : Kept(d)' = Kept(d)
  BY KeptStays
<1>4. ASSUME NEW d \in Callers, d # c PROVE Backlog(d)' = Backlog(d) /\ Progress(d)' = Progress(d)
  <2>1. made'[d] = made[d] /\ request'[d] = request[d] /\ result'[d] = result[d] /\ call'[d] = call[d]
    BY <1>1, <1>2, <1>4
  <2> QED
    BY <1>3, <2>1, OthersKeep
<1>5. PICK x \in Messages : x = Message(c)' /\ x.cmd = cmd /\ x.caller = c /\ x.n = made'[c]
  <2> DEFINE y == Message(c)'
  <2>1. y = [caller |-> c, n |-> made'[c], cmd |-> request'[c]]
    BY DEF Message
  <2>2. request'[c] = cmd /\ made'[c] = made[c] + 1 /\ made'[c] \in 0 .. MaxCalls
    BY <1>1, <1>2 DEF Types, TypeOK
  <2>3. made'[c] \in 1 .. MaxCalls
    BY <1>2, <2>2
  <2>4. y \in Messages /\ y.cmd = cmd /\ y.caller = c /\ y.n = made'[c]
    BY <2>1, <2>2, <2>3 DEF Messages
  <2> QED
    BY <2>4
<1> DEFINE k == Kept(c)
           item == [cmd |-> cmd, live |-> TRUE]
<1>6. Backlog(c)' = Append(Backlog(c), item)
  <2>1. /\ k \in Seq(Messages) /\ Queued(c) = <<>> /\ k \o <<>> = k
        /\ Listing(c)' = k \o <<x>> /\ Listing(c) = k
    <3>1. k \in Seq(Messages)
      BY BacklogIs DEF BacklogListed
    <3>2. k \o <<>> = k
      BY <3>1
    <3>3. Queued(c) = <<>> /\ Queued(c)' = <<x>>
      BY <1>2, <1>5 DEF Queued
    <3> QED
      BY <1>3, <3>1, <3>2, <3>3 DEF Listing
  <2>3. \A m \in Elements(k) : Item(m)' = Item(m)
    <3> SUFFICES ASSUME NEW m \in Elements(k) PROVE Item(m)' = Item(m)
      OBVIOUS
    <3>1. m \in AtWork /\ m \in Messages /\ m.caller = c
      BY ListingOwn
    <3>2. m.n <= made[c] /\ m.n \in Nat /\ made[c] \in Nat /\ made'[c] = made[c] + 1
      BY <1>2, <3>1, BufferedClientAssumption DEF Journey, Numbered, Messages
    <3>3. made'[c] # m.n
      BY <3>2
    <3>4. Calling(m) = FALSE /\ Calling(m)' = FALSE
      BY <1>2, <3>1, <3>3 DEF Calling
    <3> QED
      BY <3>4 DEF Item
  <2>4. Item(x)' = item
    <3>1. call'[c] = "sending"
      BY <1>2
    <3>2. Calling(x)' = TRUE
      BY <1>5, <3>1 DEF Calling
    <3> QED
      BY <1>5, <3>2 DEF Item
  <2> HIDE DEF k, item
  <2>5. Map(ItemOf', k) = Map(ItemOf, k)
    BY <2>1, <2>3, SameItems
  <2>6. Backlog(c) = Map(ItemOf, k) /\ Backlog(c)' = Map(ItemOf', k \o <<x>>)
    <3>1. Backlog(c) = Map(ItemOf, Listing(c))
      BY BacklogIs DEF BacklogListed
    <3>2. Backlog(c)' = Map(ItemOf', Listing(c)')
      BY BacklogNext
    <3> QED
      BY <2>1, <3>1, <3>2
  <2>7. ItemOf'[x] = item /\ <<x>> \in Seq(Messages)
    BY <1>5, <2>4 DEF ItemOf
  <2>8. ItemOf \in [Messages -> Items] /\ ItemOf' \in [Messages -> Items]
    <3>1. (ItemOf \in [Messages -> Items])'
      BY ItemTypes, PTL
    <3> QED
      BY <3>1, ItemTypes DEF Items
  <2>9. PICK f \in [Messages -> Items] : f = ItemOf'
    BY <2>8
  <2> DEFINE s == <<x>>
  <2>10. Map(f, s) = <<item>> /\ s \in Seq(Messages)
    <3>1. Map(f, s) = <<f[x]>>
      BY MapSingle
    <3> QED
      BY <2>7, <2>9, <3>1
  <2> HIDE DEF s
  <2>11. Map(f, k \o s) = Map(f, k) \o Map(f, s) /\ Map(f, k) \in Seq(Items)
    <3>1. k \in Seq(Messages) /\ s \in Seq(Messages)
      BY <2>1, <2>10
    <3>2. Map(f, k) \in Seq(Items)
      BY <3>1, MapType
    <3> QED
      BY <3>1, <3>2, MapConcat
  <2>12. Backlog(c)' = Map(f, k) \o <<item>> /\ Backlog(c) = Map(f, k)
    <3>1. Backlog(c)' = Map(f, k \o s)
      BY <2>6, <2>9 DEF s
    <3>2. Backlog(c) = Map(f, k)
      BY <2>5, <2>6, <2>9
    <3> QED
      BY <2>10, <2>11, <3>1, <3>2
  <2>13. ASSUME NEW b \in Seq(Items) PROVE b \o <<item>> = Append(b, item)
    BY AppendIsConcat, <1>5 DEF item, Items
  <2> QED
    BY <2>11, <2>12, <2>13
<1>7. Progress(c) = [tag |-> "idle"] /\ Progress(c)' = [tag |-> "pending"]
  <2>1. call'[c] = "sending" /\ result'[c] = Nothing
    BY <1>2
  <2> QED
    BY <1>2, <2>1 DEF Progress
<1> DEFINE B == [d \in Callers |-> Backlog(d)]
           P == [d \in Callers |-> Progress(d)]
<1>8. B' = [B EXCEPT ![c] = Append(@, item)] /\ P' = [P EXCEPT ![c] = [tag |-> "pending"]]
  BY <1>4, <1>6, <1>7
<1> QED
  BY <1>1, <1>2, <1>7, <1>8 DEF Promise!Call, Promise!Idle, Promise!Pending, Promise!Commands, Commands

-------------------------------------------------------------------------------
(* The end of a call.                                                      *)

\* What CallStore sees of a message nobody waits for.
Resting == [m \in Messages |-> [cmd |-> m.cmd, live |-> FALSE]]

\* Messages nobody waits for, item by item.
LEMMA RestingItems ==
  ASSUME NEW s \in Seq(Messages), \A m \in Elements(s) : ~Calling(m)
  PROVE  Map(ItemOf, s) = Map(Resting, s)
<1>1. ASSUME NEW i \in DOMAIN s PROVE ItemOf[s[i]] = Resting[s[i]]
  <2>1. s[i] \in Messages /\ s[i] \in Elements(s)
    BY DEF Elements
  <2>2. ItemOf[s[i]] = [cmd |-> s[i].cmd, live |-> Calling(s[i])]
    BY <2>1 DEF ItemOf, Item
  <2>3. Calling(s[i]) = FALSE
    BY <2>1 DEF Calling
  <2> QED
    BY <2>1, <2>2, <2>3 DEF Resting
<1> QED
  BY <1>1 DEF Map

\* An item nobody waits for any longer.
LEMMA ItemRests ==
  ASSUME NEW S, NEW x \in S, NEW b \in BOOLEAN, NEW r, r = [cmd |-> x, live |-> b]
  PROVE  [r EXCEPT !.live = FALSE] = [cmd |-> x, live |-> FALSE]
<1> DEFINE R == [cmd : S, live : BOOLEAN]
           q == [r EXCEPT !.live = FALSE]
           z == [cmd |-> x, live |-> FALSE]
<1>1. q \in R /\ q.cmd = x /\ q.live = FALSE
  OBVIOUS
<1>2. z \in R /\ z.cmd = x /\ z.live = FALSE
  OBVIOUS
<1> HIDE DEF q, z
<1>3. ASSUME NEW u \in R, NEW v \in R, u.cmd = v.cmd, u.live = v.live PROVE u = v
  BY <1>3
<1>4. q.live = z.live
  BY <1>1, <1>2
<1>5. q = z
  BY <1>1, <1>2, <1>3, <1>4
<1> QED
  BY <1>5 DEF q, z

\* A call given up: no item of its caller has anybody who waits for it.
LEMMA GivenUp ==
  ASSUME NEW s \in Seq(Messages)
  PROVE  Promise!GiveUp(Map(ItemOf, s)) = Map(Resting, s)
<1> DEFINE items == Map(ItemOf, s)
<1>1. DOMAIN items = DOMAIN s /\ \A i \in DOMAIN s : items[i] = ItemOf[s[i]]
  BY DEF Map
<1> HIDE DEF items
<1>2. ASSUME NEW i \in DOMAIN s
      PROVE  [items[i] EXCEPT !.live = FALSE] = Resting[s[i]]
  <2>1. s[i] \in Messages /\ s[i].cmd \in Commands /\ Calling(s[i]) \in BOOLEAN
    <3>1. PICK m \in Messages : m = s[i]
      OBVIOUS
    <3>2. m.cmd \in Commands
      BY DEF Messages
    <3>3. Calling(m) \in BOOLEAN
      BY DEF Calling
    <3> QED
      BY <3>1, <3>2, <3>3
  <2>2. items[i] = [cmd |-> s[i].cmd, live |-> Calling(s[i])]
    <3>1. ItemOf[s[i]] = [cmd |-> s[i].cmd, live |-> Calling(s[i])]
      BY <2>1 DEF ItemOf, Item
    <3> QED
      BY <1>1, <3>1
  <2>3. Resting[s[i]] = [cmd |-> s[i].cmd, live |-> FALSE]
    BY <2>1 DEF Resting
  <2>4. [items[i] EXCEPT !.live = FALSE] = [cmd |-> s[i].cmd, live |-> FALSE]
    BY <2>1, <2>2, ItemRests
  <2> QED
    BY <2>3, <2>4
<1>3. Promise!GiveUp(items) = [i \in DOMAIN s |-> Resting[s[i]]]
  BY <1>1, <1>2 DEF Promise!GiveUp
<1> QED
  BY <1>3 DEF Map, items

\* The backlog of a caller that does not call.
LEMMA BacklogEnds ==
  ASSUME Types, Types', NEW c \in Callers, call'[c] = "idle", Kept(c)' = Kept(c)
  PROVE  /\ Kept(c) \in Seq(Messages)
         /\ Backlog(c)' = Map(Resting, Kept(c))
<1>1. Kept(c) \in Seq(Messages)
  BY BacklogIs DEF BacklogListed
<1>2. Listing(c)' = Kept(c)
  <2>1. Queued(c)' = <<>>
    BY DEF Queued
  <2>2. Kept(c) \o <<>> = Kept(c)
    BY <1>1
  <2> QED
    BY <2>1, <2>2 DEF Listing
<1>3. Backlog(c)' = Map(ItemOf', Kept(c))
  BY <1>2, BacklogNext
<1>4. PICK s \in Seq(Messages) : s = Kept(c)
  BY <1>1
<1>5. ASSUME NEW i \in DOMAIN s PROVE ItemOf'[s[i]] = Resting[s[i]]
  <2>1. PICK m \in Messages : m = s[i] /\ m.caller = c
    <3>1. s[i] \in Messages /\ s[i] \in Elements(s)
      BY DEF Elements
    <3> QED
      BY <1>4, <3>1, ListingOwn
  <2>2. ItemOf'[m] = [cmd |-> m.cmd, live |-> Calling(m)']
    BY DEF ItemOf, Item
  <2>3. Calling(m)' = FALSE
    BY <2>1 DEF Calling
  <2> QED
    BY <2>1, <2>2, <2>3 DEF Resting
<1>6. Map(ItemOf', s) = Map(Resting, s)
  BY <1>5 DEF Map
<1> QED
  BY <1>1, <1>3, <1>4, <1>6

\* An error, or the future dropped with the message on its way: the call is given up.
LEMMA GivesUp ==
  ASSUME Types, Types', NEW c \in Callers, call[c] = "waiting",
         call' = [call EXCEPT ![c] = "idle"], Return(c) \/ Abandon(c)
  PROVE  /\ Progress(c) # Promise!Idle
         /\ [d \in Callers |-> Progress(d)]' =
              [[d \in Callers |-> Progress(d)] EXCEPT ![c] = Promise!Idle]
         /\ [d \in Callers |-> Backlog(d)]' =
              [[d \in Callers |-> Backlog(d)] EXCEPT ![c] = Promise!GiveUp(@)]
<1> USE DEF callers, channel, owner, server
<1>1. /\ UNCHANGED <<made, request, result>>
      /\ call \in [Callers -> {"idle", "sending", "waiting", "gone"}]
  BY DEF Return, Abandon, Types, TypeOK
<1>2. \A d \in Callers : Kept(d)' = Kept(d)
  BY KeptStays
<1>3. ASSUME NEW d \in Callers, d # c PROVE Backlog(d)' = Backlog(d) /\ Progress(d)' = Progress(d)
  <2>1. call'[d] = call[d]
    BY <1>1, <1>3
  <2> QED
    BY <1>1, <1>2, <2>1, OthersKeep
<1>4. Backlog(c)' = Promise!GiveUp(Backlog(c))
  <2>1. Kept(c) \in Seq(Messages) /\ Backlog(c)' = Map(Resting, Kept(c))
    <3>1. call'[c] = "idle"
      BY <1>1
    <3> QED
      BY <1>2, <3>1, BacklogEnds
  <2>2. Listing(c) = Kept(c) \o <<>>
    BY DEF Listing, Queued
  <2>3. Kept(c) \o <<>> = Kept(c)
    BY <2>1
  <2>4. Backlog(c) = Map(ItemOf, Kept(c))
    BY <2>2, <2>3, BacklogIs DEF BacklogListed
  <2> QED
    BY <2>1, <2>4, GivenUp
<1>5. Progress(c)' = Promise!Idle
  BY <1>1 DEF Progress, Promise!Idle
<1>6. Progress(c) # Promise!Idle
  <2>1. Progress(c).tag \in {"pending", "done"}
    BY DEF Progress
  <2> QED
    BY <2>1 DEF Promise!Idle
<1> QED
  BY <1>3, <1>4, <1>5, <1>6

\* Return: the answer the server gave, or an error.
LEMMA ReturnReturns ==
  ASSUME Types, Types', Journey, NEW c \in Callers, Return(c)
  PROVE  Promise!Return(c) \/ Promise!Fail(c)
<1> USE DEF callers, channel, owner, server
<1>1. /\ call[c] = "waiting" /\ oneshot[c] # Nothing
      /\ call' = [call EXCEPT ![c] = "idle"]
      /\ answer' = [answer EXCEPT ![c] = oneshot[c]]
      /\ UNCHANGED <<made, request, result, store>>
      /\ call \in [Callers -> {"idle", "sending", "waiting", "gone"}]
  BY DEF Return, Types, TypeOK
<1>2. CASE oneshot[c] = Failed
  <2>1. answer' = [answer EXCEPT ![c] = Promise!Failed]
    BY <1>1, <1>2 DEF Failed, Promise!Failed
  <2> QED
    BY <1>1, <2>1, GivesUp DEF Promise!Fail
<1>3. CASE oneshot[c] # Failed
  <2>1. PICK v : result[c] = Value(v) /\ oneshot[c] = Value(v)
    BY <1>1, <1>3 DEF Journey, Delivered
  <2>2. Value(v) # Nothing /\ Value(v).value = v
    BY DEF Value, Nothing
  <2>3. \A d \in Callers : Kept(d)' = Kept(d)
    BY KeptStays
  <2>4. ASSUME NEW d \in Callers, d # c PROVE Backlog(d)' = Backlog(d) /\ Progress(d)' = Progress(d)
    <3>1. call'[d] = call[d]
      BY <1>1, <2>4
    <3> QED
      BY <1>1, <2>3, <3>1, OthersKeep
  <2>5. Backlog(c)' = Backlog(c)
    <3>1. Kept(c) \in Seq(Messages) /\ Backlog(c)' = Map(Resting, Kept(c))
      <4>1. call'[c] = "idle"
        BY <1>1
      <4> QED
        BY <2>3, <4>1, BacklogEnds
    <3>2. Listing(c) = Kept(c) \o <<>>
      BY <1>1 DEF Listing, Queued
    <3>3. Kept(c) \o <<>> = Kept(c)
      BY <3>1
    <3>4. Backlog(c) = Map(ItemOf, Kept(c))
      BY <3>2, <3>3, BacklogIs DEF BacklogListed
    <3>5. ASSUME NEW m \in Elements(Kept(c)) PROVE ~Calling(m)
      <4>1. m \in Elements(Pipeline) /\ m.caller = c
        BY ListingOwn
      <4>2. result[c] # Nothing
        BY <2>1, <2>2
      <4>3. ~Awaited(m)
        BY <4>1, <4>2 DEF Journey, Unanswered
      <4> QED
        BY <1>1, <4>1, <4>3 DEF Calling, Awaited
    <3> QED
      BY <3>1, <3>4, <3>5, RestingItems
  <2>6. Progress(c) = [tag |-> "done", value |-> v] /\ Progress(c)' = Promise!Idle
    <3>1. call'[c] = "idle"
      BY <1>1
    <3>2. Progress(c)' = Promise!Idle
      BY <3>1 DEF Progress, Promise!Idle
    <3>3. Progress(c) = [tag |-> "done", value |-> v]
      BY <1>1, <2>1, <2>2 DEF Progress
    <3> QED
      BY <3>2, <3>3
  <2> DEFINE P == [d \in Callers |-> Progress(d)]
             B == [d \in Callers |-> Backlog(d)]
  <2>7. P[c].tag = "done" /\ P[c].value = v
    BY <2>6
  <2>8. P' = [P EXCEPT ![c] = Promise!Idle] /\ B' = B
    BY <2>4, <2>5, <2>6
  <2>9. answer' = [answer EXCEPT ![c] = Promise!Value(v)]
    BY <1>1, <2>1 DEF Value, Promise!Value
  <2> QED
    BY <1>1, <2>7, <2>8, <2>9 DEF Promise!Return
<1> QED
  BY <1>2, <1>3

\* Messages nobody waits for are what CallStore calls dead; what is on its way into
\* the queue is not.
LEMMA RestingDead ==
  ASSUME NEW s \in Seq(Messages)
  PROVE  /\ Map(Resting, s) \in Seq(Items)
         /\ Elements(Map(Resting, s)) \subseteq Promise!Dead
<1>1. \A m \in Messages : Resting[m] \in Promise!Dead /\ Resting[m] \in Items
  <2> SUFFICES ASSUME NEW m \in Messages PROVE Resting[m] \in Promise!Dead /\ Resting[m] \in Items
    OBVIOUS
  <2>1. Resting[m] = [cmd |-> m.cmd, live |-> FALSE]
    BY DEF Resting
  <2>2. m.cmd \in Commands /\ Promise!Commands = Commands
    BY DEF Messages, Commands, Promise!Commands
  <2> QED
    BY <2>1, <2>2 DEF Promise!Dead, Items
<1>2. Map(Resting, s) \in Seq(Items) /\ Map(Resting, s) \in Seq(Promise!Dead)
  BY <1>1, MapType
<1> QED
  BY <1>2 DEF Elements

\* A future dropped in the line: its command, the last of its caller, goes with it.
LEMMA LeavesUnsent ==
  ASSUME Types, Types', Journey, NEW c \in Callers, call[c] = "sending",
         call' = [call EXCEPT ![c] = "idle"], Abandon(c)
  PROVE  Backlog(c)' = Within(Backlog(c), Promise!Dead)
<1> USE DEF callers, channel, owner, server
<1>1. call \in [Callers -> {"idle", "sending", "waiting", "gone"}]
  BY DEF Types, TypeOK
<1>2. Kept(c)' = Kept(c) /\ call'[c] = "idle"
  BY <1>1, KeptStays
<1>3. PICK k \in Seq(Messages) : k = Kept(c) /\ Backlog(c)' = Map(Resting, k)
  BY <1>2, BacklogEnds
<1>4. PICK x \in Messages : x = Message(c) /\ Calling(x)
  BY MessageOfCaller DEF Message, Calling
<1> DEFINE s == <<x>>
           a == Map(Resting, k)
           b == Map(ItemOf, s)
<1>5. Listing(c) = k \o s /\ s \in Seq(Messages)
  BY <1>3, <1>4 DEF Listing, Queued
<1>6. ASSUME NEW m \in Elements(k) PROVE ~Calling(m)
  <2>1. m \in AtWork /\ m \in Messages /\ m.caller = c
    BY <1>3, ListingOwn
  <2>2. m.n < made[c]
    BY <2>1 DEF Journey, Numbered
  <2>3. m.n \in Nat /\ made[c] \in Nat
    BY <2>1, BufferedClientAssumption DEF Messages, Types, TypeOK
  <2>4. made[c] # m.n
    BY <2>2, <2>3
  <2> QED
    BY <2>1, <2>4 DEF Calling
<1>7. Map(ItemOf, k) = a
  BY <1>6, RestingItems
<1>8. b = <<ItemOf[x]>>
  BY MapSingle
<1>9. ItemOf[x] \notin Promise!Dead /\ ItemOf[x] \in Items
  <2>1. ItemOf[x] \in Items
    BY ItemTypes
  <2>2. ItemOf[x] = [cmd |-> x.cmd, live |-> Calling(x)]
    BY DEF ItemOf, Item
  <2>3. Calling(x) = TRUE
    BY <1>4 DEF Calling
  <2>4. ItemOf[x].live = TRUE
    BY <2>2, <2>3
  <2>5. \A i \in Promise!Dead : i.live = FALSE
    BY DEF Promise!Dead
  <2> QED
    BY <2>1, <2>4, <2>5
<1>10. a \in Seq(Items) /\ Elements(a) \subseteq Promise!Dead
  BY RestingDead
<1> HIDE DEF a, s
<1>11. b \in Seq(Items)
  <2>1. ItemOf \in [Messages -> Items]
    BY ItemTypes
  <2> QED
    BY <1>5, <2>1, MapType
<1>12. Backlog(c) = a \o b
  <2>1. Backlog(c) = Map(ItemOf, Listing(c))
    BY BacklogIs DEF BacklogListed
  <2>2. Map(ItemOf, k \o s) = Map(ItemOf, k) \o Map(ItemOf, s)
    BY <1>5, MapConcat
  <2> QED
    BY <1>5, <1>7, <2>1, <2>2
<1> HIDE DEF b
<1>13. Within(a \o b, Promise!Dead) = Within(a, Promise!Dead) \o Within(b, Promise!Dead)
  BY <1>10, <1>11, WithinConcat
<1>14. Within(a, Promise!Dead) = a
  BY <1>10, WithinAll
<1>15. Within(b, Promise!Dead) = <<>>
  BY <1>8, <1>9, WithinSingle
<1>16. a \o <<>> = a
  BY <1>10
<1> QED
  BY <1>3, <1>12, <1>13, <1>14, <1>15, <1>16 DEF a

\* Abandon: the call is given up, or goes with its command.
LEMMA AbandonAbandons ==
  ASSUME Types, Types', Journey, NEW c \in Callers, Abandon(c)
  PROVE  Promise!Abandon(c)
<1> USE DEF callers, channel, owner, server
<1>1. /\ call[c] \in {"sending", "waiting"}
      /\ call' = [call EXCEPT ![c] = "idle"]
      /\ UNCHANGED <<made, request, answer, result, store>>
      /\ call \in [Callers -> {"idle", "sending", "waiting", "gone"}]
  BY DEF Abandon, Types, TypeOK
<1>2. CASE call[c] = "waiting"
  BY <1>1, <1>2, GivesUp DEF Promise!Abandon
<1>3. CASE call[c] = "sending"
  <2>1. \A d \in Callers : Kept(d)' = Kept(d)
    BY KeptStays
  <2>2. ASSUME NEW d \in Callers, d # c PROVE Backlog(d)' = Backlog(d) /\ Progress(d)' = Progress(d)
    <3>1. call'[d] = call[d]
      BY <1>1, <2>2
    <3> QED
      BY <1>1, <2>1, <3>1, OthersKeep
  <2>3. Backlog(c)' = Within(Backlog(c), Promise!Dead)
    BY <1>1, <1>3, LeavesUnsent
  <2>4. Progress(c)' = Promise!Idle
    <3>1. call'[c] = "idle"
      BY <1>1
    <3> QED
      BY <3>1 DEF Progress, Promise!Idle
  <2>5. Progress(c) # Promise!Idle
    <3>1. Progress(c).tag \in {"pending", "done"}
      BY <1>3 DEF Progress
    <3> QED
      BY <3>1 DEF Promise!Idle
  <2> DEFINE P == [d \in Callers |-> Progress(d)]
             B == [d \in Callers |-> Backlog(d)]
  <2>6. /\ P[c] # Promise!Idle /\ P' = [P EXCEPT ![c] = Promise!Idle]
        /\ B' = [B EXCEPT ![c] = Within(@, Promise!Dead)]
    BY <2>2, <2>3, <2>4, <2>5
  <2>7. UNCHANGED <<store, answer>>
    BY <1>1
  <2> HIDE DEF P, B
  <2>8. P[c] # Promise!Idle /\ P' = [P EXCEPT ![c] = Promise!Idle]
        /\ (B' = [B EXCEPT ![c] = Promise!GiveUp(@)] \/ B' = [B EXCEPT ![c] = Within(@, Promise!Dead)])
        /\ UNCHANGED <<store, answer>>
    BY <2>6, <2>7
  <2>9. Promise!Within(Backlog(c), Promise!Dead) = Within(Backlog(c), Promise!Dead)
    BY DEF Promise!Within, Within
  <2> QED
    BY <2>8, <2>9 DEF Promise!Abandon, P, B
<1> QED
  BY <1>1, <1>2, <1>3

-------------------------------------------------------------------------------
(* The steps of the server and of the network.                             *)

\* The items of a list with x in it.
LEMMA MapBetween ==
  ASSUME NEW u \in Seq(Messages), NEW v \in Seq(Messages), NEW x \in Messages
  PROVE  /\ Map(ItemOf, u) \in Seq(Items) /\ Map(ItemOf, v) \in Seq(Items) /\ ItemOf[x] \in Items
         /\ Map(ItemOf, Between(u, x, v)) = Between(Map(ItemOf, u), ItemOf[x], Map(ItemOf, v))
         /\ Map(ItemOf, u \o v) = Map(ItemOf, u) \o Map(ItemOf, v)
<1> DEFINE s == <<x>>
           t == s \o v
<1>1. s \in Seq(Messages) /\ t \in Seq(Messages)
  OBVIOUS
<1>2. /\ Map(ItemOf, u) \in Seq(Items) /\ Map(ItemOf, v) \in Seq(Items) /\ ItemOf[x] \in Items
  <2>1. ItemOf \in [Messages -> Items]
    BY ItemTypes
  <2> QED
    BY <2>1, MapType
<1>3. Map(ItemOf, s) = <<ItemOf[x]>>
  BY MapSingle
<1>4. Between(u, x, v) = u \o t
  BY DEF Between
<1> HIDE DEF s
<1>5. Map(ItemOf, t) = Map(ItemOf, s) \o Map(ItemOf, v)
  BY <1>1, MapConcat, SMTT(30)
<1> HIDE DEF t
<1>6. Map(ItemOf, u \o t) = Map(ItemOf, u) \o Map(ItemOf, t)
  BY <1>1, MapConcat, SMTT(30)
<1>7. Map(ItemOf, u \o v) = Map(ItemOf, u) \o Map(ItemOf, v)
  BY MapConcat, SMTT(30)
<1> QED
  BY <1>2, <1>3, <1>4, <1>5, <1>6, <1>7 DEF Between

\* A step of the pipeline that loses x: the backlogs of the other callers stay, and
\* the one of x's caller has one item less.
LEMMA BacklogLoses ==
  ASSUME Types, Types', NEW x \in Messages, Loses(x),
         UNCHANGED <<made, call, request>>, NEW d \in Callers
  PROVE  /\ d # x.caller => Backlog(d)' = Backlog(d)
         /\ d = x.caller =>
              \E a, b \in Seq(Items) :
                Backlog(d) = Between(a, ItemOf[x], b) /\ Backlog(d)' = a \o b
<1>1. Queued(d)' = Queued(d)
  BY DEF Queued, Message
<1>2. \A m : Item(m)' = Item(m)
  BY DEF Item, Calling
<1>3. CASE d # x.caller
  <2>1. Kept(d)' = Kept(d)
    BY <1>3, KeptLoses
  <2>2. Listing(d)' = Listing(d)
    BY <1>1, <2>1 DEF Listing
  <2> QED
    BY <1>2, <1>3, <2>2, BacklogKeeps
<1>4. CASE d = x.caller
  <2>1. PICK a \in Seq(Messages), k \in Seq(Messages) :
          Kept(d) = Between(a, x, k) /\ Kept(d)' = a \o k
    BY <1>4, KeptLoses
  <2>2. PICK q \in Seq(Messages) : q = Queued(d)
    BY BacklogIs DEF BacklogListed
  <2> DEFINE b == k \o q
             s == <<x>>
             t == s \o k
  <2>3. b \in Seq(Messages) /\ s \in Seq(Messages) /\ t \in Seq(Messages)
    OBVIOUS
  <2>4. Listing(d) = (a \o t) \o q /\ Listing(d)' = (a \o k) \o q
    BY <1>1, <2>1, <2>2 DEF Listing, Between
  <2>5. (a \o k) \o q = a \o b
    BY ConcatAssociative
  <2>6. t \o q = s \o b
    <3> HIDE DEF s
    <3> QED
      BY <2>3, ConcatAssociative
  <2>7. (a \o t) \o q = a \o (t \o q)
    <3> HIDE DEF t
    <3> QED
      BY <2>3, ConcatAssociative
  <2>8. Listing(d) = Between(a, x, b) /\ Listing(d)' = a \o b
    <3> HIDE DEF t, b
    <3> QED
      BY <2>4, <2>5, <2>6, <2>7 DEF Between, s
  <2> HIDE DEF b, s, t
  <2>9. ItemOf' = ItemOf
    BY <1>2 DEF ItemOf, Messages, Commands
  <2>10. Backlog(d) = Map(ItemOf, Between(a, x, b)) /\ Backlog(d)' = Map(ItemOf, a \o b)
    <3>1. Backlog(d) = Map(ItemOf, Listing(d))
      BY BacklogIs DEF BacklogListed
    <3>2. Backlog(d)' = Map(ItemOf', Listing(d)')
      BY BacklogNext
    <3> QED
      BY <2>8, <2>9, <3>1, <3>2
  <2>11. /\ Map(ItemOf, a) \in Seq(Items) /\ Map(ItemOf, b) \in Seq(Items)
         /\ Backlog(d) = Between(Map(ItemOf, a), ItemOf[x], Map(ItemOf, b))
         /\ Backlog(d)' = Map(ItemOf, a) \o Map(ItemOf, b)
    BY <2>3, <2>10, MapBetween
  <2> QED
    BY <1>4, <2>11
<1> QED
  BY <1>3, <1>4

\* A request that the connection loses.
LEMMA LosesOne ==
  ASSUME Types, Types', NEW x \in Messages, Loses(x),
         UNCHANGED <<made, call, request, result, store, answer>>
  PROVE  Promise!Lose(x.caller)
<1> DEFINE c == x.caller
           B == [d \in Callers |-> Backlog(d)]
           P == [d \in Callers |-> Progress(d)]
<1>1. c \in Callers
  BY DEF Messages
<1>2. PICK a \in Seq(Items), b \in Seq(Items) :
        Backlog(c) = Between(a, ItemOf[x], b) /\ Backlog(c)' = a \o b
  BY <1>1, BacklogLoses
<1>3. ItemOf[x] \in Items
  BY ItemTypes
<1>4. PICK y \in Items : y = ItemOf[x]
  BY <1>3
<1>5. PICK n \in 1 .. Len(Between(a, y, b)) : RemoveAt(Between(a, y, b), n) = a \o b
  BY RemoveBetween, Zenon
<1>6. n \in DOMAIN Between(a, y, b)
  BY BetweenType
<1>7. n \in DOMAIN Backlog(c) /\ Backlog(c)' = Promise!RemoveAt(Backlog(c), n)
  <2>1. Promise!RemoveAt(Backlog(c), n) = RemoveAt(Backlog(c), n)
    BY DEF Promise!RemoveAt, RemoveAt
  <2> QED
    BY <1>2, <1>4, <1>5, <1>6, <2>1
<1>8. \A d \in Callers : d # c => Backlog(d)' = Backlog(d)
  BY BacklogLoses
<1>9. \A d \in Callers : Progress(d)' = Progress(d)
  BY DEF Progress
<1>10. P' = P /\ B' = [B EXCEPT ![c] = Promise!RemoveAt(@, n)] /\ B[c] = Backlog(c)
  BY <1>1, <1>7, <1>8, <1>9
<1> QED
  BY <1>7, <1>10 DEF Promise!Lose

\* Write on a broken connection: the message is gone, if it was not kept for an error.
LEMMA WriteWrites ==
  ASSUME Types, Types', Write
  PROVE  UNCHANGED Promise!vars \/ \E c \in Callers : Promise!Lose(c)
<1> USE DEF callers, channel, owner, server
<1>1. UNCHANGED <<made, call, request, result, store, answer>>
  BY DEF Write
<1>2. CASE alive
  <2>1. Pipeline' = Pipeline
    BY <1>2, PipelineStays
  <2> QED
    BY <1>1, <2>1, Unseen
<1>3. CASE ~alive
  <2>1. current \in Messages /\ Loses(current)
    BY <1>3, WriteLoses
  <2>2. current.caller \in Callers
    BY <2>1 DEF Messages
  <2> QED
    BY <1>1, <2>1, <2>2, LosesOne
<1> QED
  BY <1>2, <1>3

\* Break: the request on the way is lost or not.
LEMMA BreakBreaks ==
  ASSUME Types, Types', Journey, Break
  PROVE  UNCHANGED Promise!vars \/ \E c \in Callers : Promise!Lose(c)
<1> USE DEF callers, channel, owner, server
<1>1. UNCHANGED <<made, call, request, result, store, answer>>
  BY DEF Break
<1>2. CASE Pipeline' = Pipeline
  BY <1>1, <1>2, Unseen
<1>3. CASE Head(outbound) \in Messages /\ Loses(Head(outbound))
  <2>1. PICK x \in Messages : x = Head(outbound) /\ Loses(x)
    BY <1>3
  <2>2. x.caller \in Callers
    BY DEF Messages
  <2> QED
    BY <1>1, <2>1, <2>2, LosesOne
<1>4. Len(outbound) <= 1
  BY OneOnTheWay
<1> QED
  BY <1>2, <1>3, <1>4, BreakLoses

\* Serve: the oldest request takes effect, and its caller, if it still waits, has
\* the answer of this moment.
LEMMA ServeApplies ==
  ASSUME Types, Types', Journey, Serve
  PROVE  \E c \in Callers : Promise!Apply(c)
<1> USE DEF callers, channel, owner, server
<1>1. PICK m \in Messages : /\ m = Head(outbound) /\ m \in Elements(outbound)
                            /\ Pipeline = <<m>> \o Pipeline' /\ Loses(m)
  <2>1. outbound \in Seq(Messages) /\ outbound # <<>>
    BY DEF Types, TypeOK, Serve
  <2>2. Head(outbound) = outbound[1] /\ 1 \in DOMAIN outbound
    BY <2>1
  <2> QED
    BY <2>2, ServeLoses DEF Elements
<1> DEFINE c == m.caller
<1>2. PICK s \in Seq(Messages) : s = <<m>>
  <2>1. <<m>> \in Seq(Messages)
    OBVIOUS
  <2> QED
    BY <2>1
<1>3. c \in Callers /\ m.cmd \in Commands
  BY DEF Messages
<1>4. /\ UNCHANGED <<made, call, request, answer>>
      /\ store' = IF m.cmd.op = "set" THEN [store EXCEPT ![m.cmd.key] = m.cmd.value] ELSE store
      /\ result' = IF Awaited(m) THEN [result EXCEPT ![c] = Value(Served(m))] ELSE result
      /\ DOMAIN result = Callers
  BY <1>1 DEF Serve, Journey, Delivered
<1>5. m \in Elements(Pipeline)
  <2>1. PICK p \in Seq(Messages) : p = Pipeline'
    BY <1>1, ServeLoses
  <2>2. (<<m>> \o p)[1] = m /\ 1 \in DOMAIN (<<m>> \o p)
    OBVIOUS
  <2> QED
    BY <1>1, <2>1, <2>2 DEF Elements
<1>6. Calling(m) <=> Awaited(m)
  <2>1. call[c] = "sending" => m.n < made[c]
    BY <1>5 DEF Journey, Numbered, AtWork
  <2>2. m.n \in Nat /\ made[c] \in Nat
    BY <1>3, BufferedClientAssumption DEF Messages, Types, TypeOK
  <2>3. call[c] = "sending" => made[c] # m.n
    BY <2>1, <2>2
  <2> QED
    BY <2>3 DEF Calling, Awaited
<1> DEFINE item == ItemOf[m]
<1>7. item.cmd = m.cmd /\ (item.live <=> Awaited(m)) /\ item \in Items
  <2>1. item = [cmd |-> m.cmd, live |-> Calling(m)]
    BY DEF ItemOf, Item
  <2>2. item.cmd = m.cmd /\ item.live = Calling(m)
    BY <2>1
  <2> QED
    BY <1>6, <2>2, ItemTypes
<1>8. Backlog(c) # <<>> /\ Head(Backlog(c)) = item /\ Backlog(c)' = Tail(Backlog(c))
  <2>1. Listing(c) = <<m>> \o Listing(c)' /\ Listing(c)' \in Seq(Messages)
    <3>1. Kept(c) = <<m>> \o Kept(c)'
      <4>1. PICK p \in Seq(Messages) : p = Pipeline'
        BY <1>1, ServeLoses
      <4>3. Within(s \o p, Own(c)) = Within(s, Own(c)) \o Within(p, Own(c))
        BY WithinConcat
      <4>4. Within(s, Own(c)) = s
        <5>1. m \in Own(c)
          BY DEF Own
        <5> QED
          BY <1>2, <5>1, WithinSingle
      <4>5. Kept(c)' = Within(p, Own(c))
        BY <4>1 DEF Kept, Own
      <4>6. Kept(c) = Within(s \o p, Own(c))
        BY <1>1, <1>2, <4>1 DEF Kept
      <4> QED
        BY <1>2, <4>3, <4>4, <4>5, <4>6
    <3>2. Queued(c)' = Queued(c)
      BY <1>4 DEF Queued, Message
    <3>3. /\ Listing(c)' \in Seq(Messages) /\ Kept(c)' \in Seq(Messages)
          /\ Queued(c)' \in Seq(Messages)
      BY <1>3, BacklogNext
    <3>4. \A f, g, h \in Seq(Messages) : (f \o g) \o h = f \o (g \o h)
      BY ConcatAssociative
    <3>5. (s \o Kept(c)') \o Queued(c)' = s \o (Kept(c)' \o Queued(c)')
      BY <3>3, <3>4, Zenon
    <3> QED
      BY <1>2, <3>1, <3>2, <3>3, <3>5 DEF Listing
  <2>2. ItemOf' = ItemOf
    BY <1>4 DEF ItemOf, Item, Calling, Messages, Commands
  <2>3. PICK l \in Seq(Messages) : l = Listing(c)'
    BY <2>1
  <2>5. Backlog(c) = Map(ItemOf, s \o l) /\ Backlog(c)' = Map(ItemOf, l)
    <3>1. Backlog(c) = Map(ItemOf, Listing(c))
      BY <1>3, BacklogIs DEF BacklogListed
    <3>2. Backlog(c)' = Map(ItemOf', Listing(c)')
      BY <1>3, BacklogNext
    <3> QED
      BY <1>2, <2>1, <2>2, <2>3, <3>1, <3>2
  <2>6. Map(ItemOf, s \o l) = Map(ItemOf, s) \o Map(ItemOf, l)
    BY MapConcat
  <2>7. Map(ItemOf, s) = <<item>>
    BY <1>2, MapSingle
  <2>8. PICK b \in Seq(Items) : b = Map(ItemOf, l)
    <3>1. ItemOf \in [Messages -> Items]
      BY ItemTypes
    <3> QED
      BY <3>1, MapType
  <2>9. Backlog(c) = <<item>> \o b /\ Backlog(c)' = b
    BY <2>5, <2>6, <2>7, <2>8
  <2> HIDE DEF item
  <2>10. <<item>> \o b # <<>> /\ Head(<<item>> \o b) = item /\ Tail(<<item>> \o b) = b
    BY <1>7
  <2> QED
    BY <2>9, <2>10
<1>9. \A d \in Callers : d # c => Backlog(d)' = Backlog(d)
  BY <1>1, <1>4, BacklogLoses
<1>10. store' = Promise!Effect(store, item.cmd)
  BY <1>4, <1>7 DEF Promise!Effect
<1>11. CASE Awaited(m)
  <2>1. Served(m) = Promise!Result(store, item.cmd)
    BY <1>7 DEF Served, Promise!Result
  <2>2. Progress(c)' = Promise!Done(Promise!Result(store, item.cmd))
    <3>1. PICK v : v = Served(m)
      OBVIOUS
    <3>2. result'[c] = Value(v) /\ Value(v) # Nothing /\ Value(v).value = v
      BY <1>3, <1>4, <1>11, <3>1 DEF Value, Nothing
    <3>3. call'[c] = "waiting"
      BY <1>4, <1>11 DEF Awaited
    <3> QED
      BY <2>1, <3>1, <3>2, <3>3 DEF Progress, Promise!Done
  <2>3. \A d \in Callers : d # c => Progress(d)' = Progress(d)
    BY <1>4, <1>11 DEF Progress
  <2> DEFINE B == [d \in Callers |-> Backlog(d)]
             P == [d \in Callers |-> Progress(d)]
  <2>4. /\ B[c] = Backlog(c) /\ B' = [B EXCEPT ![c] = Tail(@)]
        /\ P' = [P EXCEPT ![c] = Promise!Done(Promise!Result(store, item.cmd))]
    BY <1>3, <1>8, <1>9, <2>2, <2>3
  <2>5. item.live
    BY <1>7, <1>11
  <2> HIDE DEF item, c
  <2> QED
    BY <1>3, <1>4, <1>8, <1>10, <2>4, <2>5 DEF Promise!Apply
<1>12. CASE ~Awaited(m)
  <2>1. \A d \in Callers : Progress(d)' = Progress(d)
    BY <1>4, <1>12 DEF Progress
  <2> DEFINE B == [d \in Callers |-> Backlog(d)]
             P == [d \in Callers |-> Progress(d)]
  <2>2. B[c] = Backlog(c) /\ B' = [B EXCEPT ![c] = Tail(@)] /\ P' = P
    BY <1>3, <1>8, <1>9, <2>1
  <2>3. ~item.live
    BY <1>7, <1>12
  <2> HIDE DEF item, c
  <2> QED
    BY <1>3, <1>4, <1>8, <1>10, <2>2, <2>3 DEF Promise!Apply
<1> QED
  BY <1>11, <1>12

-------------------------------------------------------------------------------
(* The refinement.                                                         *)

\* At first no caller has a command, and none waits.
LEMMA InitPromises == ASSUME Init PROVE Promise!Init
<1>1. Pipeline \o Line = <<>>
  BY DEF Init, Pipeline, Line
<1>2. ASSUME NEW c \in Callers
      PROVE  Backlog(c) = <<>> /\ Progress(c) = Promise!Idle
  <2>1. Within(<<>>, Own(c)) = <<>>
    <3>1. <<>> \in Seq(Messages) /\ Elements(<<>>) \cap Own(c) = {}
      BY DEF Elements
    <3> QED
      BY <3>1, WithinNone
  <2>2. Backlog(c) = <<>>
    BY <1>1, <2>1 DEF Backlog
  <2> QED
    BY <2>2 DEF Init, Progress, Promise!Idle
<1> QED
  BY <1>2 DEF Init, Promise!Init, Value, Promise!Value

\* Every step is one of CallStore, or changes nothing it knows of.
LEMMA StepPromises ==
  ASSUME Types, Types', Journey, [Next]_vars
  PROVE  [Promise!Next]_(Promise!vars)
<1> USE DEF callers, channel, owner, server
<1>1. ASSUME NEW c \in Callers, Call(c) \/ Send(c) \/ Return(c) \/ Abandon(c) \/ DropHandle(c)
      PROVE  [Promise!Next]_(Promise!vars)
  BY <1>1, CallCalls, SendUnseen, ReturnReturns, AbandonAbandons, DropUnseen DEF Promise!Next
<1>2. CASE Receive \/ ReceiveNone \/ ReadResponse \/ ReadFails \/ Answer \/ UNCHANGED vars
  <2>1. Pipeline' = Pipeline
    BY <1>2, PipelineStays
  <2>2. UNCHANGED <<made, call, request, answer, store, result>>
    BY <1>2 DEF Receive, ReceiveNone, ReadResponse, ReadFails, Answer, vars
  <2> QED
    BY <2>1, <2>2, Unseen
<1>3. CASE Write
  BY <1>3, WriteWrites DEF Promise!Next
<1>4. CASE Serve
  BY <1>4, ServeApplies DEF Promise!Next
<1>5. CASE Break
  BY <1>5, BreakBreaks DEF Promise!Next
<1> QED
  BY <1>1, <1>2, <1>3, <1>4, <1>5 DEF Next

\* buffered_client.rs:30-42, 82-130: the journey of every command, in every state.
THEOREM JourneyCorrect == Spec => []Journey
<1>1. Init => Journey
  BY InitJourney
<1>2. IInv /\ Journey /\ [Next]_vars => Journey'
  BY StepJourney
<1> QED
  BY <1>1, <1>2, Invariance, PTL DEF Spec

\* buffered_client.rs:82-130: to each of the tasks that share it, a BufferedClient is
\* a store for itself: its commands take effect at most once and in its order, and
\* the answer of a call is the one of the moment its command took effect.
THEOREM PromiseKept == Spec => RefinesCallStore
<1>1. Init => Promise!Init
  BY InitPromises
<1>2. IInv /\ IInv' /\ Journey /\ [Next]_vars => [Promise!Next]_(Promise!vars)
  BY StepPromises DEF IInv
<1> QED
  BY <1>1, <1>2, Invariance, JourneyCorrect, PTL DEF Spec, RefinesCallStore, Promise!Spec
===============================================================================
