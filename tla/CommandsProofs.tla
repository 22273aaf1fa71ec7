---------------------------- MODULE CommandsProofs ----------------------------
(***************************************************************************)
(* Theorems about Commands, for any frames another program sends, any keys *)
(* and values a client calls with, and any durations: the server serves    *)
(* the documented formats and no others, and a client gets what it called  *)
(* for.                                                                    *)
(***************************************************************************)
EXTENDS Commands, SequenceTheorems, TLAPS

-------------------------------------------------------------------------------
(* The invariant.                                                          *)

\* The items an array may have.
Parts ==
  Heads \cup Tails \cup {Bulk(data) : data \in Words \cup Keys \cup Values}
    \cup {Integer(n) : n \in 0 .. U64Max}

\* What may be written: the name of an array is never None.
Written ==
  request.type = "Array" =>
    /\ request.items \in Seq(Parts)
    /\ Len(request.items) <= MaxItems
    /\ request.items # <<>> /\ IsText(request.items[1]) => Lower(request.items[1].data) # None

\* A client's call is written as its frame.
Issued == call # None => call \in Calls /\ request = IntoFrame(call)

\* What the server carries out is what it has read, and it replies to that.
Served ==
  stage = "replied" =>
    /\ command \in FromFrame(request)
    /\ command.op # "unsubscribe"
    /\ command.op # "subscribe" => found \in Answers(command) /\ reply = ReplyTo(command, found)

\* It ends a connection when it has read nothing that it could carry out.
Refused == stage = "closed" => \A cmd \in FromFrame(request) : cmd.op = "unsubscribe"

IInv == Written /\ Issued /\ Served /\ Refused

-------------------------------------------------------------------------------
(* The cursor, and the parsers on what follows the name.                   *)

\* What is left behind the first item.
LEMMA Rest ==
  ASSUME NEW V, NEW s \in Seq(V), s # <<>>
  PROVE  /\ Head(s) = s[1] /\ Tail(s) \in Seq(V) /\ Len(s) \in Nat /\ Len(s) >= 1
         /\ Len(Tail(s)) = Len(s) - 1 /\ (Tail(s) = <<>> <=> Len(s) = 1)
         /\ \A i \in 1 .. Len(s) - 1 : Tail(s)[i] = s[i + 1]
<1>1. /\ Head(s) = s[1] /\ Tail(s) \in Seq(V) /\ Len(s) \in Nat /\ Len(s) >= 1
      /\ Len(Tail(s)) = Len(s) - 1
      /\ \A i \in 1 .. Len(s) - 1 : Tail(s)[i] = s[i + 1]
  OBVIOUS
<1>2. ASSUME NEW r \in Seq(V) PROVE r = <<>> <=> Len(r) = 0
  OBVIOUS
<1>3. Tail(s) = <<>> <=> Len(Tail(s)) = 0
  BY <1>1, <1>2
<1>4. Len(Tail(s)) = 0 <=> Len(s) = 1
  BY <1>1
<1> QED
  BY <1>1, <1>3, <1>4

\* next_string() takes the first item if it is a text.
LEMMA StringRead ==
  ASSUME NEW V, NEW s \in Seq(V)
  PROVE  /\ s = <<>> => NextString(s) = EndOfStream
         /\ s # <<>> /\ IsText(s[1]) => NextString(s) = Ok(s[1].data, Tail(s))
         /\ s # <<>> /\ ~IsText(s[1]) => NextString(s) = Other
BY Rest DEF NextString

\* next_bytes() takes it if it has bytes.
LEMMA BytesRead ==
  ASSUME NEW V, NEW s \in Seq(V)
  PROVE  /\ s = <<>> => NextBytes(s) = EndOfStream
         /\ s # <<>> /\ IsBytes(s[1]) => NextBytes(s) = Ok(s[1].data, Tail(s))
         /\ s # <<>> /\ ~IsBytes(s[1]) => NextBytes(s) = Other
BY Rest DEF NextBytes

\* next_int() takes it if it is or begins with a number, and that number.
LEMMA IntRead ==
  ASSUME NEW V, NEW s \in Seq(V)
  PROVE  /\ s = <<>> => NextInt(s) = EndOfStream
         /\ s # <<>> /\ Number(s[1]) # {} =>
              \E n \in Number(s[1]) : NextInt(s) = Ok(n, Tail(s))
         /\ s # <<>> /\ Number(s[1]) = {} => NextInt(s) = Other
<1>1. ASSUME s # <<>>, Number(s[1]) # {}
      PROVE  \E n \in Number(s[1]) : NextInt(s) = Ok(n, Tail(s))
  <2>1. Head(s) = s[1]
    BY <1>1, Rest, ZenonT(20)
  <2> DEFINE n == CHOOSE n \in Number(s[1]) : TRUE
  <2>2. n \in Number(s[1])
    BY <1>1
  <2>3. NextInt(s) = Ok(n, Tail(s))
    BY <1>1, <2>1 DEF NextInt
  <2> QED
    BY <2>2, <2>3
<1> QED
  BY <1>1, Rest DEF NextInt

\* Results of the cursor.
LEMMA Results ==
  ASSUME NEW val, NEW rest
  PROVE  /\ Ok(val, rest).tag = "Ok" /\ Ok(val, rest).val = val /\ Ok(val, rest).rest = rest
         /\ Finish(Ok(val, rest)) = IF rest = <<>> THEN {val} ELSE {}
         /\ EndOfStream.tag = "EndOfStream" /\ Finish(EndOfStream) = {}
         /\ Other.tag = "Other" /\ Finish(Other) = {}
BY DEF Ok, EndOfStream, Other, Finish

\* GET: one text.
LEMMA GetRead ==
  ASSUME NEW V, NEW s \in Seq(V)
  PROVE  Finish(ParseGet(s)) =
           IF Len(s) = 1 /\ IsText(s[1]) THEN {Get(s[1].data)} ELSE {}
<1>1. s = <<>> <=> Len(s) = 0
  OBVIOUS
<1>2. CASE s = <<>>
  <2>1. ParseGet(s) = EndOfStream
    <3>1. NextString(s) = EndOfStream
      BY <1>2, StringRead
    <3> QED
      BY <3>1, Results DEF ParseGet
  <2> QED
    BY <1>1, <1>2, <2>1, Results
<1>3. CASE s # <<>> /\ IsText(s[1])
  <2>1. ParseGet(s) = Ok(Get(s[1].data), Tail(s))
    <3>1. NextString(s) = Ok(s[1].data, Tail(s))
      BY <1>3, StringRead
    <3> QED
      BY <3>1, Results DEF ParseGet
  <2>2. Tail(s) = <<>> <=> Len(s) = 1
    BY <1>3, Rest, ZenonT(20)
  <2>3. Finish(Ok(Get(s[1].data), Tail(s))) = IF Tail(s) = <<>> THEN {Get(s[1].data)} ELSE {}
    BY Results, ZenonT(20)
  <2> QED
    BY <1>3, <2>1, <2>2, <2>3, Zenon
<1>4. CASE s # <<>> /\ ~IsText(s[1])
  <2>1. ParseGet(s) = Other
    <3>1. NextString(s) = Other
      BY <1>4, StringRead
    <3> QED
      BY <3>1, Results DEF ParseGet
  <2> QED
    BY <1>4, <2>1, Results
<1> QED
  BY <1>2, <1>3, <1>4

\* PUBLISH: a text and any data.
LEMMA PublishRead ==
  ASSUME NEW V, NEW s \in Seq(V)
  PROVE  Finish(ParsePublish(s)) =
           IF Len(s) = 2 /\ IsText(s[1]) /\ IsBytes(s[2])
           THEN {Publish(s[1].data, s[2].data)} ELSE {}
<1>1. s = <<>> <=> Len(s) = 0
  OBVIOUS
<1>2. CASE s = <<>>
  <2>1. ParsePublish(s) = EndOfStream
    <3>1. NextString(s) = EndOfStream
      BY <1>2, StringRead
    <3> QED
      BY <3>1, Results DEF ParsePublish
  <2> QED
    BY <1>1, <1>2, <2>1, Results
<1>3. CASE s # <<>> /\ ~IsText(s[1])
  <2>1. NextString(s) = Other
    BY <1>3, StringRead
  <2>2. ParsePublish(s) = Other
    BY <2>1, Results DEF ParsePublish
  <2> QED
    BY <1>3, <2>2, Results
<1>4. CASE s # <<>> /\ IsText(s[1])
  <2> DEFINE t == Tail(s)
  <2>1. NextString(s) = Ok(s[1].data, t)
    BY <1>4, StringRead
  <2>2. /\ t \in Seq(V) /\ Len(s) \in Nat /\ Len(s) >= 1 /\ Len(t) = Len(s) - 1
        /\ (t = <<>> <=> Len(s) = 1) /\ \A i \in 1 .. Len(s) - 1 : t[i] = s[i + 1]
    BY <1>4, Rest, ZenonT(20)
  <2> HIDE DEF t
  <2>3. /\ t \in Seq(V) /\ Len(s) \in Nat /\ Len(t) = Len(s) - 1
        /\ (t # <<>> => t[1] = s[2]) /\ (t = <<>> <=> Len(s) = 1)
    <3>1. t # <<>> => t[1] = s[1 + 1]
      BY <2>2
    <3> QED
      BY <2>2, <3>1
  <2>4. CASE t = <<>>
    <3>1. NextBytes(t) = EndOfStream
      BY <2>4, <2>3, BytesRead
    <3>2. ParsePublish(s) = EndOfStream
      BY <2>1, <3>1, Results DEF ParsePublish
    <3> QED
      BY <2>3, <2>4, <3>2, Results
  <2>5. CASE t # <<>> /\ ~IsBytes(t[1])
    <3>1. NextBytes(t) = Other
      BY <2>5, <2>3, BytesRead
    <3>2. ParsePublish(s) = Other
      BY <2>1, <3>1, Results DEF ParsePublish
    <3> QED
      BY <2>3, <2>5, <3>2, Results
  <2>6. CASE t # <<>> /\ IsBytes(t[1])
    <3> DEFINE cmd == Publish(s[1].data, t[1].data)
    <3>1. NextBytes(t) = Ok(t[1].data, Tail(t))
      BY <2>6, <2>3, BytesRead
    <3>2. ParsePublish(s) = Ok(cmd, Tail(t))
      BY <2>1, <3>1, Results DEF ParsePublish
    <3>3. Len(t) \in Nat /\ (Tail(t) = <<>> <=> Len(t) = 1)
      BY <2>3, <2>6, Rest, ZenonT(20)
    <3>4. Tail(t) = <<>> <=> Len(s) = 2
      BY <2>3, <3>3
    <3>5. cmd = Publish(s[1].data, s[2].data) /\ IsBytes(s[2])
      BY <2>3, <2>6
    <3> HIDE DEF cmd
    <3>6. Finish(Ok(cmd, Tail(t))) = IF Tail(t) = <<>> THEN {cmd} ELSE {}
      BY Results, ZenonT(20)
    <3> QED
      BY <1>4, <3>2, <3>4, <3>5, <3>6, Zenon
  <2> QED
    BY <2>4, <2>5, <2>6
<1> QED
  BY <1>2, <1>3, <1>4

\* SUBSCRIBE: texts, and one at least.
LEMMA SubscribeRead ==
  ASSUME NEW V, NEW s \in Seq(V)
  PROVE  Finish(ParseSubscribe(s)) =
           IF s # <<>> /\ \A i \in DOMAIN s : IsText(s[i]) THEN {Subscribe(Channels(s))} ELSE {}
BY Results DEF ParseSubscribe

\* UNSUBSCRIBE: texts, or nothing.
LEMMA UnsubscribeRead ==
  ASSUME NEW V, NEW s \in Seq(V)
  PROVE  Finish(ParseUnsubscribe(s)) =
           IF \A i \in DOMAIN s : IsText(s[i]) THEN {Unsubscribe(Channels(s))} ELSE {}
BY Results DEF ParseUnsubscribe

\* PING: any data, or nothing.
LEMMA PingRead ==
  ASSUME NEW V, NEW s \in Seq(V)
  PROVE  Finish(ParsePing(s)) =
           IF s = <<>> THEN {Ping(None)}
           ELSE IF Len(s) = 1 /\ IsBytes(s[1]) THEN {Ping(s[1].data)} ELSE {}
<1>1. CASE s = <<>>
  <2>1. NextBytes(s) = EndOfStream
    BY <1>1, BytesRead
  <2>2. ParsePing(s) = Ok(Ping(None), <<>>)
    BY <2>1, Results DEF ParsePing
  <2> QED
    BY <1>1, <2>2, Results
<1>2. CASE s # <<>> /\ ~IsBytes(s[1])
  <2>1. NextBytes(s) = Other
    BY <1>2, BytesRead
  <2>2. ParsePing(s) = Other
    BY <2>1, Results DEF ParsePing
  <2> QED
    BY <1>2, <2>2, Results
<1>3. CASE s # <<>> /\ IsBytes(s[1])
  <2>1. NextBytes(s) = Ok(s[1].data, Tail(s))
    BY <1>3, BytesRead
  <2>2. ParsePing(s) = Ok(Ping(s[1].data), Tail(s))
    BY <2>1, Results DEF ParsePing
  <2>3. Tail(s) = <<>> <=> Len(s) = 1
    BY <1>3, Rest, ZenonT(20)
  <2>4. Finish(Ok(Ping(s[1].data), Tail(s))) = IF Tail(s) = <<>> THEN {Ping(s[1].data)} ELSE {}
    BY Results, ZenonT(20)
  <2> QED
    BY <1>3, <2>2, <2>3, <2>4, Zenon
<1> QED
  BY <1>1, <1>2, <1>3

\* SET: a text and any data, and after them nothing or an option with its number.
LEMMA SetRead ==
  ASSUME NEW V, NEW s \in Seq(V)
  PROVE  LET bare == Len(s) = 2 /\ IsText(s[1]) /\ IsBytes(s[2])
             timed == /\ Len(s) = 4 /\ IsText(s[1]) /\ IsBytes(s[2])
                      /\ IsText(s[3]) /\ Lower(s[3].data) \in DOMAIN Unit
                      /\ Number(s[4]) # {}
         IN  /\ bare => Finish(ParseSet(s)) = {Set(s[1].data, s[2].data, None)}
             /\ timed => \E n \in Number(s[4]) :
                  Finish(ParseSet(s)) =
                    {Set(s[1].data, s[2].data, n * Unit[Lower(s[3].data)])}
             /\ ~bare /\ ~timed => Finish(ParseSet(s)) = {}
<1> DEFINE t == Tail(s)
           u == Tail(t)
           v == Tail(u)
           w == Tail(v)
<1>1. /\ Len(s) \in Nat /\ (s = <<>> <=> Len(s) = 0)
      /\ (s # <<>> => /\ t \in Seq(V) /\ Len(t) = Len(s) - 1
                      /\ \A i \in 1 .. Len(s) - 1 : t[i] = s[i + 1])
  BY Rest
<1>2. s # <<>> => /\ Len(t) \in Nat /\ (t = <<>> <=> Len(s) = 1)
                  /\ (t # <<>> => /\ u \in Seq(V) /\ Len(u) = Len(s) - 2 /\ t[1] = s[2]
                                  /\ \A i \in 1 .. Len(s) - 2 : u[i] = s[i + 2])
  <2>1. ASSUME t \in Seq(V), t # <<>>
        PROVE  /\ u \in Seq(V) /\ Len(u) = Len(t) - 1 /\ Len(t) \in Nat /\ Len(t) >= 1
               /\ \A i \in 1 .. Len(t) - 1 : u[i] = t[i + 1]
    BY <2>1, Rest, ZenonT(20)
  <2> HIDE DEF u
  <2>2. ASSUME s # <<>> PROVE t = <<>> <=> Len(s) = 1
    BY <2>2, Rest, ZenonT(20)
  <2> HIDE DEF t
  <2>3. ASSUME s # <<>>, t # <<>> PROVE t[1] = s[2]
    BY <1>1, <2>2, <2>3
  <2>4. ASSUME s # <<>>, t # <<>>, NEW i \in 1 .. Len(s) - 2 PROVE u[i] = s[i + 2]
    <3>1. u[i] = t[i + 1]
      BY <1>1, <2>1, <2>4
    <3>2. i + 1 \in 1 .. Len(s) - 1 /\ (i + 1) + 1 = i + 2
      BY <1>1, <2>4
    <3> QED
      BY <1>1, <2>4, <3>1, <3>2
  <2>5. ASSUME s # <<>>, t # <<>> PROVE u \in Seq(V) /\ Len(u) = Len(s) - 2
    BY <1>1, <2>1, <2>5
  <2>6. ASSUME s # <<>> PROVE Len(t) \in Nat
    BY <1>1, <2>6
  <2> QED
    BY <2>2, <2>3, <2>4, <2>5, <2>6
<1>3. s # <<>> /\ t # <<>> =>
        /\ Len(u) \in Nat /\ (u = <<>> <=> Len(s) = 2)
        /\ (u # <<>> => /\ v \in Seq(V) /\ Len(v) = Len(s) - 3 /\ u[1] = s[3]
                        /\ (v # <<>> => v[1] = s[4])
                        /\ (v = <<>> <=> Len(s) = 3))
  <2> SUFFICES ASSUME s # <<>>, t # <<>>
               PROVE  /\ Len(u) \in Nat /\ (u = <<>> <=> Len(s) = 2)
                      /\ (u # <<>> => /\ v \in Seq(V) /\ Len(v) = Len(s) - 3 /\ u[1] = s[3]
                                      /\ (v # <<>> => v[1] = s[4])
                                      /\ (v = <<>> <=> Len(s) = 3))
    OBVIOUS
  <2>1. u \in Seq(V) /\ Len(u) = Len(s) - 2 /\ \A i \in 1 .. Len(s) - 2 : u[i] = s[i + 2]
    BY <1>2
  <2> HIDE DEF t, u
  <2>2. Len(u) \in Nat /\ (u = <<>> <=> Len(u) = 0)
    BY <2>1
  <2>3. /\ Len(u) \in Nat /\ (u = <<>> <=> Len(u) = 0)
        /\ (u # <<>> => /\ v \in Seq(V) /\ Len(v) = Len(u) - 1
                        /\ \A i \in 1 .. Len(u) - 1 : v[i] = u[i + 1])
    BY <2>1, <2>2, Rest, ZenonT(20)
  <2>4. ASSUME u # <<>> PROVE v = <<>> <=> Len(u) = 1
    BY <2>1, <2>4, Rest, ZenonT(20)
  <2> HIDE DEF v
  <2>5. u = <<>> <=> Len(s) = 2
    BY <1>1, <2>1, <2>3
  <2>6. ASSUME u # <<>> PROVE u[1] = s[3] /\ Len(v) = Len(s) - 3 /\ (v = <<>> <=> Len(s) = 3)
    BY <1>1, <2>1, <2>3, <2>4, <2>6
  <2>7. ASSUME u # <<>>, v # <<>> PROVE v[1] = s[4]
    <3>1. 1 \in 1 .. Len(u) - 1 /\ 2 \in 1 .. Len(s) - 2
      BY <1>1, <2>1, <2>3, <2>4, <2>7
    <3>2. v[1] = u[1 + 1] /\ u[2] = s[2 + 2]
      BY <2>1, <2>3, <2>7, <3>1
    <3> QED
      BY <3>2
  <2> QED
    BY <2>3, <2>5, <2>6, <2>7
<1>4. ASSUME s # <<>>, t # <<>>, u # <<>>, v # <<>> PROVE w = <<>> <=> Len(s) = 4
  <2>1. v \in Seq(V) /\ Len(v) = Len(s) - 3
    BY <1>3, <1>4
  <2> HIDE DEF v
  <2>2. w = <<>> <=> Len(v) = 1
    BY <2>1, <1>4, Rest, ZenonT(20)
  <2> HIDE DEF w
  <2> QED
    BY <1>1, <2>1, <2>2
<1> DEFINE bare == Len(s) = 2 /\ IsText(s[1]) /\ IsBytes(s[2])
           timed == /\ Len(s) = 4 /\ IsText(s[1]) /\ IsBytes(s[2])
                    /\ IsText(s[3]) /\ Lower(s[3].data) \in DOMAIN Unit
                    /\ Number(s[4]) # {}
           key == NextString(s)
<1>5. /\ s = <<>> => key = EndOfStream
      /\ s # <<>> /\ IsText(s[1]) => key = Ok(s[1].data, t)
      /\ s # <<>> /\ ~IsText(s[1]) => key = Other
  BY StringRead
<1>6. s # <<>> =>
        /\ t = <<>> => NextBytes(t) = EndOfStream
        /\ t # <<>> /\ IsBytes(s[2]) => NextBytes(t) = Ok(s[2].data, u)
        /\ t # <<>> /\ ~IsBytes(s[2]) => NextBytes(t) = Other
  <2>1. s # <<>> => t \in Seq(V)
    BY <1>1
  <2>2. s # <<>> /\ t # <<>> => t[1] = s[2]
    BY <1>2
  <2> HIDE DEF t
  <2>3. s # <<>> =>
        /\ t = <<>> => NextBytes(t) = EndOfStream
        /\ t # <<>> /\ IsBytes(t[1]) => NextBytes(t) = Ok(t[1].data, u)
        /\ t # <<>> /\ ~IsBytes(t[1]) => NextBytes(t) = Other
    BY <2>1, BytesRead
  <2> QED
    BY <2>2, <2>3
<1>7. s # <<>> /\ t # <<>> =>
        /\ u = <<>> => NextString(u) = EndOfStream
        /\ u # <<>> /\ IsText(s[3]) => NextString(u) = Ok(s[3].data, v)
        /\ u # <<>> /\ ~IsText(s[3]) => NextString(u) = Other
  <2>1. s # <<>> /\ t # <<>> => u \in Seq(V)
    BY <1>2
  <2>2. s # <<>> /\ t # <<>> /\ u # <<>> => u[1] = s[3]
    BY <1>3
  <2> HIDE DEF t, u
  <2>3. s # <<>> /\ t # <<>> =>
        /\ u = <<>> => NextString(u) = EndOfStream
        /\ u # <<>> /\ IsText(u[1]) => NextString(u) = Ok(u[1].data, v)
        /\ u # <<>> /\ ~IsText(u[1]) => NextString(u) = Other
    BY <2>1, StringRead
  <2> QED
    BY <2>2, <2>3
<1>8. s # <<>> /\ t # <<>> /\ u # <<>> =>
        /\ v = <<>> => NextInt(v) = EndOfStream
        /\ v # <<>> /\ Number(s[4]) # {} =>
             \E n \in Number(s[4]) : NextInt(v) = Ok(n, w)
        /\ v # <<>> /\ Number(s[4]) = {} => NextInt(v) = Other
  <2>1. s # <<>> /\ t # <<>> /\ u # <<>> => v \in Seq(V) /\ (v # <<>> => v[1] = s[4])
    BY <1>3
  <2> HIDE DEF t, u, v
  <2>2. s # <<>> /\ t # <<>> /\ u # <<>> =>
        /\ v = <<>> => NextInt(v) = EndOfStream
        /\ v # <<>> /\ Number(v[1]) # {} =>
             \E n \in Number(v[1]) : NextInt(v) = Ok(n, w)
        /\ v # <<>> /\ Number(v[1]) = {} => NextInt(v) = Other
    BY <2>1, IntRead
  <2> HIDE DEF w
  <2> QED
    BY <2>1, <2>2
<1>9. /\ s # <<>> => (t = <<>> <=> Len(s) = 1)
      /\ s # <<>> /\ t # <<>> => (u = <<>> <=> Len(s) = 2)
      /\ s # <<>> /\ t # <<>> /\ u # <<>> => (v = <<>> <=> Len(s) = 3)
      /\ s # <<>> /\ t # <<>> /\ u # <<>> /\ v # <<>> => (w = <<>> <=> Len(s) = 4)
  BY <1>2, <1>3, <1>4
<1> HIDE DEF t, u, v, w
<1>10. CASE s = <<>> \/ (s # <<>> /\ ~IsText(s[1]))
  <2>1. Finish(ParseSet(s)) = {}
    BY <1>5, <1>10, Results DEF ParseSet
  <2> QED
    BY <1>1, <1>10, <2>1
<1>11. CASE s # <<>> /\ IsText(s[1]) /\ (t = <<>> \/ (t # <<>> /\ ~IsBytes(s[2])))
  <2>1. key.tag = "Ok" /\ key.rest = t
    BY <1>5, <1>11, Results
  <2>2. NextBytes(t) \in {EndOfStream, Other}
    BY <1>6, <1>11
  <2> HIDE DEF key
  <2>3. ParseSet(s) = NextBytes(t)
    BY <2>1, <2>2, Results DEF ParseSet, key
  <2>4. Finish(ParseSet(s)) = {}
    BY <2>2, <2>3, Results
  <2> QED
    BY <1>1, <1>9, <1>11, <2>4
<1>12. CASE s # <<>> /\ IsText(s[1]) /\ t # <<>> /\ IsBytes(s[2])
  <2> DEFINE value == NextBytes(t)
             option == NextString(u)
             number == NextInt(v)
  <2>1. key.tag = "Ok" /\ key.val = s[1].data /\ key.rest = t
    BY <1>5, <1>12, Results
  <2>2. value.tag = "Ok" /\ value.val = s[2].data /\ value.rest = u
    BY <1>6, <1>12, Results
  <2> HIDE DEF value, option, number, key
  <2>3. CASE u = <<>>
    <3>1. option = EndOfStream
      BY <1>7, <1>12, <2>3 DEF option
    <3>2. ParseSet(s) = Ok(Set(s[1].data, s[2].data, None), <<>>)
      BY <2>1, <2>2, <3>1, Results DEF ParseSet, key, value, option
    <3>3. Finish(ParseSet(s)) = {Set(s[1].data, s[2].data, None)}
      BY <3>2, Results
    <3> QED
      BY <1>9, <1>12, <2>3, <3>3
  <2>4. CASE u # <<>> /\ ~IsText(s[3])
    <3>1. option = Other
      BY <1>7, <1>12, <2>4 DEF option
    <3>2. ParseSet(s) = Other
      BY <2>1, <2>2, <3>1, Results DEF ParseSet, key, value, option
    <3>3. Finish(ParseSet(s)) = {}
      BY <3>2, Results
    <3> QED
      BY <1>9, <1>12, <2>4, <3>3
  <2>5. CASE u # <<>> /\ IsText(s[3])
    <3>1. option.tag = "Ok" /\ option.val = s[3].data /\ option.rest = v
      BY <1>7, <1>12, <2>5, Results DEF option
    <3>2. CASE Lower(s[3].data) \notin DOMAIN Unit
      <4>1. ParseSet(s) = Other
        BY <2>1, <2>2, <3>1, <3>2, Results DEF ParseSet, key, value, option
      <4>2. Finish(ParseSet(s)) = {}
        BY <4>1, Results
      <4> QED
        BY <1>9, <1>12, <2>5, <3>2, <4>2
    <3>3. CASE Lower(s[3].data) \in DOMAIN Unit /\ (v = <<>> \/ (v # <<>> /\ Number(s[4]) = {}))
      <4>1. number \in {EndOfStream, Other}
        BY <1>8, <1>12, <2>5, <3>3 DEF number
      <4>2. ParseSet(s) = number
        BY <2>1, <2>2, <3>1, <3>3, <4>1, Results DEF ParseSet, key, value, option, number
      <4>3. Finish(ParseSet(s)) = {}
        BY <4>1, <4>2, Results
      <4> QED
        BY <1>9, <1>12, <2>5, <3>3, <4>3
    <3>4. CASE Lower(s[3].data) \in DOMAIN Unit /\ v # <<>> /\ Number(s[4]) # {}
      <4>1. PICK n \in Number(s[4]) : number = Ok(n, w)
        BY <1>8, <1>12, <2>5, <3>4 DEF number
      <4> DEFINE cmd == Set(s[1].data, s[2].data, n * Unit[Lower(s[3].data)])
      <4>2. number.tag = "Ok" /\ number.val = n /\ number.rest = w
        BY <4>1, Results
      <4>3. ParseSet(s) = Ok(cmd, w)
        BY <2>1, <2>2, <3>1, <3>4, <4>2, Results DEF ParseSet, key, value, option, number
      <4> HIDE DEF cmd
      <4>4. Finish(Ok(cmd, w)) = IF w = <<>> THEN {cmd} ELSE {}
        BY Results, ZenonT(20)
      <4>5. Finish(ParseSet(s)) = IF Len(s) = 4 THEN {cmd} ELSE {}
        BY <1>9, <1>12, <2>5, <3>4, <4>3, <4>4
      <4>6. ~bare
        BY <1>9, <1>12, <2>5
      <4>7. Len(s) = 4 <=> timed
        BY <1>12, <2>5, <3>4
      <4>8. timed => \E m \in Number(s[4]) :
                  Finish(ParseSet(s)) = {Set(s[1].data, s[2].data, m * Unit[Lower(s[3].data)])}
        BY <4>5, <4>7 DEF cmd
      <4>9. ~timed => Finish(ParseSet(s)) = {}
        BY <4>5, <4>7
      <4> HIDE DEF bare, timed
      <4>10. /\ bare => Finish(ParseSet(s)) = {Set(s[1].data, s[2].data, None)}
             /\ timed => \E m \in Number(s[4]) :
                  Finish(ParseSet(s)) = {Set(s[1].data, s[2].data, m * Unit[Lower(s[3].data)])}
             /\ ~bare /\ ~timed => Finish(ParseSet(s)) = {}
        BY <4>6, <4>8, <4>9
      <4> QED
        BY <4>10 DEF bare, timed
    <3> QED
      BY <3>2, <3>3, <3>4
  <2> QED
    BY <2>3, <2>4, <2>5
<1> QED
  BY <1>10, <1>11, <1>12

-------------------------------------------------------------------------------
(* The formats.                                                            *)

\* What the documented formats ask for.
LEMMA FormatsMatched ==
  ASSUME NEW V, NEW items \in Seq(V)
  PROVE  /\ Matches(items, <<>>) <=> Len(items) = 1
         /\ Matches(items, <<"text">>) <=> Len(items) = 2 /\ IsText(items[2])
         /\ Matches(items, <<"bytes">>) <=> Len(items) = 2 /\ IsBytes(items[2])
         /\ Matches(items, <<"text", "bytes">>) <=>
              Len(items) = 3 /\ IsText(items[2]) /\ IsBytes(items[3])
         /\ Matches(items, <<"text", "bytes", "unit", "number">>) <=>
              /\ Len(items) = 5 /\ IsText(items[2]) /\ IsBytes(items[3])
              /\ IsText(items[4]) /\ Lower(items[4].data) \in {"ex", "px"}
              /\ Number(items[5]) # {}
         /\ \A n \in Nat : Matches(items, Texts(n)) <=>
              Len(items) = n + 1 /\ \A i \in 1 .. n : IsText(items[i + 1])
<1>1. Len(items) \in Nat
  OBVIOUS
<1>2. \A item : /\ Fits(item, "text") = IsText(item)
                /\ Fits(item, "bytes") = IsBytes(item)
                /\ Fits(item, "unit") = (IsText(item) /\ Lower(item.data) \in {"ex", "px"})
                /\ Fits(item, "number") = (Number(item) # {})
  BY DEF Fits
<1>3. Matches(items, <<>>) <=> Len(items) = 1
  BY <1>1 DEF Matches
<1>4. Matches(items, <<"text">>) <=> Len(items) = 2 /\ IsText(items[2])
  BY <1>1, <1>2 DEF Matches
<1>5. Matches(items, <<"bytes">>) <=> Len(items) = 2 /\ IsBytes(items[2])
  BY <1>1, <1>2 DEF Matches
<1>6. Matches(items, <<"text", "bytes">>) <=>
        Len(items) = 3 /\ IsText(items[2]) /\ IsBytes(items[3])
  BY <1>1, <1>2 DEF Matches
<1>7. Matches(items, <<"text", "bytes", "unit", "number">>) <=>
        /\ Len(items) = 5 /\ IsText(items[2]) /\ IsBytes(items[3])
        /\ IsText(items[4]) /\ Lower(items[4].data) \in {"ex", "px"}
        /\ Number(items[5]) # {}
  <2> DEFINE f == <<"text", "bytes", "unit", "number">>
  <2>1. /\ Len(f) = 4 /\ DOMAIN f = 1 .. 4
        /\ f[1] = "text" /\ f[2] = "bytes" /\ f[3] = "unit" /\ f[4] = "number"
    OBVIOUS
  <2> HIDE DEF f
  <2>2. (\A i \in DOMAIN f : Fits(items[i + 1], f[i])) <=>
          /\ Fits(items[1 + 1], f[1]) /\ Fits(items[2 + 1], f[2])
          /\ Fits(items[3 + 1], f[3]) /\ Fits(items[4 + 1], f[4])
    <3>1. ASSUME NEW i \in 1 .. 4 PROVE i \in {1, 2, 3, 4}
      OBVIOUS
    <3>2. {1, 2, 3, 4} \subseteq 1 .. 4
      OBVIOUS
    <3> QED
      BY <2>1, <3>1, <3>2, Zenon
  <2>3. 1 + 1 = 2 /\ 2 + 1 = 3 /\ 3 + 1 = 4 /\ 4 + 1 = 5
    OBVIOUS
  <2>4. 4 = Len(items) - 1 <=> Len(items) = 5
    BY <1>1
  <2>5. /\ Fits(items[2], "text") = IsText(items[2]) /\ Fits(items[3], "bytes") = IsBytes(items[3])
        /\ Fits(items[4], "unit") = (IsText(items[4]) /\ Lower(items[4].data) \in {"ex", "px"})
        /\ Fits(items[5], "number") = (Number(items[5]) # {})
    BY <1>2
  <2>6. Matches(items, f) <=> Len(f) = Len(items) - 1 /\ \A i \in DOMAIN f : Fits(items[i + 1], f[i])
    BY DEF Matches
  <2>7. Matches(items, f) <=> Len(items) = 5 /\ Fits(items[2], "text") /\ Fits(items[3], "bytes")
                              /\ Fits(items[4], "unit") /\ Fits(items[5], "number")
    BY <2>1, <2>2, <2>3, <2>4, <2>6
  <2> QED
    BY <2>5, <2>7 DEF f
<1>8. ASSUME NEW n \in Nat
      PROVE  Matches(items, Texts(n)) <=>
               Len(items) = n + 1 /\ \A i \in 1 .. n : IsText(items[i + 1])
  <2>1. Len(Texts(n)) = n /\ DOMAIN Texts(n) = 1 .. n /\ \A i \in 1 .. n : Texts(n)[i] = "text"
    BY DEF Texts
  <2>2. (\A i \in DOMAIN Texts(n) : Fits(items[i + 1], Texts(n)[i]))
          <=> \A i \in 1 .. n : IsText(items[i + 1])
    <3>1. ASSUME NEW i \in 1 .. n
          PROVE  Fits(items[i + 1], Texts(n)[i]) = IsText(items[i + 1])
      <4>1. Texts(n)[i] = "text"
        BY <2>1
      <4>2. Fits(items[i + 1], "text") = IsText(items[i + 1])
        BY <1>2, Zenon
      <4> QED
        BY <4>1, <4>2
    <3> QED
      BY <2>1, <3>1, Zenon
  <2>3. n = Len(items) - 1 <=> Len(items) = n + 1
    BY <1>1
  <2> QED
    BY <2>1, <2>2, <2>3 DEF Matches
<1> QED
  BY <1>3, <1>4, <1>5, <1>6, <1>7, <1>8

-------------------------------------------------------------------------------
(* What the server reads out of a request.                                 *)

\* An array that begins with no text is no command.
LEMMA Nameless ==
  ASSUME request.type = "Array" => request.items \in Seq(Parts),
         request.type # "Array" \/ request.items = <<>> \/ ~IsText(request.items[1])
  PROVE  FromFrame(request) = {} /\ Name = None
<1>1. Name = None
  BY DEF Name
<1>2. FromFrame(request) = {}
  <2>1. CASE request.type # "Array"
    BY <2>1 DEF FromFrame
  <2>2. CASE request.type = "Array"
    <3>1. NextString(request.items) \in {EndOfStream, Other}
      BY <2>2, StringRead
    <3>2. NextString(request.items).tag # "Ok"
      BY <3>1, Results
    <3> QED
      BY <2>2, <3>2 DEF FromFrame
  <2> QED
    BY <2>1, <2>2
<1> QED
  BY <1>1, <1>2

\* The name decides which parser reads the rest.
LEMMA Named ==
  ASSUME request.type = "Array", request.items \in Seq(Parts),
         request.items # <<>>, IsText(request.items[1])
  PROVE  LET t == Tail(request.items)
         IN  /\ Name = Lower(request.items[1].data)
             /\ Name = "get" => FromFrame(request) = Finish(ParseGet(t))
             /\ Name = "publish" => FromFrame(request) = Finish(ParsePublish(t))
             /\ Name = "set" => FromFrame(request) = Finish(ParseSet(t))
             /\ Name = "subscribe" => FromFrame(request) = Finish(ParseSubscribe(t))
             /\ Name = "unsubscribe" => FromFrame(request) = Finish(ParseUnsubscribe(t))
             /\ Name = "ping" => FromFrame(request) = Finish(ParsePing(t))
             /\ Name \notin {"get", "publish", "set", "subscribe", "unsubscribe", "ping"} =>
                  FromFrame(request) = {Unknown}
<1> DEFINE t == Tail(request.items)
           name == NextString(request.items)
<1>1. Name = Lower(request.items[1].data)
  BY DEF Name
<1>2. name = Ok(request.items[1].data, t)
  BY StringRead
<1>3. name.tag = "Ok" /\ name.val = request.items[1].data /\ name.rest = t
  BY <1>2, Results
<1> HIDE DEF t, name
<1>4. FromFrame(request) =
        CASE Name = "get" -> Finish(ParseGet(t))
          [] Name = "publish" -> Finish(ParsePublish(t))
          [] Name = "set" -> Finish(ParseSet(t))
          [] Name = "subscribe" -> Finish(ParseSubscribe(t))
          [] Name = "unsubscribe" -> Finish(ParseUnsubscribe(t))
          [] Name = "ping" -> Finish(ParsePing(t))
          [] OTHER -> {Unknown}
  BY <1>1, <1>3 DEF FromFrame, name
<1> HIDE DEF Name
<1>5. /\ Name = "get" => FromFrame(request) = Finish(ParseGet(t))
      /\ Name = "publish" => FromFrame(request) = Finish(ParsePublish(t))
      /\ Name = "set" => FromFrame(request) = Finish(ParseSet(t))
      /\ Name = "subscribe" => FromFrame(request) = Finish(ParseSubscribe(t))
      /\ Name = "unsubscribe" => FromFrame(request) = Finish(ParseUnsubscribe(t))
      /\ Name = "ping" => FromFrame(request) = Finish(ParsePing(t))
      /\ Name \notin {"get", "publish", "set", "subscribe", "unsubscribe", "ping"} =>
           FromFrame(request) = {Unknown}
  BY <1>4
<1> QED
  BY <1>1, <1>5 DEF t

\* The documented names.
LEMMA Documented ==
  /\ DOMAIN Formats = {"get", "set", "publish", "ping", "subscribe", "unsubscribe"}
  /\ Formats["get"] = {<<"text">>}
  /\ Formats["set"] = {<<"text", "bytes">>, <<"text", "bytes", "unit", "number">>}
  /\ Formats["publish"] = {<<"text", "bytes">>}
  /\ Formats["ping"] = {<<>>, <<"bytes">>}
  /\ Formats["subscribe"] = {Texts(n) : n \in 1 .. MaxItems}
  /\ Formats["unsubscribe"] = {Texts(n) : n \in 0 .. MaxItems}
BY DEF Formats

\* A request that begins with a text is an array of the items of Written.
NamedRequest ==
  /\ request.type = "Array" /\ request.items \in Seq(Parts)
  /\ request.items # <<>> /\ IsText(request.items[1])
  /\ Len(request.items) <= MaxItems

\* The request is read as its format says: no command if it is not in the format,
\* and otherwise the command with its fields.
AsDocumented ==
  /\ FromFrame(request) = {} => ~InFormat
  /\ command \in FromFrame(request) => command.op = Name /\ InFormat /\ FieldsRead

\* What the parsers are given: the items behind the name.
LEMMA ItemsBehindName ==
  ASSUME NamedRequest
  PROVE  LET items == request.items
             t == Tail(items)
         IN  /\ t \in Seq(Parts) /\ Len(t) = Len(items) - 1 /\ Len(items) \in Nat
             /\ Len(items) >= 1 /\ (t = <<>> <=> Len(items) = 1)
             /\ DOMAIN t = 1 .. Len(items) - 1
             /\ \A i \in 1 .. Len(items) - 1 : t[i] = items[i + 1]
             /\ Len(items) >= 2 => t[1] = items[2]
             /\ Len(items) >= 3 => t[2] = items[3]
             /\ Len(items) >= 4 => t[3] = items[4]
             /\ Len(items) >= 5 => t[4] = items[5]
<1> DEFINE items == request.items
           t == Tail(items)
<1>1. /\ t \in Seq(Parts) /\ Len(items) \in Nat /\ Len(items) >= 1
      /\ Len(t) = Len(items) - 1 /\ (t = <<>> <=> Len(items) = 1)
      /\ \A i \in 1 .. Len(items) - 1 : t[i] = items[i + 1]
  BY Rest DEF NamedRequest
<1> HIDE DEF t, items
<1>2. DOMAIN t = 1 .. Len(items) - 1
  BY <1>1
<1>3. /\ Len(items) >= 2 => t[1] = items[1 + 1]
      /\ Len(items) >= 3 => t[2] = items[2 + 1]
      /\ Len(items) >= 4 => t[3] = items[3 + 1]
      /\ Len(items) >= 5 => t[4] = items[4 + 1]
  BY <1>1
<1>4. 1 + 1 = 2 /\ 2 + 1 = 3 /\ 3 + 1 = 4 /\ 4 + 1 = 5
  OBVIOUS
<1> QED
  BY <1>1, <1>2, <1>3, <1>4 DEF t, items

\* GET is read as documented.
LEMMA GetDocumented ==
  ASSUME NamedRequest, Name = "get" PROVE AsDocumented
<1> DEFINE items == request.items
           t == Tail(items)
<1>1. FromFrame(request) = Finish(ParseGet(t))
  BY Named DEF NamedRequest
<1>2. /\ t \in Seq(Parts) /\ Len(t) = Len(items) - 1 /\ Len(items) \in Nat
      /\ (Len(items) >= 2 => t[1] = items[2])
  BY ItemsBehindName
<1>3. InFormat <=> Matches(items, <<"text">>)
  BY Documented DEF InFormat
<1>4. Matches(items, <<"text">>) <=> Len(items) = 2 /\ IsText(items[2])
  BY FormatsMatched DEF NamedRequest
<1> HIDE DEF t
<1>5. FromFrame(request) = IF Len(t) = 1 /\ IsText(t[1]) THEN {Get(t[1].data)} ELSE {}
  BY <1>1, <1>2, GetRead
<1>6. Len(t) = 1 <=> Len(items) = 2
  BY <1>2
<1>7. Len(items) = 2 => t[1] = items[2]
  BY <1>2
<1> HIDE DEF items
<1>8. FromFrame(request) = IF Len(items) = 2 /\ IsText(items[2]) THEN {Get(items[2].data)} ELSE {}
  BY <1>5, <1>6, <1>7
<1>9. ASSUME command \in FromFrame(request)
      PROVE  command.op = "get" /\ command.key = items[2].data
  <2>1. command = Get(items[2].data)
    BY <1>8, <1>9
  <2> QED
    BY <2>1 DEF Get
<1>10. command \in FromFrame(request) => FieldsRead
  BY <1>9 DEF FieldsRead, items
<1>11. FromFrame(request) = {} <=> ~InFormat
  BY <1>3, <1>4, <1>8
<1>12. command \in FromFrame(request) => command.op = Name
  BY <1>9
<1> QED
  BY <1>10, <1>11, <1>12, Zenon DEF AsDocumented

\* PUBLISH is read as documented.
LEMMA PublishDocumented ==
  ASSUME NamedRequest, Name = "publish" PROVE AsDocumented
<1> DEFINE items == request.items
           t == Tail(items)
<1>1. FromFrame(request) = Finish(ParsePublish(t))
  BY Named DEF NamedRequest
<1>2. /\ t \in Seq(Parts) /\ Len(t) = Len(items) - 1 /\ Len(items) \in Nat
      /\ (Len(items) >= 2 => t[1] = items[2]) /\ (Len(items) >= 3 => t[2] = items[3])
  BY ItemsBehindName
<1>3. InFormat <=> Matches(items, <<"text", "bytes">>)
  BY Documented DEF InFormat
<1>4. Matches(items, <<"text", "bytes">>) <=>
        Len(items) = 3 /\ IsText(items[2]) /\ IsBytes(items[3])
  BY FormatsMatched DEF NamedRequest
<1> HIDE DEF t
<1>5. FromFrame(request) = IF Len(t) = 2 /\ IsText(t[1]) /\ IsBytes(t[2])
                           THEN {Publish(t[1].data, t[2].data)} ELSE {}
  BY <1>1, <1>2, PublishRead
<1>6. Len(t) = 2 <=> Len(items) = 3
  BY <1>2
<1>7. Len(items) = 3 => t[1] = items[2] /\ t[2] = items[3]
  BY <1>2
<1> HIDE DEF items
<1>8. FromFrame(request) = IF Len(items) = 3 /\ IsText(items[2]) /\ IsBytes(items[3])
                           THEN {Publish(items[2].data, items[3].data)} ELSE {}
  BY <1>5, <1>6, <1>7
<1>9. ASSUME command \in FromFrame(request)
      PROVE  /\ command.op = "publish" /\ command.key = items[2].data
             /\ command.value = items[3].data
  <2>1. command = Publish(items[2].data, items[3].data)
    BY <1>8, <1>9
  <2> QED
    BY <2>1 DEF Publish
<1>10. command \in FromFrame(request) => FieldsRead
  BY <1>9 DEF FieldsRead, items
<1>11. FromFrame(request) = {} <=> ~InFormat
  BY <1>3, <1>4, <1>8
<1>12. command \in FromFrame(request) => command.op = Name
  BY <1>9
<1> QED
  BY <1>10, <1>11, <1>12, Zenon DEF AsDocumented

\* PING is read as documented.
LEMMA PingDocumented ==
  ASSUME NamedRequest, Name = "ping" PROVE AsDocumented
<1> DEFINE items == request.items
           t == Tail(items)
<1>1. FromFrame(request) = Finish(ParsePing(t))
  BY Named DEF NamedRequest
<1>2. /\ t \in Seq(Parts) /\ Len(t) = Len(items) - 1 /\ Len(items) \in Nat
      /\ (t = <<>> <=> Len(items) = 1) /\ (Len(items) >= 2 => t[1] = items[2])
  BY ItemsBehindName
<1>3. InFormat <=> Matches(items, <<>>) \/ Matches(items, <<"bytes">>)
  BY Documented DEF InFormat
<1>4. /\ Matches(items, <<>>) <=> Len(items) = 1
      /\ Matches(items, <<"bytes">>) <=> Len(items) = 2 /\ IsBytes(items[2])
  BY FormatsMatched DEF NamedRequest
<1> HIDE DEF t
<1>5. FromFrame(request) = IF t = <<>> THEN {Ping(None)}
                           ELSE IF Len(t) = 1 /\ IsBytes(t[1]) THEN {Ping(t[1].data)} ELSE {}
  BY <1>1, <1>2, PingRead
<1>6. Len(t) = 1 <=> Len(items) = 2
  BY <1>2
<1>7. Len(items) = 2 => t[1] = items[2]
  BY <1>2
<1> HIDE DEF items
<1>8. FromFrame(request) =
        IF Len(items) = 1 THEN {Ping(None)}
        ELSE IF Len(items) = 2 /\ IsBytes(items[2]) THEN {Ping(items[2].data)} ELSE {}
  BY <1>2, <1>5, <1>6, <1>7
<1>9. ASSUME command \in FromFrame(request)
      PROVE  /\ command.op = "ping"
             /\ command.msg = (IF Len(items) = 1 THEN None ELSE items[2].data)
  <2>1. command = Ping(IF Len(items) = 1 THEN None ELSE items[2].data)
    BY <1>8, <1>9
  <2> QED
    BY <2>1 DEF Ping
<1>10. command \in FromFrame(request) => FieldsRead
  BY <1>9 DEF FieldsRead, items
<1>11. FromFrame(request) = {} <=> ~InFormat
  BY <1>2, <1>3, <1>4, <1>8
<1>12. command \in FromFrame(request) => command.op = Name
  BY <1>9
<1>13. command \in FromFrame(request) => InFormat
  BY <1>11
<1> QED
  BY <1>10, <1>11, <1>12, <1>13, Zenon DEF AsDocumented

\* The options of SET and their units.
LEMMA Options ==
  /\ DOMAIN Unit = {"ex", "px"}
  /\ \A option \in {"ex", "px"} : Unit[option] = IF option = "ex" THEN Second ELSE Milli
BY DEF Unit

\* SET is read as documented.
LEMMA SetDocumented ==
  ASSUME NamedRequest, Name = "set" PROVE AsDocumented
<1> DEFINE items == request.items
           t == Tail(items)
           bare == Len(items) = 3 /\ IsText(items[2]) /\ IsBytes(items[3])
           timed == /\ Len(items) = 5 /\ IsText(items[2]) /\ IsBytes(items[3])
                    /\ IsText(items[4]) /\ Lower(items[4].data) \in {"ex", "px"}
                    /\ Number(items[5]) # {}
<1>1. FromFrame(request) = Finish(ParseSet(t))
  BY Named DEF NamedRequest
<1>2. /\ t \in Seq(Parts) /\ Len(t) = Len(items) - 1 /\ Len(items) \in Nat
      /\ (Len(items) >= 2 => t[1] = items[2]) /\ (Len(items) >= 3 => t[2] = items[3])
      /\ (Len(items) >= 4 => t[3] = items[4]) /\ (Len(items) >= 5 => t[4] = items[5])
  BY ItemsBehindName
<1>3. InFormat <=> Matches(items, <<"text", "bytes">>)
                   \/ Matches(items, <<"text", "bytes", "unit", "number">>)
  BY Documented DEF InFormat
<1>4. (Matches(items, <<"text", "bytes">>) <=> bare)
      /\ (Matches(items, <<"text", "bytes", "unit", "number">>) <=> timed)
  BY FormatsMatched DEF NamedRequest
<1> HIDE DEF t
<1> DEFINE bareRest == Len(t) = 2 /\ IsText(t[1]) /\ IsBytes(t[2])
           timedRest == /\ Len(t) = 4 /\ IsText(t[1]) /\ IsBytes(t[2])
                        /\ IsText(t[3]) /\ Lower(t[3].data) \in DOMAIN Unit
                        /\ Number(t[4]) # {}
<1>5. /\ bareRest => Finish(ParseSet(t)) = {Set(t[1].data, t[2].data, None)}
      /\ timedRest => \E n \in Number(t[4]) :
           Finish(ParseSet(t)) = {Set(t[1].data, t[2].data, n * Unit[Lower(t[3].data)])}
      /\ ~bareRest /\ ~timedRest => Finish(ParseSet(t)) = {}
  BY <1>2, SetRead
<1>6. (Len(t) = 2 <=> Len(items) = 3) /\ (Len(t) = 4 <=> Len(items) = 5)
  BY <1>2
<1>7. /\ Len(items) = 3 => t[1] = items[2] /\ t[2] = items[3]
      /\ Len(items) = 5 => t[1] = items[2] /\ t[2] = items[3] /\ t[3] = items[4] /\ t[4] = items[5]
  BY <1>2
<1> HIDE DEF items
<1>8. (bareRest <=> bare) /\ (timedRest <=> timed)
  BY <1>6, <1>7, Options
<1>9. ASSUME bare
      PROVE  FromFrame(request) = {Set(items[2].data, items[3].data, None)}
  <2>1. Finish(ParseSet(t)) = {Set(t[1].data, t[2].data, None)}
    BY <1>5, <1>8, <1>9
  <2>2. t[1] = items[2] /\ t[2] = items[3]
    BY <1>7, <1>9
  <2> QED
    BY <1>1, <2>1, <2>2
<1>10. ASSUME timed
       PROVE  \E n \in Number(items[5]) :
                FromFrame(request) =
                  {Set(items[2].data, items[3].data, n * Unit[Lower(items[4].data)])}
  <2>1. \E n \in Number(t[4]) :
           Finish(ParseSet(t)) = {Set(t[1].data, t[2].data, n * Unit[Lower(t[3].data)])}
    BY <1>5, <1>8, <1>10
  <2>2. t[1] = items[2] /\ t[2] = items[3] /\ t[3] = items[4] /\ t[4] = items[5]
    BY <1>7, <1>10
  <2> QED
    BY <1>1, <2>1, <2>2
<1>11. ~bare /\ ~timed => FromFrame(request) = {}
  BY <1>1, <1>5, <1>8
<1>12. FromFrame(request) = {} <=> ~InFormat
  <2>1. FromFrame(request) = {} <=> ~bare /\ ~timed
    <3> HIDE DEF bare, timed
    <3> QED
      BY <1>9, <1>10, <1>11
  <2> QED
    BY <1>3, <1>4, <2>1
<1>13. ASSUME command \in FromFrame(request)
       PROVE  /\ command.op = "set" /\ command.key = items[2].data
              /\ command.value = items[3].data
              /\ IF Len(items) = 3 THEN command.expire = None
                 ELSE \E n \in Number(items[5]) :
                        command.expire = n * (IF Lower(items[4].data) = "ex" THEN Second ELSE Milli)
  <2>1. CASE bare
    <3>1. command = Set(items[2].data, items[3].data, None)
      BY <1>9, <1>13, <2>1
    <3> QED
      BY <2>1, <3>1 DEF Set
  <2>2. CASE timed
    <3>1. PICK n \in Number(items[5]) :
            FromFrame(request) = {Set(items[2].data, items[3].data, n * Unit[Lower(items[4].data)])}
      BY <1>10, <2>2
    <3>2. Unit[Lower(items[4].data)] = IF Lower(items[4].data) = "ex" THEN Second ELSE Milli
      BY <2>2, Options
    <3> DEFINE expire == n * (IF Lower(items[4].data) = "ex" THEN Second ELSE Milli)
    <3>3. command = Set(items[2].data, items[3].data, expire)
      BY <1>13, <3>1, <3>2
    <3> HIDE DEF expire
    <3>4. /\ command.op = "set" /\ command.key = items[2].data
          /\ command.value = items[3].data /\ command.expire = expire
      BY <3>3 DEF Set
    <3>5. Len(items) # 3
      BY <2>2
    <3> QED
      BY <3>4, <3>5 DEF expire
  <2>3. bare \/ timed
    BY <1>11, <1>13
  <2> QED
    BY <2>1, <2>2, <2>3
<1>14. command \in FromFrame(request) => FieldsRead
  BY <1>13 DEF FieldsRead, items
<1>15. command \in FromFrame(request) => command.op = Name
  BY <1>13
<1>16. command \in FromFrame(request) => InFormat
  BY <1>12
<1> QED
  BY <1>12, <1>14, <1>15, <1>16, Zenon DEF AsDocumented

\* The items after the name are texts.
LEMMA TextsMatched ==
  ASSUME NamedRequest
  PROVE  LET items == request.items
             t == Tail(items)
         IN  /\ (\A i \in DOMAIN t : IsText(t[i])) <=> Matches(items, Texts(Len(items) - 1))
             /\ \A n \in Nat : Matches(items, Texts(n)) => n = Len(items) - 1
             /\ Channels(t) = [i \in 1 .. Len(items) - 1 |-> items[i + 1].data]
             /\ Len(items) - 1 \in 0 .. MaxItems
             /\ (t # <<>> <=> Len(items) - 1 \in 1 .. MaxItems)
<1> DEFINE items == request.items
           t == Tail(items)
           n == Len(items) - 1
<1>1. /\ t \in Seq(Parts) /\ Len(items) \in Nat /\ Len(items) >= 1
      /\ (t = <<>> <=> Len(items) = 1) /\ DOMAIN t = 1 .. n
      /\ \A i \in 1 .. n : t[i] = items[i + 1]
  BY ItemsBehindName
<1>2. \A m \in Nat : Matches(items, Texts(m)) <=>
              Len(items) = m + 1 /\ \A i \in 1 .. m : IsText(items[i + 1])
  BY FormatsMatched DEF NamedRequest
<1>3. Len(items) <= MaxItems /\ MaxItems \in Nat
  BY CommandsAssumption DEF NamedRequest
<1> HIDE DEF t, items
<1>4. n \in Nat /\ Len(items) = n + 1 /\ n \in 0 .. MaxItems /\ (t # <<>> <=> n \in 1 .. MaxItems)
  BY <1>1, <1>3
<1>5. (\A i \in DOMAIN t : IsText(t[i])) <=> (\A i \in 1 .. n : IsText(items[i + 1]))
  BY <1>1
<1>6. ASSUME NEW m \in Nat, Matches(items, Texts(m)) PROVE m = n
  <2>1. Len(items) = m + 1
    BY <1>2, <1>6
  <2> QED
    BY <1>6, <2>1
<1>7. Channels(t) = [i \in 1 .. n |-> items[i + 1].data]
  BY <1>1 DEF Channels
<1> HIDE DEF n
<1>8. Matches(items, Texts(n)) <=> \A i \in 1 .. n : IsText(items[i + 1])
  BY <1>2, <1>4
<1> QED
  BY <1>4, <1>5, <1>6, <1>7, <1>8 DEF items, t, n

\* SUBSCRIBE is read as documented.
LEMMA SubscribeDocumented ==
  ASSUME NamedRequest, Name = "subscribe" PROVE AsDocumented
<1> DEFINE items == request.items
           t == Tail(items)
           n == Len(items) - 1
           channels == [i \in 1 .. n |-> items[i + 1].data]
<1>1. FromFrame(request) = Finish(ParseSubscribe(t))
  BY Named DEF NamedRequest
<1>2. t \in Seq(Parts)
  BY ItemsBehindName
<1>3. /\ (\A i \in DOMAIN t : IsText(t[i])) <=> Matches(items, Texts(n))
      /\ \A m \in Nat : Matches(items, Texts(m)) => m = n
      /\ Channels(t) = channels
      /\ (t # <<>> <=> n \in 1 .. MaxItems)
  BY TextsMatched
<1>4. InFormat <=> \E m \in 1 .. MaxItems : Matches(items, Texts(m))
  BY Documented DEF InFormat
<1>5. MaxItems \in Nat
  BY CommandsAssumption
<1>6. 1 .. MaxItems \subseteq Nat
  BY <1>5
<1> HIDE DEF t, n, items, channels
<1>7. InFormat <=> n \in 1 .. MaxItems /\ Matches(items, Texts(n))
  BY <1>3, <1>4, <1>6, Zenon
<1>8. FromFrame(request) = IF t # <<>> /\ \A i \in DOMAIN t : IsText(t[i])
                           THEN {Subscribe(Channels(t))} ELSE {}
  BY <1>1, <1>2, SubscribeRead
<1>9. FromFrame(request) = IF InFormat THEN {Subscribe(channels)} ELSE {}
  BY <1>3, <1>7, <1>8, Zenon
<1>10. ASSUME command \in FromFrame(request)
       PROVE  command.op = "subscribe" /\ command.channels = channels /\ InFormat
  <2>1. command = Subscribe(channels) /\ InFormat
    BY <1>9, <1>10
  <2> QED
    BY <2>1 DEF Subscribe
<1>11. command \in FromFrame(request) => FieldsRead
  BY <1>10 DEF FieldsRead, items, n, channels
<1>12. FromFrame(request) = {} => ~InFormat
  BY <1>9
<1> QED
  BY <1>10, <1>11, <1>12, Zenon DEF AsDocumented

\* UNSUBSCRIBE is read as documented.
LEMMA UnsubscribeDocumented ==
  ASSUME NamedRequest, Name = "unsubscribe" PROVE AsDocumented
<1> DEFINE items == request.items
           t == Tail(items)
           n == Len(items) - 1
<1>1. FromFrame(request) = Finish(ParseUnsubscribe(t))
  BY Named DEF NamedRequest
<1>2. t \in Seq(Parts)
  BY ItemsBehindName
<1>3. /\ (\A i \in DOMAIN t : IsText(t[i])) <=> Matches(items, Texts(n))
      /\ \A m \in Nat : Matches(items, Texts(m)) => m = n
      /\ n \in 0 .. MaxItems
  BY TextsMatched
<1>4. InFormat <=> \E m \in 0 .. MaxItems : Matches(items, Texts(m))
  BY Documented DEF InFormat
<1>5. MaxItems \in Nat
  BY CommandsAssumption
<1>6. 0 .. MaxItems \subseteq Nat
  BY <1>5
<1> HIDE DEF t, n, items
<1>7. InFormat <=> Matches(items, Texts(n))
  BY <1>3, <1>4, <1>6, Zenon
<1>8. FromFrame(request) = IF \A i \in DOMAIN t : IsText(t[i])
                           THEN {Unsubscribe(Channels(t))} ELSE {}
  BY <1>1, <1>2, UnsubscribeRead
<1>9. FromFrame(request) = IF InFormat THEN {Unsubscribe(Channels(t))} ELSE {}
  BY <1>3, <1>7, <1>8, Zenon
<1>10. ASSUME command \in FromFrame(request)
       PROVE  command.op = "unsubscribe" /\ InFormat
  <2>1. command = Unsubscribe(Channels(t)) /\ InFormat
    BY <1>9, <1>10
  <2> QED
    BY <2>1 DEF Unsubscribe
<1>11. command \in FromFrame(request) => FieldsRead
  BY <1>10 DEF FieldsRead
<1>12. FromFrame(request) = {} => ~InFormat
  BY <1>9
<1> QED
  BY <1>10, <1>11, <1>12, Zenon DEF AsDocumented

\* Every request is read as documented.
LEMMA Reading ==
  ASSUME Written
  PROVE  /\ FromFrame(request) = {} => Name = None \/ (Name \in DOMAIN Formats /\ ~InFormat)
         /\ command \in FromFrame(request) =>
              /\ Name # None
              /\ command.op = (IF Name \in DOMAIN Formats THEN Name ELSE "unknown")
              /\ Name \in DOMAIN Formats => InFormat /\ FieldsRead
<1>1. CASE request.type # "Array" \/ request.items = <<>> \/ ~IsText(request.items[1])
  <2>1. FromFrame(request) = {} /\ Name = None
    BY <1>1, Nameless DEF Written
  <2> QED
    BY <2>1
<1>2. CASE ~(request.type # "Array" \/ request.items = <<>> \/ ~IsText(request.items[1]))
  <2>1. NamedRequest
    BY <1>2 DEF Written, NamedRequest
  <2>2. Name # None
    BY <1>2 DEF Written, Name
  <2>3. ASSUME Name \in DOMAIN Formats PROVE AsDocumented
    BY <2>1, <2>3, Documented, GetDocumented, SetDocumented, PublishDocumented,
       PingDocumented, SubscribeDocumented, UnsubscribeDocumented
  <2>4. CASE Name \in DOMAIN Formats
    BY <2>2, <2>3, <2>4 DEF AsDocumented
  <2>5. CASE Name \notin DOMAIN Formats
    <3>1. Name \notin {"get", "publish", "set", "subscribe", "unsubscribe", "ping"}
      BY <2>5, Documented
    <3>2. FromFrame(request) = {Unknown}
      BY <2>1, <3>1, Named DEF NamedRequest
    <3>3. Unknown.op = "unknown"
      BY DEF Unknown
    <3> QED
      BY <2>2, <2>5, <3>2, <3>3
  <2> QED
    BY <2>4, <2>5
<1> QED
  BY <1>1, <1>2

\* What is read under a documented name is that command.
LEMMA Operations ==
  ASSUME NamedRequest, Name \in DOMAIN Formats, NEW cmd \in FromFrame(request)
  PROVE  cmd.op = Name
<1> DEFINE t == Tail(request.items)
<1>1. /\ Name = "get" => FromFrame(request) = Finish(ParseGet(t))
      /\ Name = "publish" => FromFrame(request) = Finish(ParsePublish(t))
      /\ Name = "set" => FromFrame(request) = Finish(ParseSet(t))
      /\ Name = "subscribe" => FromFrame(request) = Finish(ParseSubscribe(t))
      /\ Name = "unsubscribe" => FromFrame(request) = Finish(ParseUnsubscribe(t))
      /\ Name = "ping" => FromFrame(request) = Finish(ParsePing(t))
  BY Named DEF NamedRequest
<1> HIDE DEF t
<1>2. ASSUME NEW parsed, cmd \in Finish(parsed) PROVE parsed.tag = "Ok" /\ parsed.val = cmd
  BY <1>2 DEF Finish
<1>3. ASSUME Name = "get" PROVE cmd.op = "get"
  BY <1>1, <1>2, <1>3, Results DEF ParseGet, Get
<1>4. ASSUME Name = "publish" PROVE cmd.op = "publish"
  BY <1>1, <1>2, <1>4, Results DEF ParsePublish, Publish
<1>5. ASSUME Name = "set" PROVE cmd.op = "set"
  <2> DEFINE key == NextString(t)
             value == NextBytes(key.rest)
             option == NextString(value.rest)
             number == NextInt(option.rest)
             expire == number.val * Unit[Lower(option.val)]
  <2>1. \/ ParseSet(t) = key /\ key.tag # "Ok"
        \/ ParseSet(t) = value /\ value.tag # "Ok"
        \/ ParseSet(t) = Ok(Set(key.val, value.val, None), <<>>)
        \/ ParseSet(t) = option /\ option.tag # "Ok"
        \/ ParseSet(t) = Other
        \/ ParseSet(t) = number /\ number.tag # "Ok"
        \/ ParseSet(t) = Ok(Set(key.val, value.val, expire), number.rest)
    BY DEF ParseSet
  <2> HIDE DEF key, value, option, number, expire
  <2> QED
    BY <1>1, <1>2, <1>5, <2>1, Results DEF Set
<1>6. ASSUME Name = "subscribe" PROVE cmd.op = "subscribe"
  BY <1>1, <1>2, <1>6, Results DEF ParseSubscribe, Subscribe
<1>7. ASSUME Name = "unsubscribe" PROVE cmd.op = "unsubscribe"
  BY <1>1, <1>2, <1>7, Results DEF ParseUnsubscribe, Unsubscribe
<1>8. ASSUME Name = "ping" PROVE cmd.op = "ping"
  BY <1>1, <1>2, <1>8, Results DEF ParsePing, Ping
<1> QED
  BY <1>3, <1>4, <1>5, <1>6, <1>7, <1>8, Documented

-------------------------------------------------------------------------------
(* What the server reads out of the frame of a call.                       *)

\* The items a client writes.
LEMMA ItemsWritten ==
  /\ \A data \in Words \cup Keys \cup Values : Bulk(data) \in Parts
  /\ \A n \in 0 .. U64Max : Integer(n) \in Parts /\ Number(Integer(n)) = {n}
  /\ \A data : IsBytes(Bulk(data)) /\ Bulk(data).data = data
  /\ \A data \in Words \cup Keys : IsText(Bulk(data))
  /\ \A data \in Words : Lower(data) = data /\ data # None
<1>1. ASSUME NEW data \in Words PROVE data \notin DOMAIN Capitals /\ data \notin NotUtf8 /\ data # None
  BY WordsAssumption, Zenon
<1>2. ASSUME NEW data \in Keys PROVE data \notin NotUtf8
  BY CommandsAssumption, Zenon
<1>3. ASSUME NEW data \in Words \cup Keys PROVE IsText(Bulk(data))
  BY <1>1, <1>2 DEF IsText, Bulk
<1>4. ASSUME NEW data \in Words PROVE Lower(data) = data
  BY <1>1 DEF Lower
<1>5. \A data : IsBytes(Bulk(data)) /\ Bulk(data).data = data
  BY DEF IsBytes, Bulk
<1>6. \A n : Number(Integer(n)) = {n}
  BY DEF Number, Integer
<1>7. \A data \in Words \cup Keys \cup Values : Bulk(data) \in Parts
  BY DEF Parts
<1>8. \A n \in 0 .. U64Max : Integer(n) \in Parts
  BY DEF Parts
<1> QED
  BY <1>1, <1>3, <1>4, <1>5, <1>6, <1>7, <1>8

\* A frame that begins with a word of the client is read by the parser of that word.
LEMMA WordRead ==
  ASSUME NEW items \in Seq(Parts), items # <<>>, Len(items) <= 5, NEW word \in Words,
         items[1] = Bulk(word), request = Array(items)
  PROVE  /\ Written
         /\ word = "get" => FromFrame(request) = Finish(ParseGet(Tail(items)))
         /\ word = "publish" => FromFrame(request) = Finish(ParsePublish(Tail(items)))
         /\ word = "set" => FromFrame(request) = Finish(ParseSet(Tail(items)))
         /\ word = "subscribe" => FromFrame(request) = Finish(ParseSubscribe(Tail(items)))
         /\ word = "ping" => FromFrame(request) = Finish(ParsePing(Tail(items)))
<1>1. request.type = "Array" /\ request.items = items
  BY DEF Array
<1>2. IsText(items[1]) /\ Lower(items[1].data) = word /\ word # None
  BY ItemsWritten
<1>3. Len(items) <= MaxItems
  BY CommandsAssumption
<1>4. Written
  BY <1>1, <1>2, <1>3 DEF Written
<1>5. Name = word
  BY <1>1, <1>2 DEF Name
<1> QED
  BY <1>1, <1>2, <1>4, <1>5, Named

\* The frame of GET.
LEMMA GetCalled ==
  ASSUME NEW key \in Keys, request = IntoFrame(Get(key))
  PROVE  Written /\ FromFrame(request) = {Get(key)}
<1> DEFINE items == <<Bulk("get"), Bulk(key)>>
<1>1. request = Array(items)
  BY DEF IntoFrame, GetFrame, Get
<1>2. "get" \in Words
  BY DEF Words
<1>3. Bulk("get") \in Parts /\ Bulk(key) \in Parts
  BY <1>2, ItemsWritten
<1> DEFINE t == <<Bulk(key)>>
<1>4. /\ items \in Seq(Parts) /\ items # <<>> /\ Len(items) <= 5 /\ items[1] = Bulk("get")
      /\ Tail(items) = t
  BY <1>3
<1>5. t \in Seq(Parts) /\ Len(t) = 1 /\ t[1] = Bulk(key)
  BY <1>3
<1>6. IsText(Bulk(key)) /\ Bulk(key).data = key
  BY ItemsWritten
<1> HIDE DEF items, t
<1>7. Written /\ FromFrame(request) = Finish(ParseGet(t))
  BY <1>1, <1>2, <1>4, WordRead
<1>8. Finish(ParseGet(t)) = IF Len(t) = 1 /\ IsText(t[1]) THEN {Get(t[1].data)} ELSE {}
  BY <1>5, GetRead
<1> QED
  BY <1>5, <1>6, <1>7, <1>8

\* The frame of PUBLISH.
LEMMA PublishCalled ==
  ASSUME NEW key \in Keys, NEW value \in Values, request = IntoFrame(Publish(key, value))
  PROVE  Written /\ FromFrame(request) = {Publish(key, value)}
<1> DEFINE items == <<Bulk("publish"), Bulk(key), Bulk(value)>>
<1>1. request = Array(items)
  BY DEF IntoFrame, PublishFrame, Publish
<1>2. "publish" \in Words
  BY DEF Words
<1>3. Bulk("publish") \in Parts /\ Bulk(key) \in Parts /\ Bulk(value) \in Parts
  BY <1>2, ItemsWritten
<1> DEFINE t == <<Bulk(key), Bulk(value)>>
<1>4. /\ items \in Seq(Parts) /\ items # <<>> /\ Len(items) <= 5 /\ items[1] = Bulk("publish")
      /\ Tail(items) = t
  BY <1>3
<1>5. t \in Seq(Parts) /\ Len(t) = 2 /\ t[1] = Bulk(key) /\ t[2] = Bulk(value)
  BY <1>3
<1>6. /\ IsText(Bulk(key)) /\ Bulk(key).data = key
      /\ IsBytes(Bulk(value)) /\ Bulk(value).data = value
  BY ItemsWritten
<1> HIDE DEF items, t
<1>7. Written /\ FromFrame(request) = Finish(ParsePublish(t))
  BY <1>1, <1>2, <1>4, WordRead
<1>8. Finish(ParsePublish(t)) = IF Len(t) = 2 /\ IsText(t[1]) /\ IsBytes(t[2])
                                THEN {Publish(t[1].data, t[2].data)} ELSE {}
  BY <1>5, PublishRead
<1> QED
  BY <1>5, <1>6, <1>7, <1>8

\* The parts of a frame joined.
LEMMA JoinedPing ==
  ASSUME NEW V, NEW a \in V, NEW b \in V
  PROVE  <<a>> \o <<b>> = <<a, b>>
<1> DEFINE f == <<a>>
           g == <<b>>
           h == <<a, b>>
<1>1. /\ f \in Seq(V) /\ Len(f) = 1 /\ f[1] = a
      /\ g \in Seq(V) /\ Len(g) = 1 /\ g[1] = b
      /\ h \in Seq(V) /\ Len(h) = 2 /\ h[1] = a /\ h[2] = b
  OBVIOUS
<1> HIDE DEF f, g, h
<1>2. /\ f \o g \in Seq(V) /\ Len(f \o g) = 2
      /\ \A i \in 1 .. 2 : (f \o g)[i] = IF i <= 1 THEN f[i] ELSE g[i - 1]
  <2>1. /\ f \o g \in Seq(V) /\ Len(f \o g) = Len(f) + Len(g)
        /\ \A i \in 1 .. Len(f) + Len(g) :
             (f \o g)[i] = IF i <= Len(f) THEN f[i] ELSE g[i - Len(f)]
    BY <1>1, ConcatProperties
  <2>2. Len(f) = 1 /\ Len(f) + Len(g) = 2
    BY <1>1
  <2> QED
    BY <2>1, <2>2
<1>3. ASSUME NEW i \in 1 .. 2 PROVE (f \o g)[i] = h[i]
  BY <1>1, <1>2
<1>4. f \o g = h
  BY <1>1, <1>2, <1>3, SeqEqual
<1> QED
  BY <1>4 DEF f, g, h

\* The same for SET with its option.
LEMMA JoinedSet ==
  ASSUME NEW V, NEW a \in V, NEW b \in V, NEW c \in V, NEW d \in V, NEW e \in V
  PROVE  <<a, b, c>> \o <<d, e>> = <<a, b, c, d, e>>
<1> DEFINE f == <<a, b, c>>
           g == <<d, e>>
           h == <<a, b, c, d, e>>
<1>1. /\ f \in Seq(V) /\ Len(f) = 3 /\ f[1] = a /\ f[2] = b /\ f[3] = c
      /\ g \in Seq(V) /\ Len(g) = 2 /\ g[1] = d /\ g[2] = e
      /\ h \in Seq(V) /\ Len(h) = 5
      /\ h[1] = a /\ h[2] = b /\ h[3] = c /\ h[4] = d /\ h[5] = e
  OBVIOUS
<1> HIDE DEF f, g, h
<1>2. /\ f \o g \in Seq(V) /\ Len(f \o g) = 5
      /\ \A i \in 1 .. 5 : (f \o g)[i] = IF i <= 3 THEN f[i] ELSE g[i - 3]
  <2>1. /\ f \o g \in Seq(V) /\ Len(f \o g) = Len(f) + Len(g)
        /\ \A i \in 1 .. Len(f) + Len(g) :
             (f \o g)[i] = IF i <= Len(f) THEN f[i] ELSE g[i - Len(f)]
    BY <1>1, ConcatProperties
  <2>2. Len(f) = 3 /\ Len(f) + Len(g) = 5
    BY <1>1
  <2> QED
    BY <2>1, <2>2
<1>3. ASSUME NEW i \in 1 .. 5 PROVE (f \o g)[i] = h[i]
  BY <1>1, <1>2
<1>4. f \o g = h
  BY <1>1, <1>2, <1>3, SeqEqual
<1> QED
  BY <1>4 DEF f, g, h

\* The frame of PING.
LEMMA PingCalled ==
  ASSUME NEW msg \in Values \cup {None}, request = IntoFrame(Ping(msg))
  PROVE  Written /\ FromFrame(request) = {Ping(msg)}
<1>1. "ping" \in Words
  BY DEF Words
<1>2. Bulk("ping") \in Parts
  BY <1>1, ItemsWritten
<1>3. request = Array(PingFrame(Ping(msg))) /\ Ping(msg).msg = msg
  BY DEF IntoFrame, Ping
<1>4. CASE msg = None
  <2> DEFINE items == <<Bulk("ping")>>
  <2>1. PingFrame(Ping(msg)) = items
    BY <1>3, <1>4 DEF PingFrame
  <2>2. /\ items \in Seq(Parts) /\ items # <<>> /\ Len(items) <= 5 /\ items[1] = Bulk("ping")
        /\ Tail(items) = <<>>
    BY <1>2
  <2> HIDE DEF items
  <2>3. Written /\ FromFrame(request) = Finish(ParsePing(<<>>))
    BY <1>1, <1>3, <2>1, <2>2, WordRead
  <2>4. <<>> \in Seq(Parts)
    OBVIOUS
  <2>5. Finish(ParsePing(<<>>)) = {Ping(None)}
    BY <2>4, PingRead
  <2> QED
    BY <1>4, <2>3, <2>5
<1>5. CASE msg # None
  <2> DEFINE items == <<Bulk("ping"), Bulk(msg)>>
             t == <<Bulk(msg)>>
  <2>1. Bulk(msg) \in Parts /\ IsBytes(Bulk(msg)) /\ Bulk(msg).data = msg
    BY <1>5, ItemsWritten
  <2>2. PingFrame(Ping(msg)) = items
    <3>1. PingFrame(Ping(msg)) = <<Bulk("ping")>> \o <<Bulk(msg)>>
      BY <1>3, <1>5, Zenon DEF PingFrame
    <3>2. <<Bulk("ping")>> \o <<Bulk(msg)>> = items
      BY <1>2, <2>1, JoinedPing
    <3> QED
      BY <3>1, <3>2, Zenon
  <2>3. /\ items \in Seq(Parts) /\ items # <<>> /\ Len(items) <= 5 /\ items[1] = Bulk("ping")
        /\ Tail(items) = t
    BY <1>2, <2>1
  <2>4. t \in Seq(Parts) /\ t # <<>> /\ Len(t) = 1 /\ t[1] = Bulk(msg)
    BY <2>1
  <2> HIDE DEF items, t
  <2>5. Written /\ FromFrame(request) = Finish(ParsePing(t))
    BY <1>1, <1>3, <2>2, <2>3, WordRead
  <2>6. Finish(ParsePing(t)) = IF t = <<>> THEN {Ping(None)}
           ELSE IF Len(t) = 1 /\ IsBytes(t[1]) THEN {Ping(t[1].data)} ELSE {}
    BY <2>4, PingRead
  <2> QED
    BY <2>1, <2>4, <2>5, <2>6
<1> QED
  BY <1>4, <1>5

\* The frame of SUBSCRIBE.
LEMMA SubscribeCalled ==
  ASSUME NEW k \in Keys, NEW l \in Keys, request = IntoFrame(Subscribe(<<k, l>>))
  PROVE  Written /\ FromFrame(request) = {Subscribe(<<k, l>>)}
<1> DEFINE items == <<Bulk("subscribe"), Bulk(k), Bulk(l)>>
           t == <<Bulk(k), Bulk(l)>>
           channels == <<k, l>>
<1>1. request = Array(items)
  <2>1. Subscribe(channels).op = "subscribe" /\ Subscribe(channels).channels = channels
    BY DEF Subscribe
  <2>2. request = Array(SubscribeFrame(Subscribe(channels)))
    BY <2>1 DEF IntoFrame
  <2>3. [i \in DOMAIN channels |-> Bulk(channels[i])] = t
    OBVIOUS
  <2>4. SubscribeFrame(Subscribe(channels)) = <<Bulk("subscribe")>> \o t
    BY <2>1, <2>3 DEF SubscribeFrame
  <2> QED
    BY <2>2, <2>4
<1>2. "subscribe" \in Words
  BY DEF Words
<1>3. Bulk("subscribe") \in Parts /\ Bulk(k) \in Parts /\ Bulk(l) \in Parts
  BY <1>2, ItemsWritten
<1>4. /\ items \in Seq(Parts) /\ items # <<>> /\ Len(items) <= 5 /\ items[1] = Bulk("subscribe")
      /\ Tail(items) = t
  BY <1>3
<1>5. t \in Seq(Parts) /\ t # <<>> /\ DOMAIN t = {1, 2} /\ t[1] = Bulk(k) /\ t[2] = Bulk(l)
  BY <1>3
<1>6. IsText(Bulk(k)) /\ Bulk(k).data = k /\ IsText(Bulk(l)) /\ Bulk(l).data = l
  BY ItemsWritten
<1>7. Channels(t) = channels
  <2>1. t[1].data = k /\ t[2].data = l
    BY <1>5, <1>6
  <2>2. Channels(t) = [i \in {1, 2} |-> t[i].data]
    BY <1>5 DEF Channels
  <2>3. channels = [i \in {1, 2} |-> IF i = 1 THEN k ELSE l]
    <3>1. DOMAIN channels = {1, 2} /\ channels[1] = k /\ channels[2] = l
      OBVIOUS
    <3> QED
      BY <3>1
  <2> HIDE DEF t, channels
  <2> QED
    BY <2>1, <2>2, <2>3
<1> HIDE DEF items, t, channels
<1>8. Written /\ FromFrame(request) = Finish(ParseSubscribe(t))
  BY <1>1, <1>2, <1>4, WordRead
<1>9. Finish(ParseSubscribe(t)) =
        IF t # <<>> /\ \A i \in DOMAIN t : IsText(t[i]) THEN {Subscribe(Channels(t))} ELSE {}
  BY <1>5, SubscribeRead
<1>10. FromFrame(request) = {Subscribe(channels)}
  BY <1>5, <1>6, <1>7, <1>8, <1>9
<1> QED
  BY <1>8, <1>10 DEF channels

\* The milliseconds that are sent of an expiration.
LEMMA MillisSent ==
  ASSUME NEW duration \in Nat
  PROVE  /\ Millis(duration) \in 0 .. U64Max
         /\ duration \div Milli <= U64Max =>
              /\ Millis(duration) * Milli <= duration
              /\ Millis(duration) * Milli + Milli > duration
<1>1. U64Max \in Nat /\ Milli \in Nat /\ Milli > 0
  BY CommandsAssumption
<1> DEFINE q == duration \div Milli
<1>2. q \in Nat /\ q * Milli <= duration /\ q * Milli + Milli > duration
  BY <1>1
<1> HIDE DEF q
<1>3. Millis(duration) = q % (U64Max + 1)
  BY DEF Millis, q
<1>4. q % (U64Max + 1) \in 0 .. U64Max
  BY <1>1, <1>2
<1>5. q <= U64Max => q % (U64Max + 1) = q
  BY <1>1, <1>2
<1> QED
  BY <1>2, <1>3, <1>4, <1>5 DEF q

\* The frame of SET: the expiration is cut to the millisecond.
LEMMA SetCalled ==
  ASSUME NEW key \in Keys, NEW value \in Values, NEW expire \in Expirations \cup {None},
         request = IntoFrame(Set(key, value, expire))
  PROVE  /\ Written
         /\ FromFrame(request) =
              {Set(key, value, IF expire = None THEN None ELSE Millis(expire) * Milli)}
<1> DEFINE cmd == Set(key, value, expire)
<1>1. "set" \in Words /\ "px" \in Words
  BY DEF Words
<1>2. /\ Bulk("set") \in Parts /\ Bulk("px") \in Parts
      /\ Bulk(key) \in Parts /\ Bulk(value) \in Parts
  BY <1>1, ItemsWritten
<1>3. /\ IsText(Bulk(key)) /\ Bulk(key).data = key
      /\ IsBytes(Bulk(value)) /\ Bulk(value).data = value
      /\ IsText(Bulk("px")) /\ Bulk("px").data = "px" /\ Lower("px") = "px"
  BY <1>1, ItemsWritten
<1>4. /\ cmd.op = "set" /\ cmd.key = key /\ cmd.value = value /\ cmd.expire = expire
  BY DEF Set
<1> HIDE DEF cmd
<1>5. request = Array(SetFrame(cmd))
  BY <1>4 DEF IntoFrame, cmd
<1>6. CASE expire = None
  <2> DEFINE items == <<Bulk("set"), Bulk(key), Bulk(value)>>
             t == <<Bulk(key), Bulk(value)>>
  <2>1. SetFrame(cmd) = items
    <3>1. SetFrame(cmd) = items \o <<>>
      BY <1>4, <1>6, Zenon DEF SetFrame
    <3>2. items \in Seq(Parts)
      BY <1>2
    <3> QED
      BY <3>1, <3>2
  <2>2. /\ items \in Seq(Parts) /\ items # <<>> /\ Len(items) <= 5 /\ items[1] = Bulk("set")
        /\ Tail(items) = t
    BY <1>2
  <2>3. t \in Seq(Parts) /\ Len(t) = 2 /\ t[1] = Bulk(key) /\ t[2] = Bulk(value)
    BY <1>2
  <2> HIDE DEF items, t
  <2>4. Written /\ FromFrame(request) = Finish(ParseSet(t))
    BY <1>1, <1>5, <2>1, <2>2, WordRead
  <2>5. Len(t) = 2 /\ IsText(t[1]) /\ IsBytes(t[2]) =>
          Finish(ParseSet(t)) = {Set(t[1].data, t[2].data, None)}
    BY <2>3, SetRead
  <2>6. Finish(ParseSet(t)) = {Set(key, value, None)}
    BY <1>3, <2>3, <2>5
  <2> QED
    BY <1>6, <2>4, <2>6
<1>7. CASE expire # None
  <2> DEFINE n == Millis(expire)
             items == <<Bulk("set"), Bulk(key), Bulk(value), Bulk("px"), Integer(n)>>
             t == <<Bulk(key), Bulk(value), Bulk("px"), Integer(n)>>
  <2>1. n \in 0 .. U64Max
    BY <1>7, MillisSent, CommandsAssumption
  <2>2. Integer(n) \in Parts /\ Number(Integer(n)) = {n}
    BY <2>1, ItemsWritten
  <2>3. SetFrame(cmd) = items
    <3>1. SetFrame(cmd) = <<Bulk("set"), Bulk(key), Bulk(value)>> \o <<Bulk("px"), Integer(n)>>
      BY <1>4, <1>7, Zenon DEF SetFrame
    <3>2. <<Bulk("set"), Bulk(key), Bulk(value)>> \o <<Bulk("px"), Integer(n)>> = items
      BY <1>2, <2>2, JoinedSet
    <3> QED
      BY <3>1, <3>2, Zenon
  <2> HIDE DEF n
  <2>4. /\ items \in Seq(Parts) /\ items # <<>> /\ Len(items) <= 5 /\ items[1] = Bulk("set")
        /\ Tail(items) = t
    BY <1>2, <2>2
  <2>5. /\ t \in Seq(Parts) /\ Len(t) = 4 /\ t[1] = Bulk(key) /\ t[2] = Bulk(value)
        /\ t[3] = Bulk("px") /\ t[4] = Integer(n)
    BY <1>2, <2>2
  <2> HIDE DEF items, t
  <2>6. Written /\ FromFrame(request) = Finish(ParseSet(t))
    BY <1>1, <1>5, <2>3, <2>4, WordRead
  <2>7. /\ IsText(t[1]) /\ IsBytes(t[2]) /\ IsText(t[3]) /\ Lower(t[3].data) \in DOMAIN Unit
        /\ Number(t[4]) # {}
    BY <1>3, <2>2, <2>5, Options
  <2>8. \E m \in Number(t[4]) :
          Finish(ParseSet(t)) = {Set(t[1].data, t[2].data, m * Unit[Lower(t[3].data)])}
    BY <2>5, <2>7, SetRead
  <2>9. Finish(ParseSet(t)) = {Set(key, value, n * Milli)}
    <3>1. Unit["px"] = Milli
      BY DEF Unit
    <3> QED
      BY <1>3, <2>2, <2>5, <2>8, <3>1
  <2> QED
    BY <1>7, <2>6, <2>9 DEF n
<1> QED
  BY <1>6, <1>7

\* A call as the server carries it out: itself, but for its expiration.
Carried(cmd, sent) ==
  IF cmd.op = "set" /\ cmd.expire # None
  THEN /\ sent = Set(cmd.key, cmd.value, sent.expire)
       /\ cmd.expire \div Milli <= U64Max =>
            /\ sent.expire <= cmd.expire
            /\ sent.expire + Milli > cmd.expire
  ELSE sent = cmd

\* Every call of the client is read back.
LEMMA CallRead ==
  ASSUME NEW cmd \in Calls, request = IntoFrame(cmd)
  PROVE  Written /\ \E sent : FromFrame(request) = {sent} /\ sent.op = cmd.op /\ Carried(cmd, sent)
<1>1. CASE \E k \in Keys : cmd = Get(k)
  <2>1. PICK k \in Keys : cmd = Get(k)
    BY <1>1
  <2>2. Written /\ FromFrame(request) = {cmd}
    BY <2>1, GetCalled
  <2>3. Carried(cmd, cmd)
    BY <2>1 DEF Carried, Get
  <2> QED
    BY <2>2, <2>3
<1>2. CASE \E k \in Keys, v \in Values : cmd = Publish(k, v)
  <2>1. PICK k \in Keys, v \in Values : cmd = Publish(k, v)
    BY <1>2
  <2>2. Written /\ FromFrame(request) = {cmd}
    BY <2>1, PublishCalled
  <2>3. Carried(cmd, cmd)
    BY <2>1 DEF Carried, Publish
  <2> QED
    BY <2>2, <2>3
<1>3. CASE \E m \in Values \cup {None} : cmd = Ping(m)
  <2>1. PICK m \in Values \cup {None} : cmd = Ping(m)
    BY <1>3
  <2>2. Written /\ FromFrame(request) = {cmd}
    BY <2>1, PingCalled
  <2>3. Carried(cmd, cmd)
    BY <2>1 DEF Carried, Ping
  <2> QED
    BY <2>2, <2>3
<1>4. CASE \E k, l \in Keys : cmd = Subscribe(<<k, l>>)
  <2>1. PICK k, l \in Keys : cmd = Subscribe(<<k, l>>)
    BY <1>4
  <2>2. Written /\ FromFrame(request) = {cmd}
    BY <2>1, SubscribeCalled
  <2>3. Carried(cmd, cmd)
    BY <2>1 DEF Carried, Subscribe
  <2> QED
    BY <2>2, <2>3
<1>5. CASE \E k \in Keys, v \in Values, d \in Expirations \cup {None} : cmd = Set(k, v, d)
  <2>1. PICK k \in Keys, v \in Values, d \in Expirations \cup {None} : cmd = Set(k, v, d)
    BY <1>5
  <2> DEFINE expire == IF d = None THEN None ELSE Millis(d) * Milli
             sent == Set(k, v, expire)
  <2>2. Written /\ FromFrame(request) = {sent}
    BY <2>1, SetCalled
  <2>3. d # None => (d \div Milli <= U64Max => expire <= d /\ expire + Milli > d)
    BY MillisSent, CommandsAssumption
  <2>4. d = None => sent = cmd
    BY <2>1
  <2> HIDE DEF expire
  <2>5. /\ cmd.op = "set" /\ cmd.key = k /\ cmd.value = v /\ cmd.expire = d
        /\ sent.op = "set" /\ sent.expire = expire
    BY <2>1 DEF Set
  <2>6. sent = Set(cmd.key, cmd.value, sent.expire)
    BY <2>5
  <2> HIDE DEF sent
  <2>7. Carried(cmd, sent)
    BY <2>3, <2>4, <2>5, <2>6 DEF Carried
  <2> QED
    BY <2>2, <2>5, <2>7
<1> QED
  BY <1>1, <1>2, <1>3, <1>4, <1>5 DEF Calls

\* What is written for a call is a frame of Written, and no empty array.
CallsWritten == \A cmd \in Calls : request = IntoFrame(cmd) => Written /\ request # Array(<<>>)

\* So it is, as the server reads a command out of it.
LEMMA CallWritten == CallsWritten
<1> SUFFICES ASSUME NEW cmd \in Calls, request = IntoFrame(cmd)
             PROVE  Written /\ request # Array(<<>>)
  BY DEF CallsWritten
<1>1. Written /\ FromFrame(request) # {}
  BY CallRead
<1>2. request.type = "Array" => request.items \in Seq(Parts)
  BY <1>1 DEF Written
<1>3. ASSUME request = Array(<<>>) PROVE request.items = <<>>
  BY <1>3 DEF Array
<1> QED
  BY <1>1, <1>2, <1>3, Nameless

-------------------------------------------------------------------------------
(* The invariant holds.                                                    *)

\* Nothing has been written.
LEMMA InitIInv == Init => IInv
<1> SUFFICES ASSUME Init PROVE IInv
  OBVIOUS
<1>1. request.type = "Array" /\ request.items = <<>> /\ <<>> \in Seq(Parts)
  BY DEF Init, Array
<1>2. Written
  BY <1>1, CommandsAssumption DEF Written
<1> QED
  BY <1>2 DEF Init, IInv, Issued, Served, Refused

\* A program's own array grows by one item.
LEMMA PushKeeps ==
  ASSUME IInv, NEW item \in Heads \cup Tails, Push(item)
  PROVE  IInv'
<1> DEFINE items == request.items
           longer == Append(items, item)
<1>1. items \in Seq(Parts) /\ item \in Parts /\ request.type = "Array"
  BY DEF IInv, Written, Push, Parts
<1>2. request'.type = "Array" /\ request'.items = longer
  BY DEF Push, Array
<1>3. /\ longer \in Seq(Parts) /\ longer # <<>> /\ Len(longer) = Len(items) + 1
      /\ Len(items) \in Nat
      /\ (items = <<>> => longer[1] = item) /\ (items # <<>> => longer[1] = items[1])
  <2> HIDE DEF items
  <2>1. /\ longer \in Seq(Parts) /\ longer # <<>> /\ Len(longer) = Len(items) + 1
        /\ \A i \in 1 .. Len(items) : longer[i] = items[i]
        /\ longer[Len(items) + 1] = item
    BY <1>1, AppendProperties
  <2>2. Len(items) \in Nat /\ (items = <<>> => Len(items) = 0) /\ (items # <<>> => Len(items) >= 1)
    BY <1>1
  <2> HIDE DEF longer
  <2> QED
    BY <2>1, <2>2
<1>4. Len(longer) <= MaxItems
  BY <1>3, CommandsAssumption DEF Push
<1>5. IsText(longer[1]) => Lower(longer[1].data) # None
  <2>1. CASE items = <<>>
    BY <1>3, <2>1, WordsAssumption DEF Push
  <2>2. CASE items # <<>>
    BY <1>1, <1>3, <2>2 DEF IInv, Written
  <2> QED
    BY <2>1, <2>2
<1> HIDE DEF longer
<1>6. Written'
  BY <1>2, <1>3, <1>4, <1>5 DEF Written
<1>7. stage' = "writing" /\ call' = None
  BY DEF Push
<1> QED
  BY <1>6, <1>7 DEF IInv, Issued, Served, Refused

\* A frame that is no array is not read.
LEMMA SendScalarKeeps ==
  ASSUME IInv, NEW frame, SendScalar(frame)
  PROVE  IInv'
<1>1. stage' = "writing" /\ request' = frame /\ frame.type # "Array" /\ call' = call
  BY DEF SendScalar
<1>2. Written'
  BY <1>1 DEF Written
<1>3. call = None
  BY CallWritten DEF CallsWritten, IInv, Issued, SendScalar
<1> QED
  BY <1>1, <1>2, <1>3 DEF IInv, Issued, Served, Refused

\* A call's frame is a frame that may be written.
LEMMA IssueKeeps ==
  ASSUME IInv, NEW cmd \in Calls, Issue(cmd)
  PROVE  IInv'
<1>1. stage' = "writing" /\ call' = cmd /\ request' = IntoFrame(cmd)
  BY DEF Issue
<1>2. CallsWritten'
  BY CallWritten, PTL
<1>3. Written'
  BY <1>1, <1>2 DEF CallsWritten
<1> QED
  BY <1>1, <1>3 DEF IInv, Issued, Served, Refused

\* The server's answer leaves the request as it is.
LEMMA ServerKeeps ==
  ASSUME IInv, Refuse \/ Apply \/ EnterSubscribed
  PROVE  IInv'
<1>1. request' = request /\ call' = call
  BY DEF Refuse, Apply, EnterSubscribed
<1>2. Written' /\ Issued'
  BY <1>1 DEF IInv, Written, Issued
<1>3. CASE Refuse
  BY <1>2, <1>3 DEF Refuse, IInv, Served, Refused
<1>4. CASE Apply
  <2>1. PICK cmd \in FromFrame(request) :
          /\ cmd.op \notin {"subscribe", "unsubscribe"}
          /\ command' = cmd
          /\ \E answer \in Answers(cmd) : found' = answer /\ reply' = ReplyTo(cmd, answer)
    BY <1>4 DEF Apply
  <2>2. found' \in Answers(command') /\ reply' = ReplyTo(command', found')
    BY <2>1
  <2>3. Served'
    BY <1>1, <2>1, <2>2 DEF Served
  <2> QED
    BY <1>2, <1>4, <2>3 DEF Apply, IInv, Refused
<1>5. CASE EnterSubscribed
  <2>1. PICK cmd \in FromFrame(request) : cmd.op = "subscribe" /\ command' = cmd
    BY <1>5 DEF EnterSubscribed
  <2>2. Served'
    BY <1>1, <2>1 DEF Served
  <2> QED
    BY <1>2, <1>5, <2>2 DEF EnterSubscribed, IInv, Refused
<1> QED
  BY <1>3, <1>4, <1>5

\* Every step keeps the invariant.
LEMMA Step == IInv /\ [Next]_vars => IInv'
<1> SUFFICES ASSUME IInv, [Next]_vars PROVE IInv'
  OBVIOUS
<1>1. CASE \E item \in Heads \cup Tails : Push(item)
  BY <1>1, PushKeeps
<1>2. CASE \E item \in Heads \cup Tails : SendScalar(item)
  BY <1>2, SendScalarKeeps
<1>3. CASE \E cmd \in Calls : Issue(cmd)
  BY <1>3, IssueKeeps
<1>4. CASE Refuse \/ Apply \/ EnterSubscribed
  BY <1>4, ServerKeeps
<1>5. CASE UNCHANGED vars
  BY <1>5 DEF vars, IInv, Written, Issued, Served, Refused
<1> QED
  BY <1>1, <1>2, <1>3, <1>4, <1>5 DEF Next

\* Throughout an exchange, a request is an array a program or the client writes,
\* and what the server answers and carries out is what Command::from_frame
\* (src/cmd/mod.rs) reads out of it.
THEOREM Invariance == Spec => []IInv
<1>1. Init => IInv
  BY InitIInv
<1>2. IInv /\ [Next]_vars => IInv'
  BY Step
<1> QED
  BY <1>1, <1>2, PTL DEF Spec

-------------------------------------------------------------------------------
(* The properties.                                                         *)

\* What is served was in its format, what is refused was not.
LEMMA ReadInFormat == IInv => ReadsTheFormats
<1> SUFFICES ASSUME IInv PROVE ReadsTheFormats
  OBVIOUS
<1>1. /\ FromFrame(request) = {} => Name = None \/ (Name \in DOMAIN Formats /\ ~InFormat)
      /\ command \in FromFrame(request) =>
           /\ Name # None
           /\ command.op = (IF Name \in DOMAIN Formats THEN Name ELSE "unknown")
           /\ Name \in DOMAIN Formats => InFormat /\ FieldsRead
  BY Reading DEF IInv
<1>2. ASSUME stage = "replied"
      PROVE  /\ Name \notin {None, "unsubscribe"}
             /\ command.op = (IF Name \in DOMAIN Formats THEN Name ELSE "unknown")
             /\ Name \in DOMAIN Formats => InFormat /\ FieldsRead
  <2>1. command \in FromFrame(request) /\ command.op # "unsubscribe"
    BY <1>2 DEF IInv, Served
  <2>2. "unsubscribe" \in DOMAIN Formats
    BY Documented
  <2> QED
    BY <1>1, <2>1, <2>2
<1>3. ASSUME stage = "closed", FromFrame(request) # {}, Name # None
      PROVE  Name = "unsubscribe"
  <2>1. PICK cmd \in FromFrame(request) : cmd.op = "unsubscribe"
    BY <1>3 DEF IInv, Refused
  <2>2. NamedRequest
    BY <1>3, Nameless DEF IInv, Written, NamedRequest
  <2>3. CASE Name \in DOMAIN Formats
    BY <2>1, <2>2, <2>3, Operations
  <2>4. CASE Name \notin DOMAIN Formats
    <3>1. FromFrame(request) = {Unknown}
      BY <2>2, <2>4, Named, Documented DEF NamedRequest
    <3> QED
      BY <2>1, <3>1 DEF Unknown
  <2> QED
    BY <2>3, <2>4
<1>4. stage = "closed" => Name \in {None, "unsubscribe"} \/ (Name \in DOMAIN Formats /\ ~InFormat)
  BY <1>1, <1>3
<1> QED
  BY <1>2, <1>4 DEF ReadsTheFormats

\* What the client makes of the reply to its call.
LEMMA ReplyRead ==
  ASSUME NEW cmd \in Calls, NEW sent, Carried(cmd, sent), sent.op = cmd.op, cmd.op # "subscribe",
         NEW answer \in Answers(sent)
  PROVE  Result(cmd, ReplyTo(sent, answer)) =
           Returns(CASE cmd.op = "ping" -> IF cmd.msg = None THEN "PONG" ELSE cmd.msg
                     [] OTHER -> answer)
<1>1. CASE cmd.op = "get"
  BY <1>1 DEF Result, ReplyTo, GetReply, GetResult, IsBytes, Null, Bulk
<1>2. CASE cmd.op = "publish"
  BY <1>2 DEF Result, ReplyTo, PublishReply, PublishResult, Integer
<1>3. CASE cmd.op = "set"
  <2>1. answer = None
    BY <1>3 DEF Answers
  <2> QED
    BY <1>3, <2>1 DEF Result, ReplyTo, SetReply, SetResult
<1>4. CASE cmd.op = "ping"
  <2>1. sent = cmd
    BY <1>4 DEF Carried
  <2> QED
    BY <1>4, <2>1 DEF Result, ReplyTo, PingReply, PingResult, IsBytes, Simple, Bulk
<1>5. cmd.op \in {"get", "publish", "set", "ping"}
  BY DEF Calls, Get, Set, Publish, Ping, Subscribe
<1> QED
  BY <1>1, <1>2, <1>3, <1>4, <1>5

\* What is served was called, and what is returned was found.
LEMMA CarriedAndReturned == IInv => ServedAsCalled
<1> SUFFICES ASSUME IInv, call # None PROVE ServedAsCalled
  BY DEF ServedAsCalled
<1>1. call \in Calls /\ request = IntoFrame(call)
  BY DEF IInv, Issued
<1>2. PICK sent : FromFrame(request) = {sent} /\ sent.op = call.op /\ Carried(call, sent)
  BY <1>1, CallRead
<1>3. call.op # "unsubscribe"
  BY <1>1 DEF Calls, Get, Set, Publish, Ping, Subscribe
<1>4. stage # "closed"
  BY <1>2, <1>3 DEF IInv, Refused
<1>5. ASSUME stage = "replied"
      PROVE  Carried(call, command) /\ sent = command
  BY <1>2, <1>5 DEF IInv, Served
<1>6. ASSUME stage = "replied", call.op # "subscribe"
      PROVE  Result(call, reply) =
              Returns(CASE call.op = "ping" -> IF call.msg = None THEN "PONG" ELSE call.msg
                        [] OTHER -> found)
  <2>1. found \in Answers(command) /\ reply = ReplyTo(command, found)
    BY <1>2, <1>5, <1>6 DEF IInv, Served
  <2>2. command.op = call.op /\ Carried(call, command)
    BY <1>2, <1>5, <1>6
  <2> QED
    BY <1>1, <1>6, <2>1, <2>2, ReplyRead
<1> QED
  BY <1>4, <1>5, <1>6 DEF ServedAsCalled, Carried

\* Whatever arrays a program sends, of whatever items and length, the server carries
\* out exactly the requests in the documented format of their command and refuses
\* the rest (Command::from_frame in src/cmd/mod.rs, the cursor of src/parse.rs).
THEOREM FormatsCorrect == Spec => []ReadsTheFormats
BY Invariance, ReadInFormat, PTL

\* For any keys, values and durations, the server carries out what a client calls
\* and the client returns what the server found, the expiration cut to the
\* millisecond (into_frame and from_frame in src/cmd/, src/clients/client.rs).
THEOREM CallsCorrect == Spec => []ServedAsCalled
BY Invariance, CarriedAndReturned, PTL

===============================================================================
