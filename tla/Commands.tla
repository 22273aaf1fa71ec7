------------------------------- MODULE Commands -------------------------------
(***************************************************************************)
(* The commands of src/cmd/ as arrays of frames: what the server makes of  *)
(* a frame (src/parse.rs, Command::from_frame), what the client writes for *)
(* a call and makes of the reply (src/clients/client.rs), and one exchange *)
(* between the server and its client or any other program.                 *)
(*                                                                         *)
(* Data are members of small sets.  A text with capitals is in Capitals, a *)
(* text that begins with a number in Numerals.  Durations are counted in a *)
(* unit finer than a millisecond.                                          *)
(***************************************************************************)
EXTENDS Naturals, Sequences

CONSTANTS
  Heads, Tails,  \* the frames another program puts in its arrays: first, later
  MaxItems,      \* bound of the model: the length of an array, at least that of the
                 \* longest one a client writes
  Keys,          \* the keys and channels of the client's calls, UTF-8
  Values,        \* their values and messages
  Expirations,   \* their expirations, in the unit of Durations
  NotUtf8,       \* data that are no text
  Capitals,      \* the lower case of each text that has capitals
  Numerals,      \* the number each text that starts with one starts with
  Milli, Second, \* a millisecond and a second, in the unit of Durations
  U64Max,
  None

ASSUME CommandsAssumption ==
  /\ MaxItems \in Nat /\ MaxItems >= 5
  /\ Milli \in Nat \ {0}
  /\ Second \in Nat
  /\ U64Max \in Nat
  /\ Expirations \subseteq Nat
  /\ Keys \cap NotUtf8 = {}

VARIABLES
  stage,    \* "writing", "replied" or "closed"
  request,  \* the frame the server is sent
  call,     \* the client's call it comes from, None with any other program
  command,  \* what the server has read out of it, None before, or when it is none
  found,    \* what the database answered: a value, a number of receivers
  reply     \* the frame the server has answered with, or None

vars == <<stage, request, call, command, found, reply>>

-------------------------------------------------------------------------------
(* Frames, and the cursor of src/parse.rs on the items of an array.        *)

Simple(text) == [type |-> "Simple", data |-> text]
Error        == [type |-> "Error"]
Integer(n)   == [type |-> "Integer", n |-> n]
Bulk(data)   == [type |-> "Bulk", data |-> data]
Null         == [type |-> "Null"]
Array(items) == [type |-> "Array", items |-> items]

Ok(val, rest) == [tag |-> "Ok", val |-> val, rest |-> rest]
EndOfStream   == [tag |-> "EndOfStream"]
Other         == [tag |-> "Other"]

IsText(f)  == f.type = "Simple" \/ (f.type = "Bulk" /\ f.data \notin NotUtf8)
IsBytes(f) == f.type \in {"Simple", "Bulk"}

\* The crate atoi for u64: the number a text starts with.
Atoi(data) ==
  IF data \in DOMAIN Numerals /\ Numerals[data] <= U64Max THEN {Numerals[data]} ELSE {}

\* The number a frame can be read as, as a set: empty if there is none.
Number(f) ==
  IF f.type = "Integer" THEN {f.n} ELSE IF IsBytes(f) THEN Atoi(f.data) ELSE {}

NextString(parts) ==
  IF parts = <<>> THEN EndOfStream
  ELSE IF IsText(Head(parts)) THEN Ok(Head(parts).data, Tail(parts)) ELSE Other

NextBytes(parts) ==
  IF parts = <<>> THEN EndOfStream
  ELSE IF IsBytes(Head(parts)) THEN Ok(Head(parts).data, Tail(parts)) ELSE Other

NextInt(parts) ==
  IF parts = <<>> THEN EndOfStream
  ELSE IF Number(Head(parts)) = {} THEN Other
  ELSE Ok(CHOOSE n \in Number(Head(parts)) : TRUE, Tail(parts))

Lower(text) == IF text \in DOMAIN Capitals THEN Capitals[text] ELSE text

\* The words the client writes are lower case and UTF-8, and None is no text.
Words == {"get", "set", "px", "publish", "ping", "subscribe"}

ASSUME WordsAssumption ==
  /\ Words \cap (DOMAIN Capitals \cup NotUtf8 \cup {None}) = {}
  /\ \A item \in Heads : IsText(item) => Lower(item.data) # None

-------------------------------------------------------------------------------
(* The commands, and how the server reads them.                            *)

Get(key)                == [op |-> "get", key |-> key]
Set(key, value, expire) == [op |-> "set", key |-> key, value |-> value, expire |-> expire]
Publish(key, value)     == [op |-> "publish", key |-> key, value |-> value]
Ping(msg)               == [op |-> "ping", msg |-> msg]
Subscribe(channels)     == [op |-> "subscribe", channels |-> channels]
Unsubscribe(channels)   == [op |-> "unsubscribe", channels |-> channels]
Unknown                 == [op |-> "unknown"]

ParseGet(parts) ==
  LET key == NextString(parts)
  IN  IF key.tag # "Ok" THEN key ELSE Ok(Get(key.val), key.rest)

ParsePublish(parts) ==
  LET channel == NextString(parts)
      message == NextBytes(channel.rest)
  IN  IF channel.tag # "Ok" THEN channel
      ELSE IF message.tag # "Ok" THEN message
      ELSE Ok(Publish(channel.val, message.val), message.rest)

\* The arguments EX and PX, in any case.
Unit == [ex |-> Second, px |-> Milli]

ParseSet(parts) ==
  LET key    == NextString(parts)
      value  == NextBytes(key.rest)
      option == NextString(value.rest)
      number == NextInt(option.rest)
  IN  IF key.tag # "Ok" THEN key
      ELSE IF value.tag # "Ok" THEN value
      ELSE IF option.tag = "EndOfStream" THEN Ok(Set(key.val, value.val, None), <<>>)
      ELSE IF option.tag # "Ok" THEN option
      ELSE IF Lower(option.val) \notin DOMAIN Unit THEN Other
      ELSE IF number.tag # "Ok" THEN number
      ELSE Ok(Set(key.val, value.val, number.val * Unit[Lower(option.val)]), number.rest)

\* The loop of SUBSCRIBE and UNSUBSCRIBE: every item left is a channel.
Channels(parts) == [i \in DOMAIN parts |-> parts[i].data]

ParseSubscribe(parts) ==
  IF parts = <<>> THEN EndOfStream
  ELSE IF \A i \in DOMAIN parts : IsText(parts[i]) THEN Ok(Subscribe(Channels(parts)), <<>>)
  ELSE Other

ParseUnsubscribe(parts) ==
  IF \A i \in DOMAIN parts : IsText(parts[i]) THEN Ok(Unsubscribe(Channels(parts)), <<>>)
  ELSE Other

ParsePing(parts) ==
  LET msg == NextBytes(parts)
  IN  IF msg.tag = "EndOfStream" THEN Ok(Ping(None), <<>>)
      ELSE IF msg.tag # "Ok" THEN msg ELSE Ok(Ping(msg.val), msg.rest)

\* Mutant: what follows the command's fields is not looked at.
FinishAnyway(parsed) == IF parsed.tag = "Ok" THEN {parsed.val} ELSE {}

\* finish(): nothing follows the command's fields.  An error of any kind ends the
\* connection, so the result is the command or none.
Finish(parsed) == IF parsed.tag = "Ok" /\ parsed.rest = <<>> THEN {parsed.val} ELSE {}

\* Command::from_frame.
FromFrame(frame) ==
  IF frame.type # "Array" THEN {} ELSE
  LET name == NextString(frame.items)
  IN  IF name.tag # "Ok" THEN {} ELSE
      CASE Lower(name.val) = "get" -> Finish(ParseGet(name.rest))
        [] Lower(name.val) = "publish" -> Finish(ParsePublish(name.rest))
        [] Lower(name.val) = "set" -> Finish(ParseSet(name.rest))
        [] Lower(name.val) = "subscribe" -> Finish(ParseSubscribe(name.rest))
        [] Lower(name.val) = "unsubscribe" -> Finish(ParseUnsubscribe(name.rest))
        [] Lower(name.val) = "ping" -> Finish(ParsePing(name.rest))
        [] OTHER -> {Unknown}

-------------------------------------------------------------------------------
(* The client's half.                                                      *)

\* as_millis() as u64, which drops what does not fit in 64 bits.
Millis(duration) == (duration \div Milli) % (U64Max + 1)

\* Mutant: the milliseconds are sent as seconds.
SetFrameSeconds(cmd) ==
  <<Bulk("set"), Bulk(cmd.key), Bulk(cmd.value)>> \o
    (IF cmd.expire = None THEN <<>> ELSE <<Bulk("ex"), Integer(Millis(cmd.expire))>>)

SetFrame(cmd) ==
  <<Bulk("set"), Bulk(cmd.key), Bulk(cmd.value)>> \o
    (IF cmd.expire = None THEN <<>> ELSE <<Bulk("px"), Integer(Millis(cmd.expire))>>)

GetFrame(cmd)     == <<Bulk("get"), Bulk(cmd.key)>>
PublishFrame(cmd) == <<Bulk("publish"), Bulk(cmd.key), Bulk(cmd.value)>>
PingFrame(cmd)    == <<Bulk("ping")>> \o (IF cmd.msg = None THEN <<>> ELSE <<Bulk(cmd.msg)>>)

SubscribeFrame(cmd) ==
  <<Bulk("subscribe")>> \o [i \in DOMAIN cmd.channels |-> Bulk(cmd.channels[i])]

\* into_frame() of the commands a Client calls.
IntoFrame(cmd) ==
  Array(CASE cmd.op = "get" -> GetFrame(cmd)
          [] cmd.op = "set" -> SetFrame(cmd)
          [] cmd.op = "publish" -> PublishFrame(cmd)
          [] cmd.op = "ping" -> PingFrame(cmd)
          [] cmd.op = "subscribe" -> SubscribeFrame(cmd))

Calls ==
  {Get(k) : k \in Keys}
    \cup {Set(k, v, d) : k \in Keys, v \in Values, d \in Expirations \cup {None}}
    \cup {Publish(k, v) : k \in Keys, v \in Values}
    \cup {Ping(m) : m \in Values \cup {None}}
    \cup {Subscribe(<<k, l>>) : k, l \in Keys}

Failed == [tag |-> "Err"]
Returns(val) == [tag |-> "Ok", val |-> val]

\* What ping, get, set_cmd and publish return for the frame read_response() reads.
PingResult(frame) == IF IsBytes(frame) THEN Returns(frame.data) ELSE Failed

GetResult(frame) ==
  IF IsBytes(frame) THEN Returns(frame.data)
  ELSE IF frame.type = "Null" THEN Returns(None) ELSE Failed

SetResult(frame) == IF frame = Simple("OK") THEN Returns(None) ELSE Failed

PublishResult(frame) == IF frame.type = "Integer" THEN Returns(frame.n) ELSE Failed

Result(cmd, frame) ==
  CASE cmd.op = "get" -> GetResult(frame)
    [] cmd.op = "ping" -> PingResult(frame)
    [] cmd.op = "set" -> SetResult(frame)
    [] cmd.op = "publish" -> PublishResult(frame)

-------------------------------------------------------------------------------
(* One exchange.                                                           *)

Init ==
  /\ stage = "writing"
  /\ request = Array(<<>>)
  /\ call = None
  /\ command = None
  /\ found = None
  /\ reply = None

\* A program writes an array, item by item.
Push(item) ==
  /\ stage = "writing"
  /\ call = None
  /\ request.type = "Array"
  /\ Len(request.items) < MaxItems
  /\ item \in IF request.items = <<>> THEN Heads ELSE Tails
  /\ request' = Array(Append(request.items, item))
  /\ UNCHANGED <<stage, call, command, found, reply>>

\* It sends a frame that is no array.
SendScalar(frame) ==
  /\ stage = "writing"
  /\ frame.type # "Array"
  /\ request = Array(<<>>)
  /\ request' = frame
  /\ UNCHANGED <<stage, call, command, found, reply>>

\* The client writes the frame of a call.
Issue(cmd) ==
  /\ stage = "writing"
  /\ request = Array(<<>>)
  /\ call' = cmd
  /\ request' = IntoFrame(cmd)
  /\ UNCHANGED <<stage, command, found, reply>>

\* from_frame() fails, or UNSUBSCRIBE is no command here: the connection ends.
Refuse ==
  /\ stage = "writing"
  /\ \A cmd \in FromFrame(request) : cmd.op = "unsubscribe"
  /\ stage' = "closed"
  /\ UNCHANGED <<request, call, command, found, reply>>

\* The replies of the commands' apply(), with what Db::get or Db::publish answered.
GetReply(value)  == IF value = None THEN Null ELSE Bulk(value)
SetReply         == Simple("OK")
PublishReply(n)  == Integer(n)
PingReply(cmd)   == IF cmd.msg = None THEN Simple("PONG") ELSE Bulk(cmd.msg)
UnknownReply     == Error

ReplyTo(cmd, answer) ==
  CASE cmd.op = "get" -> GetReply(answer)
    [] cmd.op = "set" -> SetReply
    [] cmd.op = "publish" -> PublishReply(answer)
    [] cmd.op = "ping" -> PingReply(cmd)
    [] cmd.op = "unknown" -> UnknownReply

\* What the database may answer.
Answers(cmd) ==
  CASE cmd.op = "get" -> Values \cup {None}
    [] cmd.op = "publish" -> {0, 1}
    [] OTHER -> {None}

\* Command::apply, but for SUBSCRIBE, which is module PubSub's.
Apply ==
  /\ stage = "writing"
  /\ \E cmd \in FromFrame(request) :
       /\ cmd.op \notin {"subscribe", "unsubscribe"}
       /\ command' = cmd
       /\ \E answer \in Answers(cmd) :
            /\ found' = answer
            /\ reply' = ReplyTo(cmd, answer)
  /\ stage' = "replied"
  /\ UNCHANGED <<request, call>>

EnterSubscribed ==
  /\ stage = "writing"
  /\ \E cmd \in FromFrame(request) :
       /\ cmd.op = "subscribe"
       /\ command' = cmd
  /\ stage' = "replied"
  /\ UNCHANGED <<request, call, found, reply>>

Next ==
  \/ \E item \in Heads \cup Tails : Push(item) \/ SendScalar(item)
  \/ \E cmd \in Calls : Issue(cmd)
  \/ Refuse
  \/ Apply
  \/ EnterSubscribed

Spec == Init /\ [][Next]_vars

-------------------------------------------------------------------------------
(* Properties.                                                             *)

\* The formats of the documentation: "GET key", "SET key value [EX seconds|PX
\* milliseconds]", "PUBLISH channel message", "PING [message]", "SUBSCRIBE channel
\* [channel ...]", "UNSUBSCRIBE [channel [channel ...]]".
Texts(n) == [i \in 1 .. n |-> "text"]

Formats ==
  [get         |-> {<<"text">>},
   set         |-> {<<"text", "bytes">>, <<"text", "bytes", "unit", "number">>},
   publish     |-> {<<"text", "bytes">>},
   ping        |-> {<<>>, <<"bytes">>},
   subscribe   |-> {Texts(n) : n \in 1 .. MaxItems},
   unsubscribe |-> {Texts(n) : n \in 0 .. MaxItems}]

Fits(item, kind) ==
  CASE kind = "text"   -> IsText(item)
    [] kind = "bytes"  -> IsBytes(item)
    [] kind = "unit"   -> IsText(item) /\ Lower(item.data) \in {"ex", "px"}
    [] kind = "number" -> Number(item) # {}

\* The name a request begins with, None if there is none to read.
Name ==
  IF request.type # "Array" \/ request.items = <<>> THEN None
  ELSE IF IsText(request.items[1]) THEN Lower(request.items[1].data) ELSE None

\* The items after the name are those a format asks for.
Matches(items, format) ==
  /\ Len(format) = Len(items) - 1
  /\ \A i \in DOMAIN format : Fits(items[i + 1], format[i])

InFormat == \E format \in Formats[Name] : Matches(request.items, format)

\* The fields of the command are the items the format gives them.
FieldsRead ==
  LET items == request.items
  IN  CASE command.op = "set" ->
             /\ command.key = items[2].data
             /\ command.value = items[3].data
             /\ IF Len(items) = 3 THEN command.expire = None
                ELSE \E n \in Number(items[5]) :
                       command.expire = n * (IF Lower(items[4].data) = "ex" THEN Second ELSE Milli)
        [] command.op = "publish" ->
             command.key = items[2].data /\ command.value = items[3].data
        [] command.op = "get" -> command.key = items[2].data
        [] command.op = "ping" -> command.msg = (IF Len(items) = 1 THEN None ELSE items[2].data)
        [] command.op = "subscribe" ->
             command.channels = [i \in 1 .. Len(items) - 1 |-> items[i + 1].data]
        [] OTHER -> TRUE

\* Whatever a program sends, the server carries out exactly the requests that are
\* in the format of their command, with the fields the format gives, answers any
\* other name with an error, and ends the connection of the rest: nothing is served
\* with an item too many, one missing or one of the wrong kind.
ReadsTheFormats ==
  /\ stage = "replied" =>
       /\ Name \notin {None, "unsubscribe"}
       /\ command.op = (IF Name \in DOMAIN Formats THEN Name ELSE "unknown")
       /\ Name \in DOMAIN Formats => InFormat /\ FieldsRead
  /\ stage = "closed" => Name \in {None, "unsubscribe"} \/ (Name \in DOMAIN Formats /\ ~InFormat)

\* The server carries out what a client calls, and the client returns what the
\* server found: no call is refused, a field is lost or changed, or a reply taken
\* for an error or for another.  Only an expiration changes on its way: it is cut
\* to the millisecond, as long as its milliseconds fit in 64 bits.
ServedAsCalled ==
  call # None =>
    /\ stage # "closed"
    /\ stage = "replied" =>
         /\ IF call.op = "set" /\ call.expire # None
            THEN /\ command = Set(call.key, call.value, command.expire)
                 /\ call.expire \div Milli <= U64Max =>
                      /\ command.expire <= call.expire
                      /\ command.expire + Milli > call.expire
            ELSE command = call
         /\ call.op # "subscribe" => Result(call, reply) =
              Returns(CASE call.op = "ping" -> IF call.msg = None THEN "PONG" ELSE call.msg
                        [] OTHER -> found)
===============================================================================
