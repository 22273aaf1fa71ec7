# A TLA+ development of mini-redis

TLA+ modules for the server of this repository, the TLC runs that check them on
small instances, and theorems about them checked by TLAPS. Line numbers refer
to the sources under `src/src/`.

## 1. The system

mini-redis is one process. `server::run` owns a listener and spawns one tokio
task per connection; all tasks share one `Db` behind a `std::sync::Mutex`.

| Component | State | Operations | Interacts with |
|---|---|---|---|
| **Key-value store** (`db.rs`, `cmd/get.rs`, `cmd/set.rs`) | `entries`, `expirations` (the index of deadlines), `shutdown`, a `Notify` | `get`, `set`, the purge task, `shutdown_purge_task` | handlers call it under the lock; `DbDropGuard` stops the purge task |
| **Publish/subscribe** (`db.rs`, `cmd/subscribe.rs`, `cmd/publish.rs`) | one tokio broadcast channel per name; a `StreamMap` per subscriber | `publish`, `subscribe`, `Subscribe::apply` with further SUBSCRIBE/UNSUBSCRIBE | handlers; the broadcast channels are shared state |
| **Server** (`server.rs`, `shutdown.rs`) | semaphore, the resources of each handler, shutdown channels | accept with back off, `Handler::run`, graceful shutdown | owns the `DbDropGuard`, gives each handler a `Db` |
| **Connection and frames** (`connection.rs`, `frame.rs`) | read buffer | `read_frame`, `write_frame`, `check`, `parse` | handlers and clients |
| **Commands** (`parse.rs`, `cmd/*.rs`) | none | frame to command and back | handlers and clients |
| **Client, Subscriber** (`clients/client.rs`) | a connection, the list of subscribed channels | get, set, publish, subscribe, unsubscribe, next message | the server, over TCP |
| **BufferedClient** (`clients/buffered_client.rs`) | a queue of 32 requests | get, set | a `Client` in a task of its own |
| **BlockingClient**, binaries, examples | none of their own | | |

What is hard:

- **The wake-up protocol of the purge task.** Whether a SET must wake the task is
  decided under the lock, the notification is sent after it, and the task reads
  the shutdown flag, purges and waits in three separate steps.
- **Two structures, one truth.** `entries` and `expirations` change together in
  three places and nothing but the order of statements keeps them in step.
- **Who drops what, when.** The connection limit and the shutdown rest on Rust's
  drop order: the permit before the handler, the fields of `Handler` in the order
  of their declaration, `server::run`'s own senders before `recv()`.
- **Slow or silent peers.** A subscriber that lags loses messages; a peer that
  does not read holds its handler in `write_frame`.
- **Panics.** A panic under the lock poisons it for everyone.
- **Positions for names.** No frame names the request it answers: both clients take the
  next frame for the answer to their last request, while other tasks give up their
  calls and, in subscribed mode, the server sends messages of its own.
- **Two lists of subscriptions.** The client's and the server's are kept apart, and the
  number of confirmations a call awaits is computed from the client's.

What makes each component correct: the index agrees with the entries, no key
vanishes early, one whose deadline has come does vanish, and the purge task
exits at shutdown (store); no permit is lost or made up, at most
`MAX_CONNECTIONS` handlers serve, `server::run` returns after a shutdown and
outlives every user of the database (server); a client is shown messages once, in
order and only of channels it has been told it is subscribed to, and it catches up
(publish/subscribe); decoding does not depend on how bytes are chunked (frames); an
answer goes to the request it belongs to, and a call returns (clients); what is
carried out is what was sent, and nothing that is not in the format of its command
(commands).

`PROJECT.json` lists the hazards line by line, with the properties that cover them.

### The sources at this commit

The repository does not compile as it stands: the signature of `Db::new`
(`db.rs:110-111`) and those of four functions of `parse.rs` are missing, and
`push_int` is called (`set.rs:156`, `subscribe.rs:258, 267`) where `frame.rs:55`
defines `push_integer`. The bodies are there, and the modules model them; a
function without a signature is taken to have the one its callers need.

Two comments describe another implementation of the same idea and are not
followed: `shutdown.rs:5-7` and `server.rs:38-41` say a `()` value is broadcast,
while the code drops the sender and every `recv()` returns with an error it
ignores. The documentation examples of `client.rs:234-238` and
`blocking_client.rs:166-170` expect a value after its time to live, against
`tests/server.rs:105-119`.

## 2. The modules

| Module | Models | Notes |
|---|---|---|
| `ExpiringStore` | what a store with deadlines promises | abstract |
| `Db` | `db.rs`, key-value half and purge task | implements `ExpiringStore` |
| `DbProofs` | theorems about `Db` | TLAPS |
| `Server` | `server.rs`, `shutdown.rs` | |
| `System` | `Server` with `Db` inside | composes the two, implements both |
| `SystemProofs` | theorems about `Server` and `System` | TLAPS |
| `Feed` | what publish/subscribe promises a client | abstract |
| `PubSub` | `db.rs`, publish/subscribe half, `cmd/subscribe.rs` | implements `Feed` |
| `Subsequence` | what `Vec::retain` leaves of a list | operators |
| `SequenceLemmas` | induction, recursion, and facts about sequences | TLAPS |
| `SubscriberClient` | `Client::subscribe` and `Subscriber` of `clients/client.rs` | `PubSub` with the client at the other end |
| `SubscriberProofs` | theorems about `PubSub` and `SubscriberClient` | TLAPS, uses `SequenceLemmas` |
| `Commands` | `parse.rs`, `Command::from_frame`, fields, frames and replies of `cmd/*.rs`, the calls of `Client` | |
| `CommandsProofs` | theorems about `Commands` | TLAPS |
| `Frame` | `frame.rs` and the pure half of `connection.rs`: `check`, `parse`, `parse_frame`, the encoding | operators |
| `Decoder` | `parse_frame` on every buffer a peer can fill | uses `Frame` |
| `Connection` | `connection.rs`: a stream of frames from one peer to the other | uses `Frame` |
| `CodecProofs` | lemmas about `Frame`, and that decoding inverts encoding | TLAPS, uses `SequenceLemmas` |
| `ConnectionProofs` | theorems about `Connection` and `Decoder` | TLAPS, uses `CodecProofs` |
| `CallStore` | what a shared client promises its callers | abstract |
| `BufferedClient` | `clients/buffered_client.rs`, with `get`, `set`, `read_response` of `client.rs` | implements `CallStore` |
| `BufferedClientProofs` | theorems about `BufferedClient` | TLAPS, uses `SequenceLemmas` |
| `MCDb`, `MCServer`, `MCSystem`, `MCPubSub`, `MCSubscriber`, `MCCommands`, `MCConnection`, `MCBufferedClient` | instances for TLC | |

Each module starts with its variables and the code they stand for. Definitions
marked *Mutant* are not part of the model: each is a plausible bug in the definition
that follows it, and shows that the property named with it in `PROJECT.json`
tells the difference.

### Db

`entries` is a function from keys to entries or `None`, `expirations` a set of
(deadline, key) pairs; the `BTreeSet`'s order appears as quantifiers over the
set. What an operation does under the lock is one action. `NotifyPurger` and
`NotifyShutdown` are the notifications sent after the lock is released, and the
purge task has a step per lock or await: `CheckShutdown`, `PurgeExpiredKeys` or
`PurgeShutDown`, then `WakeByTimer` or `WakeByNotify`. A state "sleep" or "idle" of
the task covers the moment before its future is polled: the permit of `Notify` is
stored, so the two cannot be told apart. `SetOverflow` and `LockPanics` are the panics. Time
is discrete; the deadline `now + duration` is out of range beyond `MaxInstant`.

The tasks are the handlers of `Server`, reduced to what they do to the store between `OpenTask`,
the clone of the handle, and `CloseTask`, its drop. `ReleaseGuard` is the drop of the
`DbDropGuard`; `DropGuard` takes for granted that no task has a handle then, and `System` discharges it.

### Server

A connection is in the kernel's backlog, served, or over; a served one is reading,
applying a command, or in subscribed mode (`subscribed`, and `replying` while it
writes). `holds[c]` is what its task owns: the permit captured by the task and the
fields of `Handler`. `Drop` gives them up one by one in the order `MayDrop`
allows, so that other tasks can act between any two drops. `phase` follows `server::run`: the
`select!`, the two drops, `recv()`, the return that drops the `DbDropGuard`. The
listener's future is dropped by the `select!` with the permit it may own. A peer
is open, stalled (it does not read) or closed; `Disconnect` is the moment at which its end shows, when
what it sent before has been read. `ReadPanics` and `ApplyPanics` are the two places a handler may panic in, the frame reader
(as at `frame.rs:88`, `len + 2` where overflow is checked; `Frame` has them all) and a command. `ApplyFails` needs a peer that reads or is gone, as a response
is being written; `ApplyRefuses`, an UNSUBSCRIBE outside subscribed mode, writes nothing and is possible at any time.
No fairness forces it, since nothing makes a client send that command.

### System

`System` extends `Server` and instantiates `Db` with the connections as tasks. A step that
concerns both is one step of each: `Accept` opens a task (`Open`), the drop of the
handler's `db` closes it (`Release`), a panic under the lock is `ApplyPanics` (`Panic`). A panic
in the frame reader (`ReadPanics`) does not touch the database, and the handle is closed when the task unwinds. `due` holds the
handlers that have read a command: `Execute` carries it out, any GET or SET in `applying`, and
nothing on the keys for the other commands, before the reply is written (`Reply`) or refused (`Refuse`). `DropListener` is the
end of `server::run`, and has no condition on handlers: that none has a handle then is a
consequence of the order of drops.

### PubSub

A message is its position in its channel. A tokio broadcast channel is the
number of messages sent on it, `tail`, and the position each receiver reads next; a
receiver more than `Capacity` behind resumes at the oldest message retained, which
is what `Lagged` followed by another `recv()` does. `Db::subscribe` and the insertion into the
`StreamMap` are two steps, because others publish in between; each `write_frame` is
one, and while it is under way (`out`) the task does nothing else. `told`, `due` and
`received` record what the client knows from the frames it has read. PUBLISH's
answer is the number of receivers (`Receivers`).

### SubscriberClient

Requests travel to the server in `requests`, and the frames `PubSub` writes to the client
in `inbound`, both in order. `client` is where the program is: it owns a `Client`, awaits
`Client::subscribe` (`joining`), or has a `Subscriber`. A call writes its command, then reads `left`
confirmations one by one (`ReadSubscribed`, `ReadUnsubscribed`) and returns. Any frame that is not the
confirmation it awaits makes it fail; what it has not read stays in the socket. On a connection the server
has closed, the write of a call fails (`WriteFails`), or its read once the frames still there are read (`CallFails`). `Abandon` drops the
future of a call. `listed` is `subscribed_channels`: extended when a subscribe
returns, cut at each confirmation of an unsubscribe. `GoesOn` says whether the program uses a `Subscriber`
after a failed call, which the types allow. `MaxList` of 2 includes lists that name a channel twice, and
the empty list, which ends the connection in SUBSCRIBE and means all channels in UNSUBSCRIBE.

### Commands

A frame's content is a member of a small set. `Numerals` and `Capitals` say what `atoi` reads of a
text and what its lower case is; `"7x"` is a number to `atoi`, `"99"` is one that does not fit
(`U64Max` is 19). The cursor of `parse.rs` is the sequence of the items left: `NextString`, `NextBytes` and
`NextInt` return the value and the rest, or which of the two errors it is, as the optional fields of SET and PING and
the loops of SUBSCRIBE depend on it. Durations are counted in halves of a millisecond, so that the cut in
`as_millis()` shows. `Push` lets any program write any array; `Issue` is a call of a `Client`. What
PING, GET, SET and PUBLISH reply and what the client makes of it are here, what they do is in `Db` and `PubSub`.

### Frame, Decoder and Connection

A byte is a one-character string, `"CR"`, `"LF"`, or one that makes a text invalid UTF-8
(`NotUtf8`); `Bytes` are those that occur. `Check` and `Parse` are recursive functions of the cursor and of a number
of frames, which stands for the loop over an array's elements and for the nesting alike; `CheckOne` and `ParseOne`
are one frame, given what the recursion answers. `IsWritable` says of which frames `write_frame` writes what can be
read: no line end in a text, no array in an array, which the type allows. Results carry
the code's outcomes: `Ok`, `Incomplete`, `Other`, and `Panic` where the code panics
(`len + 2` in a build with overflow checks, the slice `[..len]`, `unimplemented!()`). `U64Max` is
small, so that lengths above it and next to it occur. The crate `atoi` is external; what it
makes of a sign with no digit is a constant, as nothing here tells.
`Check` and `Parse` disagree in one place: of `$-` `Check` takes any four bytes from the `-` on, `Parse`
looks for a line and may say that the message ended early, where a protocol error was due. The
connection ends either way; `AnswerIsFinal` shows that no frame is misread for it.
`Decoder` fills a buffer (`arrived`) byte by byte with anything (`ArriveSpec`). `Connection` joins
a writer and a reader: `WriteFrame` fills the `BufWriter`, `Flush` moves any number of its bytes
to the socket, `ReadBuf` any number to the read buffer, `Take` is `parse_frame`. `Cancel` is a
caller's `select!` that drops `read_frame` at its only await, `DropWriter` a peer that goes
away, inside a frame too. The texts of Simple and Error frames hold no line end: `write_value`
does not look for one. A nested array, `unreachable!()` in `write_value`, is never written. That frames are
writable is an assumption of `Connection`, and the only one about them.

### BufferedClient

A caller is in the line for room in the queue (`sending`), or awaits its oneshot (`waiting`);
`Abandon` drops its future in either. The line is tokio's fair semaphore: with room for n
messages, the first n callers in it may send, in any order. `run` is where the owner of
the connection is: `Receive`, `Write`, `ReadResponse` or `ReadFails`, `Answer`. A reply in
`inbound` carries no name; messages carry their caller for the oneshot, which the owner holds, and for
the histories. `Serve` is the server, one step per command (`Db`); other clients of the server are left out.
`Break` may lose what is on the way; a request in the server's socket may still be applied.
`Pipeline` and `Line` hold the commands without effect, `Backlog` and `Progress` are what `CallStore` sees of them.
`CallStore` says per caller: commands take effect once at most, in the order of issue, and the answer is
the one of that moment; a call that failed or was given up may take effect later, though never after a
newer one of its caller.

## 3. What the runs check

| Run | Bounds | Shows |
|---|---|---|
| `db` | 2 keys, 2 values, 2 handlers, durations 0, 1 and one out of range, clock to 2 | `IndexMatchesEntries`, `NoLostWakeup`, `ShutdownSignalled`; `RefinesStoreSafety` and, with the fairness of `ExpiringStore`, `RefinesStore`: due keys vanish while the server runs; `PurgerExits` |
| `db_poison` | 1 key, 2 handlers | **violated**: one SET makes other connections panic |
| `server` | 2 connections, 1 permit, pauses to 4 | `PermitsConserved`, `ServingWithinLimit`, `DbOutlivesHandlers`; `ShutdownCompletes`, `DeadConnectionFreed`, `ListenerKeepsAccepting` |
| `system` | 1 connection, 1 key, 1 value, durations 0, 1 and one out of range, clock to 1 | `System` implements `Db` (`RefinesDb`); `PurgeTaskStops` |
| `pubsub` | 1 client, 2 channels, capacity 2, 3 messages, commands with 0 to 2 channels | `ClientViewAccurate`, `CountsAccurate`, `PubSub` implements `Feed`; `CatchesUp` |
| `pubsub_loss` | 1 client, 1 channel | **violated**: a repeated SUBSCRIBE loses messages |
| `subscriber` | 1 client, 2 channels, capacity 1, 1 message per channel, 3 calls of 0 to 2 channels, futures dropped | `InStep`, `FailsForCause`, `CallsReturn` |
| `subscriber_hang` | 1 client, 1 channel, 3 calls, none dropped | **violated**: after a failed unsubscribe and a `next_message()`, the next unsubscribe waits for ever |
| `commands` | arrays of up to 6 items of 7 kinds, calls on 2 keys and 2 values, 7 expirations | `ReadsTheFormats`, `ServedAsCalled` |
| `frame_decoding` | 8 bytes, buffers up to 7 long, `u64::MAX` = 11, wrapping build | `SameEnd`, `AnswerIsFinal` |
| `connection` | 2 frames out of 10, every kind among them, build with overflow checks | `ReceivedInOrder`, `StreamIsWhole`, `EndTellsTruth`, `Delivered`, `Told` |
| `buffered` | 2 callers with 2 calls each, 1 key, 1 value, a queue of 2 | `OneInFlight`, `FailsOnlyWhenBroken`, `EndsDrained`, `BufferedClient` implements `CallStore`; `Answered`, `Ends` |

`CHECK_DEADLOCK FALSE` everywhere: a server with no client left, or one that has shut
down, may stop.

**Why the bounds are enough.** The wake-up protocol needs two deadlines and two
writers, so that one notification can be pending while another SET is under way;
deadlines of 0 ticks expire at once, and equal ones occur. Two keys let a purge
remove one and keep the other. Two connections for one permit make one wait for the end of
the other; the safety properties are proved for any number of either. One connection in `system` is enough for
the drop order, which concerns a handler and `server::run`, and for a panic that leaves the lock poisoned for the
purge task and the shutdown; `SystemProofs` covers any number. Three messages
for a capacity of two let a client lag and catch up. Clients share
nothing but `tail`, and the safety properties are proved for any number of them; the lists of two channels include the
same channel twice. Three calls are a join, a call that goes wrong and one that suffers for it; one message on each
channel comes before, between or after the confirmations of any of them. Six items are one more than the longest
format has. Seven bytes are the shortest bulk string with a byte in it (`$1 CR LF a CR LF`), two frames
make a boundary, and the frames of `MCConnection` put line ends, type bytes and `-1`
into bulk strings, lengths of two digits and literals into arrays. `Surplus` lets the last read bring two bytes of
the next frame. With two calls each, a caller's abandoned request is still queued behind the other's when its next
one comes, and the queue of two fills up behind the request at hand. The bounds of the
models themselves are `MaxNow`, `MaxSent`, `MaxList`, `MaxItems`, `MaxBytes`, `Surplus`, `MaxFrames` and `MaxCalls`: the
clock, the number of messages per channel, the length of a command's list, of an array, of a buffer and of what a
read brings beyond an answer, the number of frames and of calls.

**Fairness.** The runtime polls every task that was woken: weak fairness of a
task's own steps. `tokio::select!` polls its branches in a random order and
`StreamMap` starts from a random stream: a branch that is ready again and again is
eventually taken, whence strong fairness for `ObserveShutdown`, `SubscribedEof` and
`NextMessage`. Nothing makes a client send, read or close. `Server` says so with
stalled peers, and `ShutdownCompletes` has the escape they need; `PubSub` assumes instead
that clients read (`FrameWritten` is fair), as `CatchesUp` promises nothing to others. Time passes
(`Tick` is fair, up to the bound). A reader whose calls are dropped again and again is
served when it is polled with bytes in the socket, whence strong fairness of `ReadBuf` and
`ReadEnd`. The owner of a buffered client is one task, hence one weak fairness for all its
steps; a server serves a connection that works (`Serve`), and no caller has to call, to give up or to go.
In `SubscriberClient` a call that is awaited is polled, the server's task steps as in `PubSub`, and its `select!` is
fair to requests and messages (strong fairness of `ServerReads` and `ServerForwards`). `System` has the
fairness of `Server` and `Db` together, and a handler that has read a command carries it out.

### What the violated runs show

1. **`db_poison`** (`db.rs:155`). `Instant::now() + duration` panics when the sum is out of
   range, with the lock held and a `std` Mutex: `SET k v EX 18446744073709551615` poisons it,
   and each later `lock().unwrap()`, those of the purge task and of
   `DbDropGuard` included, panics. `set.rs:107-109` says other connections continue.
2. **`pubsub_loss`** (`subscribe.rs:191`). A SUBSCRIBE to a channel already
   subscribed replaces the receiver and loses what it had not delivered, without any lag.
3. **`subscriber_hang`** (`client.rs:471`). A client subscribed to `a` calls `unsubscribe(["a"])`. A message
   of `a` comes before the confirmation, so the call returns an error, with `a` still listed. The server
   unsubscribes it, and its confirmation comes late. The program calls `next_message()`, which reads that
   confirmation and returns it as an error (`TakeMessage`): the list stays as it is. `unsubscribe([])` then awaits one
   confirmation, as the list has one entry, and the server, without any subscription, sends none. The step of
   `next_message()` is needed: without it `unsubscribe([])` reads the late confirmation, takes `a` off the list and returns.
   `CallsReturn` shows that nothing of the kind happens as long as no call has failed.

Three comments of the code are inexact in ways the models show without a run of their own:

- `db.rs:129-130`: `get` does not look at `expires_at` and answers a value whose deadline has passed, until the
  purge. `RefinesStore` bounds the lag by the fairness of the purge task only.
- `server.rs:83-86`: the permit returns before the handler drops its socket, so for a moment more than
  `MAX_CONNECTIONS` sockets may be open. Handlers that *serve* stay within the limit
  (`ServingWithinLimit`).
- `server.rs:259-260`: pauses of 1, 2, ..., 64 seconds make eight tries of `accept`, not six (`AcceptFails`,
  `GiveUp`).

A call of `Subscriber` may fail without a fault of its own, which `FailsForCause` lists: a message comes before a
confirmation (`client.rs:346`, `479`), or a channel is listed twice (`client.rs:496`).

## 4. What is proved

All for arbitrary constants that satisfy the assumptions of the modules, `DbAssumption`,
`ServerAssumption`, `SystemAssumption`, `PubSubAssumption`, `ClientAssumption`, `BufferedClientAssumption`,
`FrameAssumption`, `ConnectionAssumption`, `DecoderAssumption`, `CommandsAssumption` and `WordsAssumption`: sorts of constants, `None` different from the values
it stands beside, finite sets of connections and channels. Four say more. The frames written are writable, and the bytes that
delimit frames occur (`ConnectionAssumption`). A buffer is shorter than `usize::MAX` (`DecoderAssumption`): in a buffer as
long as that, a bulk length that has wrapped would make `parse` panic on its slice at first and, with more bytes, not any longer. The keys of
a client are UTF-8, as they are `&str` in its calls, and an array may be as long as the longest a client writes (`CommandsAssumption`). The words a client
writes (`Words`) are lower case and UTF-8 and differ from `None`, as the names a program may send do (`WordsAssumption`).

**`DbProofs`.** The invariant is `TypeOK /\ IndexMatchesEntries /\ NoLostWakeup /\
ShutdownSignalled`. The conjuncts need each other: `NoLostWakeup` is not inductive alone,
because the purge task may return to waiting after the flag was set
(`PurgeShutDown`), and it is `ShutdownSignalled` that says a notification is then
left. `IndexMatchesEntries` makes a purge exact: a key that loses one pair loses its only pair
(`PurgeIndex`). Its heart is `InsertIndex`: a SET keeps the index exact for any old and new
deadline, equal ones included. `StepWakeup` is the wake-up argument: a SET that does not
notify has found a deadline no later than its own, which the task already waits for.
`Refinement` maps each step to a step of `ExpiringStore` or to a stutter; a purge is
an `Expire` of the keys that are due, by `IndexMatchesEntries`.

**`SystemProofs`, the server.** The invariant adds to the checked properties that a serving handler
owns everything (`HeldWhileServing`), that whoever has a Db handle has a sender
(`SenderOutlivesDb`, the drop order), that the listener lives exactly as long as
the `select!` (`ListenerEnds`), and the bound of the pause. `PermitsCorrect` counts with the
theorems on finite sets; `LimitCorrect` follows, serving handlers being among the holders of
permits; `GuardCorrect` follows from the drop order and from no accept after
the `select!`.

**`SystemProofs`, the system.** `ImplementsServer`: a step of the system is a step of `Server` or leaves it alone, so the
server's theorems hold in it. `ImplementsDb` adds the invariant `Link`: a
connection holds `db` exactly while its task in `Db` has a handle (or has panicked), and the guard is held until
`server::run` has returned. The one step that needs the server's invariant is `DropListener`: by
`DbOutlivesHandlers` no task has a handle then, which is what `DropGuard` takes for granted.

**`SubscriberProofs`, the server's side.** `Consistent` relates, per subscriber, what it has been told, the frame under way and
the `StreamMap`: a confirmation under way is the only difference between them, a receiver's position lies between what
its client has been shown and the channel's tail, and a channel between `Db::subscribe` and the insertion is
not yet told. It has a lemma per step. `ClientViewAccurate` and `CountsAccurate` follow; for `FeedRefinement`, a frame that
arrives is a `Join`, a `Leave` or a `Deliver` of `Feed`, and all other steps stutter.

**`SubscriberProofs`, the session.** `ImplementsPubSub`: with a `Subscriber` at the other end, the server's half is `PubSub`, as what a
request lists is a list `PubSub` accepts. The theorems about `PubSub` hold for it, `SessionFeed` among them.
`InStepCorrect` and `FailuresHaveCause` rest on `SessionInvariance`. `InStep` speaks of a client between two calls only;
what makes it inductive is `Conversation`, which says of a client none of whose calls has failed where the call is.
`Agreed`: the lists are equal, only messages are under way, and no request that will be confirmed. `InFlight`: the
request is unread, the lists are still equal and the number of confirmations awaited is the one the server will send.
`Processed`: the server is at the request or done; the confirmations under way and one for each channel it still has
to do are those awaited, each in its place, and the two lists differ by exactly what is confirmed. `Hopeless` says when
a call can no longer succeed, and then nothing is claimed of the lists: a message is among the frames it will take for
confirmations, or the server will end the connection (a SUBSCRIBE of no channels), or it unsubscribes from a list that
has a channel twice (`RepeatsAll`: the second confirmation never comes). A lemma for each step of client and server
shows that it keeps or changes the place. `SessionIInv` was checked with TLC on the bounds of `subscriber` before it
was proved. That `Retained` takes one entry off for each channel listed once is `WithoutOne`.

**`SequenceLemmas`.** No induction theorem of the library can be used, as each takes the property as an operator.
`SetInduction` takes it as the set of the numbers that have it, and follows from the one first-order fact there is,
that inclusion among finite sets is well-founded. `PrimitiveRecursion` follows: a recursive function over the numbers
exists, which is what a recursive definition must be shown to have before it can be unfolded.

**`CodecProofs`.** `CheckUnfold` and `ParseUnfold` first: that the recursive functions exist and that their equations have one
solution, because a frame ends behind where it begins (`CheckMoves`, `ParseMoves`, `Forward`); with `PrimitiveRecursion`
over the bytes that are left, they may then be unfolded. `DecimalRead` is that `atoi` reads back what `write!` wrote of a
number, `LineRead` that a line ends at the first CR LF. `LiteralDecoded` goes through the kinds of frames,
`ItemsDecoded` along an array's items, and `FrameDecoded` puts them together: a buffer that begins with the
bytes of a writable frame gives this frame and leaves the bytes behind it, and one that holds a part of them makes `parse_frame`
wait. Bulk strings may hold anything; their bytes are counted, not searched.

**`ConnectionProofs`.** The invariant is `StreamInvariant`. `InOrder` says that the frames received are the first of those sent,
and that the bytes on their way, in the five places a byte can be, are those of the others. Alone it is not inductive:
`Take` keeps it because the bytes in the buffer begin the next frame's bytes, or hold them all (`FrameAhead`), so that
`FrameDecoded` says what `parse_frame` does (`Decides`). `ReceivedInOrder` and `StreamIsWhole` follow. `EndTellsTruth`
needs two more parts: `Unflushed`, that a drop of the writer loses no byte but of the last frame, as a call begins when
the one before has flushed; and `Ended`, that the reader reads again only when it has no answer. At the end of the stream (`AtEnd`) the
buffer is then a part of the last frame, and `IsStrictSuffix` says which.

**`ConnectionProofs`, any bytes.** For `Decoder`, about any bytes, not only those of frames. `Together`: where `check` and `parse` both accept, they stop at
the same byte, by induction from the end of the buffer backwards (`Backwards`), as an item of an array lies behind the array's
own bytes. `Stays`: what `check` has answered without waiting it answers on more bytes too; `SameFate`: what
`check` has accepted, `parse` treats alike with more bytes behind, down to the panic of a length that wraps, which
is where the length of the buffer matters (`BulkKept`). `SameEndCorrect` and `AnswerIsFinalCorrect` need no invariant but the type.

**`CommandsProofs`.** The keys, the data and the items of the arrays are any, the arrays of any length up to `MaxItems`. The invariant `IInv`
relates what has been written to what is done with it, which the two properties only imply: an array is of the items that may be
written (`Written`), a call is written as its frame (`Issued`), what is carried out is what `FromFrame` gives and the reply is to
that (`Served`), and a refusal means that it gives nothing (`Refused`). Most of the work is about `FromFrame`.
`StringRead`, `BytesRead` and `IntRead` say what the cursor does, and a lemma for each command (`SetRead`, the longest, has the
two forms of SET) what its parser then returns for which items. `Reading` compares this with `Formats`: a request with a
documented name is read as that command with its fields if its items match a format (`FormatsMatched`), and not at
all if they do not. In the other direction, `CallRead` follows each of the client's calls through `into_frame` and
back: only an expiration changes, by what `MillisSent` says of the division. `ReplyRead` is the way back of the answer. `IInv` was
checked with TLC on the bounds of `commands` before it was proved.

**`BufferedClientProofs`.** `OneInFlight` is inductive with the types; `FailsOnlyWhenBroken` needs besides that a
reply in the socket of a working connection fits the request at hand (`ReplyFits`), which `OneInFlight` provides, and
that an error passes from the response to the oneshot to the answer only on a broken one. `EndsDrained` rests on the line
holding exactly the callers that send. `RemoveAtElements` and `LeaveLine` are about leaving a queue in the middle.

`PromiseKept`, that `BufferedClient` implements `CallStore`, maps a caller's backlog to its messages in `Pipeline`
(the socket, the owner's hand, the queue) and in the line, and its call to `Progress`. The server's answer exists before the
caller has it, so `result`, a history variable, makes the call of `CallStore` done when the server serves it. A step that
serves or returns then needs `Journey`: a message is on its way once (`Apart`) and is of a call that was made
(`Numbered`), no call with its message on the way has a reply (`Unanswered`), the reply on its way back and the
response at hand are those of the current request (`Matched`), and a oneshot holds the server's answer or an error
(`Delivered`). The parts lean on each other: a message that joins is apart from the rest because its number is new, and a
response matches because no reply came before; `Matched` needs `OneInFlight` too. `StepPipeline` says what a step does to the
pipeline: nothing, one message more at its end, or one less (`Loses`); each part of `Journey` is kept through
it. For the backlogs, `Within` distributes over `\o` (`WithinConcat`), so that a lost message is one item less for its caller and none
for the others (`BacklogLoses`). `Journey` was checked with TLC on the bounds of `buffered` before it was proved.

**Only model-checked.** Liveness (`RefinesStore`'s fairness, `PurgerExits`, `PurgeTaskStops`,
`ShutdownCompletes`, `DeadConnectionFreed`, `ListenerKeepsAccepting`, `CatchesUp`, `CallsReturn`, `Answered`, `Ends`,
`Delivered`, `Told`): reasoning on `ENABLED` and fairness is out of the prover's reach. Every invariant and every
action property a run checks is proved, but for the three that are violated.

## 5. What is not modelled, and the plan

Not modelled: logging, the binaries, tokio itself (its primitives are modelled from how the code uses them), the
rendering of a message's content as text (`client.rs:414`). `BlockingClient` only blocks on `Client`: its
behaviours are those of `SubscriberClient` without `Abandon`. Channels are never removed from `pub_sub`; the code
promises nothing about it. Line ends in the text of Error frames (`cmd/unknown.rs:30` quotes a name
that may have one) are left out of `Connection`.

What is left of the plan: `Commands` joined with `Connection`, for Error frames with line ends.
