------------------------------ MODULE CallStore ------------------------------
(***************************************************************************)
(* What a BufferedClient promises to the tasks that share it (src/src/     *)
(* clients/buffered_client.rs): each call is as if its task had the store  *)
(* for itself.  A command takes effect at most once, in the order in which *)
(* its caller issued its commands, and the answer is the one of that       *)
(* moment.  A call that fails, and one whose future was dropped, may still *)
(* take effect later, but never after a later command of its caller.       *)
(***************************************************************************)
EXTENDS Naturals, Sequences, SequencesExt, Subsequence

CONSTANTS Callers, Keys, Values, None

Commands ==
    [op : {"get"}, key : Keys] \cup [op : {"set"}, key : Keys, value : Values]

VARIABLES
    store,          \* the value of each key
    backlog,        \* per caller, its commands without effect so far; live is
                    \* the one whose caller waits for it
    call,           \* per caller: idle, pending, or done with a result
    answer          \* per caller, what its last call returned

vars == <<store, backlog, call, answer>>

Idle == [tag |-> "idle"]
Pending == [tag |-> "pending"]
Done(v) == [tag |-> "done", value |-> v]

Value(v) == [tag |-> "ok", value |-> v]
Failed == [tag |-> "err"]

Init ==
    /\ store = [k \in Keys |-> None]
    /\ backlog = [c \in Callers |-> <<>>]
    /\ call = [c \in Callers |-> Idle]
    /\ answer = [c \in Callers |-> Value(None)]

Call(c) ==
    /\ call[c] = Idle
    /\ \E cmd \in Commands :
         backlog' = [backlog EXCEPT ![c] = Append(@, [cmd |-> cmd, live |-> TRUE])]
    /\ call' = [call EXCEPT ![c] = Pending]
    /\ UNCHANGED <<store, answer>>

(* What a command does to a store, and what it answers. *)
Effect(s, cmd) == IF cmd.op = "set" THEN [s EXCEPT ![cmd.key] = cmd.value] ELSE s
Result(s, cmd) == IF cmd.op = "set" THEN None ELSE s[cmd.key]

Apply(c) ==
    /\ backlog[c] # <<>>
    /\ LET first == Head(backlog[c])
       IN  /\ store' = Effect(store, first.cmd)
           /\ IF first.live
              THEN call' = [call EXCEPT ![c] = Done(Result(store, first.cmd))]
              ELSE UNCHANGED call
    /\ backlog' = [backlog EXCEPT ![c] = Tail(@)]
    /\ UNCHANGED answer

(* The connection broke: a command is lost. *)
Lose(c) ==
    /\ \E i \in DOMAIN backlog[c] : backlog' = [backlog EXCEPT ![c] = RemoveAt(@, i)]
    /\ UNCHANGED <<store, call, answer>>

Return(c) ==
    /\ call[c].tag = "done"
    /\ answer' = [answer EXCEPT ![c] = Value(call[c].value)]
    /\ call' = [call EXCEPT ![c] = Idle]
    /\ UNCHANGED <<store, backlog>>

Dead == [cmd : Commands, live : {FALSE}]
GiveUp(items) == [i \in DOMAIN items |-> [items[i] EXCEPT !.live = FALSE]]

Fail(c) ==
    /\ call[c] # Idle
    /\ answer' = [answer EXCEPT ![c] = Failed]
    /\ call' = [call EXCEPT ![c] = Idle]
    /\ backlog' = [backlog EXCEPT ![c] = GiveUp(@)]
    /\ UNCHANGED store

(* The caller gives the call up; a command not yet sent goes with it. *)
Abandon(c) ==
    /\ call[c] # Idle
    /\ call' = [call EXCEPT ![c] = Idle]
    /\ \/ backlog' = [backlog EXCEPT ![c] = GiveUp(@)]
       \/ backlog' = [backlog EXCEPT ![c] = Within(@, Dead)]
    /\ UNCHANGED <<store, answer>>

Next ==
    \E c \in Callers :
        Call(c) \/ Apply(c) \/ Lose(c) \/ Return(c) \/ Fail(c) \/ Abandon(c)

Spec == Init /\ [][Next]_vars

=============================================================================
