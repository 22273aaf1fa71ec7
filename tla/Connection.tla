------------------------------ MODULE Connection ------------------------------
(***************************************************************************)
(* Two Connections joined by a socket, in one direction: src/src/          *)
(* connection.rs.  One side writes frames with write_frame, the other      *)
(* reads them with read_frame.  The code uses the two directions           *)
(* independently of each other.                                            *)
(*                                                                         *)
(* Awaits are the points where other tasks run: a flush of the write       *)
(* buffer takes several writes, a frame arrives in any number of reads,    *)
(* and a select! in the caller may drop the future of read_frame while it  *)
(* waits for bytes (server.rs, cmd/subscribe.rs).                          *)
(***************************************************************************)
EXTENDS Frame

CONSTANTS
    Frames,         \* the frames the writer may write
    MaxFrames       \* bound: the number of frames written

ASSUME ConnectionAssumption ==
    /\ MaxFrames \in Nat
    /\ Marks \subseteq Bytes
    /\ \A f \in Frames : IsWritable(f)

VARIABLES
    sent,           \* history: the frames passed to write_frame, in order
    stream,         \* the writer's BufWriter: bytes not yet in the socket
    open,           \* the writer's Connection has not been dropped
    lost,           \* history: the bytes that were dropped with it
    socket,         \* bytes between the two
    buffer,         \* the reader's read buffer
    pc,             \* the reader: in its caller, in parse_frame, in read_buf
    received,       \* history: the frames read_frame returned, in order
    result          \* the last answer of read_frame that ends the reading

vars == <<sent, stream, open, lost, socket, buffer, pc, received, result>>

writer == <<sent, stream, open, lost>>

Init ==
    /\ sent = <<>> /\ stream = <<>> /\ open = TRUE /\ lost = <<>>
    /\ socket = <<>>
    /\ buffer = <<>> /\ pc = "caller" /\ received = <<>> /\ result = "none"

-----------------------------------------------------------------------------
(* write_frame up to its flush.  A call begins when the last one has        *)
(* flushed: it borrows the connection.                                      *)
WriteFrame ==
    /\ open /\ stream = <<>> /\ Len(sent) < MaxFrames
    /\ \E f \in Frames :
         /\ sent' = Append(sent, f)
         /\ stream' = Encode(f)
    /\ UNCHANGED <<open, lost, socket, buffer, pc, received, result>>

(* A write to the socket, by the flush or because the BufWriter is full:    *)
(* the socket takes as many bytes as it has room for.                       *)
Flush ==
    /\ \E n \in 1 .. Len(stream) :
         /\ socket' = socket \o SubSeq(stream, 1, n)
         /\ stream' = SubSeq(stream, n + 1, Len(stream))
    /\ UNCHANGED <<sent, open, lost, buffer, pc, received, result>>

(* The writer's Connection is dropped, between two frames or with a frame   *)
(* half written; a BufWriter does not flush when it is dropped.             *)
DropWriter ==
    /\ open
    /\ open' = FALSE
    /\ lost' = stream
    /\ stream' = <<>>
    /\ UNCHANGED <<sent, socket, buffer, pc, received, result>>

-----------------------------------------------------------------------------
(* The caller asks for the next frame. *)
ReadFrame ==
    /\ pc = "caller" /\ result = "none"
    /\ pc' = "parse"
    /\ UNCHANGED <<writer, socket, buffer, received, result>>

(* parse_frame answers: a frame, an error, or the loop goes on to read.     *)
Take ==
    /\ pc = "parse"
    /\ \E outcome \in {ParseFrame(buffer)} :
         \/ /\ outcome.tag = "Got"
            /\ received' = Append(received, outcome.frame)
            /\ buffer' = outcome.rest
            /\ pc' = "caller"
            /\ UNCHANGED result
         \/ /\ outcome.tag = "Wait"
            /\ pc' = "read"
            /\ UNCHANGED <<buffer, received, result>>
         \/ /\ outcome.tag \in {"Other", "Panic"}
            /\ result' = "invalid"
            /\ pc' = "caller"
            /\ UNCHANGED <<buffer, received>>
    /\ UNCHANGED <<writer, socket>>

(* read_buf brings what the socket has, or a part of it. *)
ReadBuf ==
    /\ pc = "read"
    /\ \E n \in 1 .. Len(socket) :
         /\ buffer' = buffer \o SubSeq(socket, 1, n)
         /\ socket' = SubSeq(socket, n + 1, Len(socket))
    /\ pc' = "parse"
    /\ UNCHANGED <<writer, received, result>>

(* Mutant: an end of the stream is clean whatever is in the buffer. *)
EndIsClean ==
    /\ pc = "read" /\ socket = <<>> /\ ~open
    /\ result' = "end"
    /\ pc' = "caller"
    /\ UNCHANGED <<writer, socket, buffer, received>>

(* Mutant: the loop reads on at the end of the stream. *)
EndReadsOn ==
    /\ pc = "read" /\ socket = <<>> /\ ~open
    /\ result' = IF buffer = <<>> THEN "end" ELSE "none"
    /\ pc' = "caller"
    /\ UNCHANGED <<writer, socket, buffer, received>>

(* read_buf returns 0: None between two frames, an error inside one. *)
ReadEnd ==
    /\ pc = "read" /\ socket = <<>> /\ ~open
    /\ result' = IF buffer = <<>> THEN "end" ELSE "reset"
    /\ pc' = "caller"
    /\ UNCHANGED <<writer, socket, buffer, received>>

(* read_buf returns an error of the network. *)
ReadFails ==
    /\ pc = "read"
    /\ result' = "failed"
    /\ pc' = "caller"
    /\ UNCHANGED <<writer, socket, buffer, received>>

(* Another branch of the caller's select! is taken: the future of read_frame *)
(* is dropped at its only await.  What was read stays in the Connection.     *)
(* Mutant: the bytes read so far live in the future.                         *)
CancelForgets ==
    /\ pc = "read"
    /\ pc' = "caller"
    /\ buffer' = <<>>
    /\ UNCHANGED <<writer, socket, received, result>>

Cancel ==
    /\ pc = "read"
    /\ pc' = "caller"
    /\ UNCHANGED <<writer, socket, buffer, received, result>>

Next ==
    \/ WriteFrame \/ Flush \/ DropWriter
    \/ ReadFrame \/ Take \/ ReadBuf \/ ReadEnd \/ ReadFails \/ Cancel

Spec == Init /\ [][Next]_vars

(* A flush goes on, a reader calls again and is polled; a select! polls its  *)
(* branches in random order, so a read that can be served again and again is *)
(* served.                                                                   *)
Fairness ==
    /\ WF_vars(Flush) /\ WF_vars(ReadFrame) /\ WF_vars(Take)
    /\ SF_vars(ReadBuf) /\ SF_vars(ReadEnd)

LiveSpec == Spec /\ Fairness

-----------------------------------------------------------------------------
(* The bytes of a sequence of frames. *)
BytesOf(frames) == FlattenSeq([i \in DOMAIN frames |-> Encode(frames[i])])

(* read_frame returns the frames that were written, each once and in order,  *)
(* wherever the stream was cut, whatever bytes a bulk string holds and       *)
(* however often a select! drops the call; and it never takes what           *)
(* write_frame wrote for an invalid frame.                                   *)
ReceivedInOrder == IsPrefix(received, sent) /\ result # "invalid"

(* The byte a frame ends at is the byte the next begins at: frames received, *)
(* read buffer, socket, write buffer and what a drop lost are the stream.    *)
StreamIsWhole ==
    BytesOf(received) \o buffer \o socket \o stream \o lost = BytesOf(sent)

(* A None says that the peer closed between two frames, "connection reset by *)
(* peer" that it closed inside one: of the last frame all or nothing was     *)
(* lost, or a part.                                                          *)
EndTellsTruth ==
    /\ result = "end" =>
         \/ lost = <<>> /\ received = sent
         \/ lost = Encode(Last(sent)) /\ received = Front(sent)
    /\ result = "reset" =>
         IsStrictSuffix(lost, Encode(Last(sent))) /\ lost # <<>> /\ received = Front(sent)

(* A frame whose write_frame has returned is read, unless the network fails; *)
(* and when the writer is gone the reader is told so.                        *)
Delivered ==
    \A n \in 1 .. MaxFrames :
        Len(sent) >= n /\ stream = <<>> /\ lost = <<>>
            ~> Len(received) >= n \/ result = "failed"
Told == ~open ~> result # "none"

=============================================================================
