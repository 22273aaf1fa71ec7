------------------------------- MODULE Decoder -------------------------------
(***************************************************************************)
(* parse_frame (src/src/connection.rs) on every buffer a peer can fill,    *)
(* byte by byte: what the answer may depend on when the same bytes come    *)
(* in pieces.                                                              *)
(***************************************************************************)
EXTENDS Frame

CONSTANTS
    MaxBytes,       \* bound: the length of the buffer
    Surplus         \* bound: the bytes a read brings behind an answer

(* A buffer is shorter than the largest usize. *)
ASSUME DecoderAssumption == MaxBytes \in Nat /\ MaxBytes < U64Max

VARIABLE arrived    \* the read buffer

EmptyBuffer == arrived = <<>>

(* read_buf: more bytes are in the buffer.  One at a time is the finest way *)
(* to cut a stream.  read_frame reads while parse_frame has no answer; the  *)
(* last read may have brought bytes of the next frame.                      *)
Arrive ==
    /\ Len(arrived) < MaxBytes
    /\ ParseFrame(SubSeq(arrived, 1, Len(arrived) - Surplus)).tag = "Wait"
    /\ \E b \in Bytes : arrived' = Append(arrived, b)

ArriveSpec == EmptyBuffer /\ [][Arrive]_arrived

-----------------------------------------------------------------------------
(* check finds the end of a frame so that parse need not report it: when     *)
(* both accept a buffer they stop at the same byte, else the rest of the     *)
(* stream would be cut in the wrong place (connection.rs, "len").            *)
SameEnd ==
    Check(arrived).tag = "Ok" /\ Parse(arrived).tag = "Ok" =>
        Check(arrived).pos = Parse(arrived).pos

(* parse_frame's answer does not depend on how the stream was cut: once it   *)
(* answers, the bytes that come later change neither the frame nor the       *)
(* refusal, they only stay in the buffer for the next frame.                 *)
Answer(s) ==
    With(ParseFrame(s), LAMBDA r :
        IF r.tag = "Got" THEN Ok(Len(s) - Len(r.rest), r.frame) ELSE r)
AnswerIsFinal == [][Answer(arrived).tag # "Wait" => Answer(arrived') = Answer(arrived)]_arrived

=============================================================================
