-------------------------------- MODULE Frame --------------------------------
(***************************************************************************)
(* The frames of the protocol and their encoding: src/src/frame.rs and the *)
(* pure part of src/src/connection.rs.                                     *)
(*                                                                         *)
(* A byte is a one-character string, "CR", "LF" or an element of NotUtf8;  *)
(* a buffer is a sequence of bytes, and a cursor the index of the next     *)
(* byte.  A function that returns Result yields Ok(pos, val), with the     *)
(* position of the cursor behind what was read, or a failure.              *)
(***************************************************************************)
EXTENDS Integers, Sequences, FiniteSetsExt, SequencesExt

CONSTANTS
    Bytes,          \* the values of a byte that occur
    U64Max,         \* u64::MAX, and usize::MAX
    OverflowChecks, \* the build panics on overflow (debug) or wraps (release)
    BareSignIsZero, \* what the crate atoi makes of a sign with no digit behind
    NotUtf8         \* bytes that make a text no UTF-8

ASSUME FrameAssumption ==
    /\ U64Max \in Nat /\ U64Max > 1
    /\ OverflowChecks \in BOOLEAN
    /\ BareSignIsZero \in BOOLEAN

-----------------------------------------------------------------------------
Ok(pos, val) == [tag |-> "Ok", pos |-> pos, val |-> val]
Incomplete == [tag |-> "Incomplete"]
Other == [tag |-> "Other"]
Panic == [tag |-> "Panic"]

(* F of r, as a set of one element so that TLC evaluates r once. *)
With(r, F(_)) == CHOOSE y \in {F(x) : x \in {r}} : TRUE

(* The operator `?`: a failure is returned, a success goes on with F. *)
Then(r, F(_)) == With(r, LAMBDA x : IF x.tag = "Ok" THEN F(x) ELSE x)

Simple(text) == [type |-> "Simple", text |-> text]
Error(text) == [type |-> "Error", text |-> text]
Integer(n) == [type |-> "Integer", n |-> n]
Bulk(data) == [type |-> "Bulk", data |-> data]
Null == [type |-> "Null"]
Array(items) == [type |-> "Array", items |-> items]

-----------------------------------------------------------------------------
(* Reading below the level of frames. *)

(* The byte that get_u8 and peek_u8 find, none at the end of the buffer. *)
Byte(s, p) == IF p <= Len(s) THEN s[p] ELSE "end"

(* Mutant: skip accepts one byte less. *)
SkipStopsShort(s, p, n) == IF p + n - 2 <= Len(s) THEN Ok(p + n, <<>>) ELSE Incomplete

Skip(s, p, n) == IF p + n - 1 <= Len(s) THEN Ok(p + n, <<>>) ELSE Incomplete

(* Up to the first CR LF from the cursor on. *)
LineEnds(s, p) == {i \in p .. Len(s) - 1 : s[i] = "CR" /\ s[i + 1] = "LF"}

GetLine(s, p) ==
    With(LineEnds(s, p), LAMBDA ends :
        IF ends = {} THEN Incomplete
        ELSE With(Min(ends), LAMBDA i : Ok(i + 2, SubSeq(s, p, i - 1))))

Digits == <<"0", "1", "2", "3", "4", "5", "6", "7", "8", "9">>
IsDigit(b) == b \in ToSet(Digits)
DigitValue(b) == (CHOOSE i \in 1 .. 10 : Digits[i] = b) - 1

ValueOf(digits) ==
    LET value[n \in 0 .. Len(digits)] ==
          IF n = 0 THEN 0 ELSE 10 * value[n - 1] + DigitValue(digits[n])
    IN  value[Len(digits)]

(* The crate atoi, for u64: a sign, digits, and whatever follows ignored. *)
(* The result is a set: empty for None. *)
Number(signed, minus, digits) ==
    IF digits = <<>> THEN IF signed /\ BareSignIsZero THEN {0} ELSE {}
    ELSE With(ValueOf(digits), LAMBDA value :
            IF value > U64Max \/ (minus /\ value > 0) THEN {} ELSE {value})

LeadingDigits(text) ==
    With(SelectInSeq(text, LAMBDA b : ~IsDigit(b)), LAMBDA stop :
        IF stop = 0 THEN text ELSE SubSeq(text, 1, stop - 1))

Atoi(text) ==
    LET signed == text # <<>> /\ text[1] \in {"+", "-"}
    IN  Number(signed, signed /\ text[1] = "-", LeadingDigits(IF signed THEN Tail(text) ELSE text))

GetDecimal(s, p) ==
    Then(GetLine(s, p), LAMBDA line :
        With(Atoi(line.val), LAMBDA n :
            IF n = {} THEN Other ELSE Ok(line.pos, CHOOSE value \in n : TRUE)))

(* len + 2, the bytes of a bulk string and its CR LF, as a usize. *)
WithCrLf(len, F(_)) ==
    IF len + 2 <= U64Max THEN F(len + 2)
    ELSE IF OverflowChecks THEN Panic ELSE F(len + 2 - (U64Max + 1))

Text(line, F(_)) ==
    IF ToSet(line.val) \cap NotUtf8 = {} THEN Ok(line.pos, F(line.val)) ELSE Other

-----------------------------------------------------------------------------
(* Frame::check at p.  check[q][k] is its answer on k frames in a row from  *)
(* q on: k is one at the top, and the length of an array below it.          *)
CheckOne(s, p, check) ==
    LET b == Byte(s, p)
        next == Byte(s, p + 1)
    IN  CASE b = "end" -> Incomplete
          [] b \in {"+", "-"} -> GetLine(s, p + 1)
          [] b = ":" -> GetDecimal(s, p + 1)
          [] b = "$" /\ next = "end" -> Incomplete
          [] b = "$" /\ next = "-" -> Skip(s, p + 1, 4)
          [] b = "$" /\ next \notin {"end", "-"} ->
               Then(GetDecimal(s, p + 1), LAMBDA d :
                   WithCrLf(d.val, LAMBDA n : Skip(s, d.pos, n)))
          [] b = "*" -> Then(GetDecimal(s, p + 1), LAMBDA d : check[d.pos][d.val])
          [] OTHER -> Other

Check(s) ==
    LET check[p \in Nat] == [k \in Nat |->
          IF k = 0 THEN Ok(p, <<>>)
          ELSE Then(CheckOne(s, p, check), LAMBDA r : check[r.pos][k - 1])]
    IN  check[1][1]

(* A bulk string: its length has been read, its bytes begin at p. *)
(* Mutant: parse skips the bytes without their CR LF. *)
ParseBulkForgetsCrLf(s, p, len) ==
    WithCrLf(len, LAMBDA n :
        CASE p + n - 1 > Len(s) -> Incomplete
          [] p + len - 1 > Len(s) -> Panic
          [] OTHER -> Ok(p + len, Bulk(SubSeq(s, p, p + len - 1))))

ParseBulk(s, p, len) ==
    WithCrLf(len, LAMBDA n :
        CASE p + n - 1 > Len(s) -> Incomplete
          [] p + len - 1 > Len(s) -> Panic   \* the slice [..len]
          [] OTHER -> Ok(p + n, Bulk(SubSeq(s, p, p + len - 1))))

(* Frame::parse at p, and on k frames in a row. *)
ParseOne(s, p, parse) ==
    LET b == Byte(s, p)
        next == Byte(s, p + 1)
    IN  CASE b = "end" -> Incomplete
          [] b = "+" -> Then(GetLine(s, p + 1), LAMBDA l : Text(l, Simple))
          [] b = "-" -> Then(GetLine(s, p + 1), LAMBDA l : Text(l, Error))
          [] b = ":" -> Then(GetDecimal(s, p + 1), LAMBDA d : Ok(d.pos, Integer(d.val)))
          [] b = "$" /\ next = "end" -> Incomplete
          [] b = "$" /\ next = "-" ->
               Then(GetLine(s, p + 1), LAMBDA l :
                   IF l.val = <<"-", "1">> THEN Ok(l.pos, Null) ELSE Other)
          [] b = "$" /\ next \notin {"end", "-"} ->
               Then(GetDecimal(s, p + 1), LAMBDA d : ParseBulk(s, d.pos, d.val))
          [] b = "*" ->
               Then(GetDecimal(s, p + 1), LAMBDA d :
                   Then(parse[d.pos][d.val], LAMBDA a : Ok(a.pos, Array(a.val))))
          [] OTHER -> Panic              \* unimplemented!()

Parse(s) ==
    LET parse[p \in Nat] == [k \in Nat |->
          IF k = 0 THEN Ok(p, <<>>)
          ELSE Then(ParseOne(s, p, parse), LAMBDA r :
                   Then(parse[r.pos][k - 1], LAMBDA more : Ok(more.pos, <<r.val>> \o more.val)))]
    IN  Then(parse[1][1], LAMBDA r : Ok(r.pos, r.val[1]))

(* parse_frame: the outcome, and the bytes that stay in the buffer. *)
(* Mutant: the buffer is cleared with the frame. *)
GotClears(frame, rest) == [tag |-> "Got", frame |-> frame, rest |-> <<>>]

Got(frame, rest) == [tag |-> "Got", frame |-> frame, rest |-> rest]

(* parse finds a frame, fails or panics; only check may wait for more.      *)
Parsed(s, pos, parsed) ==
    CASE parsed.tag = "Ok" -> Got(parsed.val, SubSeq(s, pos, Len(s)))
      [] parsed.tag = "Panic" -> Panic
      [] OTHER -> Other

ParseFrame(s) ==
    With(Check(s), LAMBDA checked :
        CASE checked.tag = "Incomplete" -> [tag |-> "Wait"]
          [] checked.tag = "Ok" -> With(Parse(s), LAMBDA r : Parsed(s, checked.pos, r))
          [] OTHER -> checked)

----------------------------------------------------------------------------------
(* The frames that may be written: what is decoded as a number fits a u64,  *)
(* a text has no line end and is UTF-8.  An array holds literals only.      *)
IsText(text) == text \in Seq(Bytes) /\ LineEnds(text, 1) = {} /\ ToSet(text) \cap NotUtf8 = {}

IsLiteral(f) ==
    \/ f.type = "Simple" /\ f = Simple(f.text) /\ IsText(f.text)
    \/ f.type = "Error" /\ f = Error(f.text) /\ IsText(f.text)
    \/ f.type = "Integer" /\ f = Integer(f.n) /\ f.n \in 0 .. U64Max
    \/ f.type = "Bulk" /\ f = Bulk(f.data) /\ f.data \in Seq(Bytes) /\ Len(f.data) + 2 <= U64Max
    \/ f = Null

IsWritable(f) ==
    \/ IsLiteral(f)
    \/ /\ f.type = "Array" /\ f = Array(f.items)
       /\ f.items \in Seq(ToSet(f.items)) /\ Len(f.items) <= U64Max
       /\ \A i \in DOMAIN f.items : IsLiteral(f.items[i])

(* write_frame: the bytes of a frame, and those it adds to what a frame     *)
(* holds.  The literal frames are a table.                                  *)
Marks == {"+", "-", ":", "$", "*", "CR", "LF"} \cup ToSet(Digits)

Decimal(n) ==
    LET decimal[m \in 0 .. n] ==
          IF m < 10 THEN <<Digits[m + 1]>> ELSE decimal[m \div 10] \o <<Digits[(m % 10) + 1]>>
    IN  decimal[n]

Line(text) == text \o <<"CR", "LF">>

EncodeValue(f) ==
    CASE f.type = "Simple" -> <<"+">> \o Line(f.text)
      [] f.type = "Error" -> <<"-">> \o Line(f.text)
      [] f.type = "Integer" -> <<":">> \o Line(Decimal(f.n))
      [] f.type = "Null" -> <<"$">> \o Line(<<"-", "1">>)
      [] f.type = "Bulk" -> <<"$">> \o Line(Decimal(Len(f.data))) \o Line(f.data)

Encode(f) ==
    IF f.type = "Array"
    THEN <<"*">> \o Line(Decimal(Len(f.items)))
                 \o FlattenSeq([i \in DOMAIN f.items |-> EncodeValue(f.items[i])])
    ELSE EncodeValue(f)

=============================================================================
