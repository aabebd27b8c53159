--------------------------- MODULE ExtrinsicFrame ----------------------------
(***************************************************************************)
(* How tools/preview_balance_submit_split_tx.mjs frames a transaction for  *)
(* the node: hex text to bytes, the SCALE compact lengths computed with    *)
(* JavaScript's 32-bit integers, and the extrinsic around the bytes.  The  *)
(* node (external) reads the frame field by field.  The transaction's own  *)
(* bytes are not told apart, only counted.                                 *)
(***************************************************************************)
EXTENDS Integers, Sequences

CONSTANT
    Lengths         \* lengths in hex digits of the text handed in

ASSUME LengthsAssumption == Lengths \subseteq Nat

VARIABLES
    text,           \* the transaction in hex, a 0x in front of it taken off
    frame,          \* what is sent
    cursor,         \* the byte of the frame the node reads next
    reading,        \* the field the node reads next
    field           \* the lengths it has read

vars == <<text, frame, cursor, reading, field>>

Texts == [digits : Lengths, hex : BOOLEAN]

-----------------------------------------------------------------------------
(* The helper *)

\* fromHex throws on what is not the text of at least one byte.
IsBytes(t) == t.hex /\ t.digits # 0 /\ t.digits % 2 = 0
BytesOf(t) == t.digits \div 2

\* value << 2 of an int32: the two highest bits are lost and the next one
\* becomes the sign.
ShiftLeft2_NoSign(value) == 4 * (value % 536870912)
ShiftLeft2(value) ==
    LET low == value % 1073741824 IN
    4 * (IF low < 536870912 THEN low ELSE low - 1073741824)

\* (compact >> 8 * n) & 0xff: the shift keeps the sign, the mask drops it.
ByteOf(compact, n) ==
    CASE n = 0 -> compact % 256
      [] n = 1 -> (compact \div 256) % 256
      [] n = 2 -> (compact \div 65536) % 256
      [] n = 3 -> (compact \div 16777216) % 256

\* The longest length of each mode.
Max1_OneMore == 64
Max1 == 63
Max2 == 16383
Max4_UpToTheSign == 536870911
Max4 == 1073741823

TooLarge == <<>>

\* scaleCompactEncode; the mode is in the two low bits, which the shift cleared.
Compact(value) ==
    IF value <= Max1 THEN <<ByteOf(ShiftLeft2(value), 0)>>
    ELSE IF value <= Max2
         THEN LET compact == ShiftLeft2(value) + 1 IN
              <<ByteOf(compact, 0), ByteOf(compact, 1)>>
    ELSE IF value <= Max4
         THEN LET compact == ShiftLeft2(value) + 2 IN
              <<ByteOf(compact, 0), ByteOf(compact, 1), ByteOf(compact, 2), ByteOf(compact, 3)>>
    ELSE TooLarge

Version == 4        \* an unsigned extrinsic
Pallet  == 5
Call    == 0

\* callData and the version byte in front of it, without the transaction.
CallHead(n) == <<Version, Pallet, Call>> \o Compact(n)
ExtrinsicLength(n) == Len(CallHead(n)) + n

Unwrapped == [head |-> <<>>, bytes |-> 0]
Thrown    == [head |-> <<-1>>, bytes |-> 0]

WrapBytes_NoVersion(n) ==
    [head |-> Compact(Len(CallHead(n)) - 1 + n) \o Tail(CallHead(n)), bytes |-> n]
\* wrapAsMidnightExtrinsic: an encoding that throws ends it.
WrapBytes(n) ==
    IF Compact(n) = TooLarge \/ Compact(ExtrinsicLength(n)) = TooLarge
    THEN Thrown
    ELSE [head |-> Compact(ExtrinsicLength(n)) \o CallHead(n), bytes |-> n]

Wrap ==
    /\ frame = Unwrapped
    /\ frame' = IF IsBytes(text) THEN WrapBytes(BytesOf(text)) ELSE Thrown
    /\ UNCHANGED <<text, cursor, reading, field>>

-----------------------------------------------------------------------------
(* The node (external): a SCALE decoder                                      *)

Arrived  == frame \notin {Unwrapped, Thrown}
Fields   == {"length", "call", "argument", "transaction"}
At(i)    == frame.head[cursor + i]
Holds(n) == cursor + n - 1 <= Len(frame.head)

\* The bytes that are left, the transaction's included.
Left == Len(frame.head) - (cursor - 1) + frame.bytes

\* A compact length at the cursor.  The decoder refuses one that is not in its
\* shortest mode; the helper never writes the mode for larger numbers.
Width == CASE At(0) % 4 = 0 -> 1 [] At(0) % 4 = 1 -> 2 [] OTHER -> 4
Number ==
    CASE Width = 1 -> At(0) \div 4
      [] Width = 2 -> (At(0) \div 4) + 64 * At(1)
      [] Width = 4 -> (At(0) \div 4) + 64 * At(1) + 16384 * At(2) + 4194304 * At(3)
HoldsCompact ==
    /\ Holds(1) /\ At(0) % 4 # 3
    /\ Holds(Width)
    /\ Width = 2 => Number > 63
    /\ Width = 4 => Number > 16383

\* What must be at the cursor for the field to be read: the lengths count all
\* of what follows them, and the transaction ends the frame.
Readable ==
    CASE reading \in {"length", "argument"} -> HoldsCompact
      [] reading = "call" -> /\ field.length = Left
                             /\ Holds(3)
                             /\ <<At(0), At(1), At(2)>> = <<Version, Pallet, Call>>
      [] reading = "transaction" -> /\ cursor = Len(frame.head) + 1
                                    /\ field.argument = Left

Following == [length |-> "call", call |-> "argument",
              argument |-> "transaction", transaction |-> "done"]

ReadField ==
    /\ reading' = Following[reading]
    /\ field' = IF reading \in {"length", "argument"}
                THEN [field EXCEPT ![reading] = Number] ELSE field
    /\ cursor' = cursor + CASE reading \in {"length", "argument"} -> Width
                             [] reading = "call" -> 3
                             [] reading = "transaction" -> 0

NodeReads ==
    /\ Arrived /\ reading \in Fields
    /\ IF Readable THEN ReadField
       ELSE reading' = "refused" /\ UNCHANGED <<cursor, field>>
    /\ UNCHANGED <<text, frame>>

-----------------------------------------------------------------------------
Init ==
    /\ text \in Texts
    /\ frame = Unwrapped
    /\ cursor = 1
    /\ reading = "length"
    /\ field = [length |-> 0, argument |-> 0]

Next == Wrap \/ NodeReads

Spec == Init /\ [][Next]_vars

-----------------------------------------------------------------------------
(* Properties *)

TypeOK ==
    /\ text \in Texts
    /\ frame.bytes \in Nat
    /\ Arrived => frame.head \in Seq(0..255) /\ Len(frame.head) \in {5, 6, 7, 9, 11}
    /\ cursor \in Nat
    /\ reading \in Fields \cup {"done", "refused"}
    /\ field \in [length : Nat, argument : Nat]

\* The node finds in every frame exactly the transaction that was put in: both
\* lengths read back as written, at and around the limits of the three modes
\* and where value << 2 turns negative, and no byte is left over.
NodeReadsTheTransaction ==
    /\ reading # "refused"
    /\ reading = "done" => field.argument = BytesOf(text) /\ BytesOf(text) > 0

\* The helper frames every transaction it can: it throws only for a text that
\* is not bytes, and for the bytes whose extrinsic, with its seven bytes of
\* framing, is longer than a compact length in four bytes can say.
FramesWhatFits ==
    frame # Unwrapped =>
        (frame = Thrown <=> ~IsBytes(text) \/ BytesOf(text) + 7 > 1073741823)

=============================================================================
