----------------------------- MODULE DataCodec ------------------------------
(***************************************************************************)
(* The protobuf Data message of Core/main_loop.c: pb_encode_data as an     *)
(* operator, pb_decode_data as a machine that takes one field per step,    *)
(* and what mesh_mini_loop does with its result.  Bytes are real bytes;    *)
(* pos is the code's uint16_t and wraps.                                   *)
(***************************************************************************)
EXTENDS Integers, Sequences

CONSTANTS Inputs,       \* the byte strings to decode
          MAX_OUT       \* bytes pb_encode_data may write (240)

UINT16 == 65536
None == [off |-> 0, len |-> 0, null |-> TRUE]

\* Mutation: the limit of a one-byte length is taken as 255.
EncodeTwoByteLength(portnum, payload) ==
    IF 4 + Len(payload) > MAX_OUT \/ Len(payload) > 255
      THEN <<>>
      ELSE <<8, portnum, 18, Len(payload)>> \o payload

\* Data{portnum, payload}; the empty string stands for the error.
PbEncodeData(portnum, payload) ==
    IF 4 + Len(payload) > MAX_OUT \/ Len(payload) > 127
      THEN <<>>
      ELSE <<8, portnum, 18, Len(payload)>> \o payload

VARIABLES data, pos, tag, portnum, payload, pc

vars == <<data, pos, tag, portnum, payload, pc>>

\* Indices are the code's: data[0] is the first byte.
At(i) == data[i + 1]
Size == Len(data)

\* The varint from p on ends at the first byte below 128 or with the data.
LastByte(p) ==
    LET ends == {i \in p .. Size - 1 : At(i) < 128}
    IN  IF ends = {} THEN Size - 1
        ELSE CHOOSE i \in ends : \A j \in ends : i <= j

\* Its 7-bit digits, the lowest first.
Digit(p, k) == IF p + k <= LastByte(p) THEN At(p + k) % 128 ELSE 0

Low(p)  == Digit(p, 0) + 128 * Digit(p, 1) + 16384 * (Digit(p, 2) % 4)
High(p) == Digit(p, 2) >= 4 \/ Digit(p, 3) > 0 \/ Digit(p, 4) % 16 > 0

\* The uint32_t the digits are shifted into.  Nothing but its low 16 bits and
\* whether there are others is looked at: a number with others is the low ones
\* plus UINT16.  From the sixth digit on the shift is wider than the type,
\* which C leaves undefined: the result is any number.
VarintValues(p) ==
    IF LastByte(p) - p >= 5 THEN 0 .. 2 * UINT16 - 1
    ELSE {IF High(p) THEN Low(p) + UINT16 ELSE Low(p)}

Init == /\ data \in Inputs
        /\ pos = 0 /\ tag = 0 /\ portnum = 0 /\ payload = None /\ pc = "tag"

Field == tag \div 8
Wire  == tag % 8

\* The head of the loop: the next tag, or the end of the data.
ReadTag ==
    /\ pc = "tag" /\ pos < Size
    /\ tag' = At(pos)
    /\ pos' = pos + 1
    /\ pc' = "value"
    /\ UNCHANGED <<data, portnum, payload>>

EndOfData ==
    /\ pc = "tag" /\ pos >= Size
    /\ pc' = "done"
    /\ UNCHANGED <<data, pos, tag, portnum, payload>>

\* Mutation: a number is read without moving on.
VarintInPlace(p) == p - 1
\* Where the loop goes on after a number.
AfterVarint(p) == LastByte(p) + 1

VarintField ==
    /\ pc = "value" /\ Wire = 0
    /\ \E val \in VarintValues(pos) :
          portnum' = IF Field = 1 THEN val % 256 ELSE portnum
    /\ pos' = AfterVarint(pos)
    /\ pc' = "tag"
    /\ UNCHANGED <<data, tag, payload>>

\* Mutation: the length is compared with the whole message.
FitsMessage(flen, next) == flen <= Size
\* The payload lies in what is left of the message.
Fits(flen, next) == flen <= Size - next

\* Mutation: the position does not wrap.
SkipWide(p, n) == p + n
\* pos += n in 16 bits.
Skip(p, n) == (p + n) % UINT16

\* A length beyond the end is not a payload, but is skipped all the same.
BytesField ==
    /\ pc = "value" /\ Wire = 2 /\ pos < Size
    /\ \E flen \in VarintValues(pos) :
          LET next == LastByte(pos) + 1
          IN  /\ payload' = IF Field = 2 /\ Fits(flen, next)
                                THEN [off |-> next, len |-> flen, null |-> FALSE]
                                ELSE payload
              /\ pos' = Skip(next, flen)
    /\ pc' = "tag"
    /\ UNCHANGED <<data, tag, portnum>>

Fixed ==
    /\ pc = "value" /\ Wire \in {1, 5}
    /\ pos' = Skip(pos, IF Wire = 5 THEN 4 ELSE 8)
    /\ pc' = "tag"
    /\ UNCHANGED <<data, tag, portnum, payload>>

\* An unknown wire type, or a length that is missing.
Break ==
    /\ pc = "value"
    /\ Wire \notin {0, 1, 2, 5} \/ (Wire = 2 /\ pos >= Size)
    /\ pc' = "done"
    /\ UNCHANGED <<data, pos, tag, portnum, payload>>

Next == ReadTag \/ EndOfData \/ VarintField \/ BytesField \/ Fixed \/ Break

FairSpec == Init /\ [][Next]_vars /\ WF_vars(Next)

\* The loop prints and answers what it decoded (main_loop.c:213): any payload
\* that is not empty, whatever its port number.
Shows == pc = "done" /\ ~payload.null /\ payload.len > 0

Payload == SubSeq(data, payload.off + 1, payload.off + payload.len)

-----------------------------------------------------------------------------
\* The decoder's position has its 16 bits; what it found is no larger than the
\* message (pb_decode_data's results).
TypeOK ==
    /\ pos \in 0 .. UINT16 - 1
    /\ tag \in 0 .. 255
    /\ portnum \in 0 .. 255
    /\ pc \in {"tag", "value", "done"}
    /\ payload \in [off : 0 .. Size, len : 0 .. Size, null : BOOLEAN]

\* The text that is printed and compared with "pong" lies in the frame,
\* wherever the fields of a damaged message point (main_loop.c:90, 213-217).
PayloadInData == Shows => payload.off + payload.len <= Size

\* The decoder's loop comes to an end (main_loop.c:64).
Terminates == <>(pc = "done")
=============================================================================
