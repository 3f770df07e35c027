--------------------------- MODULE SerialFraming ----------------------------
(***************************************************************************)
(* Serial/serial_framing.c: serial_send_packet at one end of a line,       *)
(* serial_rx_byte at the other, which is fed whatever arrives: packets,    *)
(* and the bytes of any other sender.                                      *)
(* Bytes are 0 .. BYTE_BASE - 1 (256 in the code); the start bytes and     *)
(* SERIAL_MAX_PAYLOAD are scaled with it so that, as in the code, a length *)
(* whose high byte is a start byte is too long.                            *)
(***************************************************************************)
EXTENDS Integers, Sequences, SequencesExt

CONSTANTS BYTE_BASE, SERIAL_START1, SERIAL_START2, SERIAL_MAX_PAYLOAD,
          SENT_BYTES,           \* what the bodies of packets are made of
          MAX_BODY, MAX_SENT,   \* bounds: length of a body, packets
          MAX_STREAM            \* bound: bytes on the line

Byte == 0 .. BYTE_BASE - 1
Bodies == UNION {[1 .. n -> SENT_BYTES] : n \in 0 .. MAX_BODY}

ASSUME FramingAssumption ==
    /\ BYTE_BASE \in Nat /\ SERIAL_MAX_PAYLOAD \in Nat \ {0}
    /\ SERIAL_START1 \in Byte /\ SERIAL_START2 \in Byte
    /\ SERIAL_START1 # SERIAL_START2
    /\ SERIAL_START1 * BYTE_BASE > SERIAL_MAX_PAYLOAD
    /\ SERIAL_START2 * BYTE_BASE > SERIAL_MAX_PAYLOAD
    /\ SENT_BYTES \subseteq Byte
    /\ MAX_BODY \in Nat /\ MAX_SENT \in Nat /\ MAX_STREAM \in Nat

VARIABLES rx_state, rx_len, rx_idx, rx_buf,
          line,         \* the bytes between the two ends
          sent,         \* history: the bodies serial_send_packet took
          stream,       \* history: the bytes received
          delivered,    \* history: the bodies passed to the callback
          ended         \* history: the bytes received when the last one was

rx   == <<rx_state, rx_len, rx_idx, rx_buf>>
vars == <<rx, line, sent, stream, delivered, ended>>

Init ==
    /\ rx_state = "SYNC" /\ rx_len = 0 /\ rx_idx = 0
    /\ rx_buf = [i \in 0 .. SERIAL_MAX_PAYLOAD - 1 |-> 0]
    /\ line = <<>> /\ sent = <<>>
    /\ stream = <<>> /\ delivered = <<>> /\ ended = 0

-----------------------------------------------------------------------------
(* serial_send_packet: a header of four bytes and the body. *)

Header(n) == <<SERIAL_START1, SERIAL_START2, n \div BYTE_BASE, n % BYTE_BASE>>

Packet(body) == Header(Len(body)) \o body

serial_send_packet(body) ==
    /\ Len(sent) < MAX_SENT
    /\ line = <<>>
    /\ IF Len(body) > SERIAL_MAX_PAYLOAD
         THEN UNCHANGED vars
         ELSE /\ Len(stream) + 4 + Len(body) <= MAX_STREAM
              /\ line' = Packet(body)
              /\ sent' = Append(sent, body)
              /\ UNCHANGED <<rx, stream, delivered, ended>>

\* A byte of another sender, or of a damaged packet.
OtherByte(b) ==
    /\ line = <<>>
    /\ Len(stream) < MAX_STREAM
    /\ line' = <<b>>
    /\ UNCHANGED <<rx, sent, stream, delivered, ended>>

-----------------------------------------------------------------------------
(* serial_rx_byte, one action per case of its switch. *)

Body(n) == [i \in 1 .. n |-> rx_buf'[i - 1]]

Sync(b) ==
    /\ rx_state = "SYNC"
    /\ rx_state' = IF b = SERIAL_START1 THEN "LEN_MSB" ELSE "SYNC"
    /\ UNCHANGED <<rx_len, rx_idx, rx_buf, delivered>>

\* The second start byte is not expected: this byte is the length's high byte.
LenMsb(b) ==
    /\ rx_state = "LEN_MSB"
    /\ rx_len' = b * BYTE_BASE
    /\ rx_state' = "LEN_LSB"
    /\ UNCHANGED <<rx_idx, rx_buf, delivered>>

\* Mutation: the length is not checked.
LenLsbUnchecked(b) ==
    /\ rx_state = "LEN_LSB"
    /\ rx_len' = rx_len + b
    /\ rx_idx' = 0
    /\ rx_state' = "BODY"
    /\ UNCHANGED <<rx_buf, delivered>>

\* Mutation: a length that is too long does not end the packet.  (More bytes
\* that are or-ed to it leave it too long.)
LenLsbNoResync(b) ==
    /\ rx_state = "LEN_LSB"
    /\ rx_len' = IF rx_len > SERIAL_MAX_PAYLOAD THEN rx_len ELSE rx_len + b
    /\ IF rx_len' > SERIAL_MAX_PAYLOAD
         THEN UNCHANGED <<rx_state, rx_idx>>
         ELSE rx_state' = "BODY" /\ rx_idx' = 0
    /\ UNCHANGED <<rx_buf, delivered>>

\* Mutation: the index of the packet before is kept.
LenLsbKeepsIndex(b) ==
    /\ rx_state = "LEN_LSB"
    /\ rx_len' = rx_len + b
    /\ rx_state' = IF rx_len' > SERIAL_MAX_PAYLOAD THEN "SYNC" ELSE "BODY"
    /\ UNCHANGED <<rx_idx, rx_buf, delivered>>

LenLsb(b) ==
    /\ rx_state = "LEN_LSB"
    /\ rx_len' = rx_len + b
    /\ \/ /\ rx_len' > SERIAL_MAX_PAYLOAD
          /\ rx_state' = "SYNC"
          /\ UNCHANGED rx_idx
       \/ /\ rx_len' <= SERIAL_MAX_PAYLOAD
          /\ rx_state' = "BODY"
          /\ rx_idx' = 0
    /\ UNCHANGED <<rx_buf, delivered>>

\* The byte is stored before the length is looked at, so an empty body also
\* takes one.
BodyByte(b) ==
    /\ rx_state = "BODY"
    /\ rx_buf' = [rx_buf EXCEPT ![rx_idx] = b]
    /\ rx_idx' = rx_idx + 1
    /\ IF rx_idx' >= rx_len
         THEN rx_state' = "SYNC" /\ delivered' = Append(delivered, Body(rx_len))
         ELSE UNCHANGED <<rx_state, delivered>>
    /\ UNCHANGED rx_len

serial_rx_byte(b) == Sync(b) \/ LenMsb(b) \/ LenLsb(b) \/ BodyByte(b)

Receive ==
    /\ line # <<>>
    /\ serial_rx_byte(Head(line))
    /\ line' = Tail(line)
    /\ stream' = Append(stream, Head(line))
    /\ ended' = IF delivered' # delivered THEN Len(stream') ELSE ended
    /\ UNCHANGED sent

Next ==
    \/ \E body \in Bodies : serial_send_packet(body)
    \/ \E b \in Byte : OtherByte(b)
    \/ Receive

Spec == Init /\ [][Next]_vars

-----------------------------------------------------------------------------
TypeOK ==
    /\ rx_state \in {"SYNC", "LEN_MSB", "LEN_LSB", "BODY"}
    /\ rx_len \in 0 .. BYTE_BASE * BYTE_BASE - 1
    /\ rx_idx \in 0 .. SERIAL_MAX_PAYLOAD
    /\ rx_buf \in [0 .. SERIAL_MAX_PAYLOAD - 1 -> Byte]
    /\ rx_state = "BODY" => rx_len <= SERIAL_MAX_PAYLOAD /\ rx_idx < SERIAL_MAX_PAYLOAD
    /\ stream \in Seq(Byte) /\ ended \in 0 .. Len(stream)

\* Whatever came before, a receiver is in the middle of a packet only while it
\* can be: when the last START1 is so far back that the longest packet behind it
\* would be complete, the receiver looks for the next one (SERIAL_API.md:17-18:
\* resync on START1).  So no byte lost, damaged or added makes it deaf to the
\* packets that come later.
Resyncs ==
    (\A i \in 1 .. Len(stream) :
        stream[i] = SERIAL_START1 => i + 2 + SERIAL_MAX_PAYLOAD <= Len(stream))
      => rx_state = "SYNC"

\* What a packet may be taken from: in stream s, behind its byte from, a START1,
\* with or without the START2, the two bytes of the length, the first of them
\* byte at, and the body.
LenAt(s, at) == s[at] * BYTE_BASE + s[at + 1]

Came(body, s, from) ==
    \E at \in from + 2 .. Len(s) - 1 :
        /\ \/ s[at - 1] = SERIAL_START1
           \/ at > from + 2 /\ s[at - 2] = SERIAL_START1 /\ s[at - 1] = SERIAL_START2
        /\ Len(body) = LenAt(s, at)
        /\ at + 1 + Len(body) <= Len(s)
        /\ body = SubSeq(s, at + 2, at + 1 + Len(body))
        /\ body # <<>> => at + 1 + Len(body) = Len(s)

\* The callback only gets bodies that came over the line as they are: not too
\* long, whole, behind a START1 and their length, none of these bytes being one
\* of the packet before; one that is not empty is passed with its last byte.
DeliversWhatCame ==
    [][delivered' # delivered =>
          \E body \in {delivered'[Len(delivered')]} :
              /\ delivered' = Append(delivered, body)
              /\ Len(body) <= SERIAL_MAX_PAYLOAD
              /\ Came(body, stream', ended)]_vars

\* What serial_send_packet has sent over a line with no other sender arrives:
\* between packets the callback has got the bodies, in their order.
SentArrives ==
    stream = FlattenSeq([i \in 1 .. Len(sent) |-> Packet(sent[i])])
        => delivered = sent
=============================================================================
