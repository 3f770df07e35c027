------------------------ MODULE SerialFraming_proofs ------------------------
(***************************************************************************)
(* The receiver of serial_framing.c finds its way back to START1 and       *)
(* delivers only what came, for streams of any length, any bytes, any      *)
(* limit of the payload and any packets between them.                      *)
(*                                                                         *)
(* The invariant says where in the stream the packet begins that the       *)
(* receiver is in, and that rx_state, rx_len, rx_idx and rx_buf are what   *)
(* the stream has there: a START1, then the length, then the body so far,  *)
(* all of it behind the last byte of the packet delivered before.          *)
(***************************************************************************)
EXTENDS SerialFraming, SequenceTheorems, TLAPS

-----------------------------------------------------------------------------
(* The invariant. *)

\* Where the frame begins that the receiver is in.
Open == CASE rx_state = "SYNC"    -> Len(stream) + 1
          [] rx_state = "LEN_MSB" -> Len(stream)
          [] rx_state = "LEN_LSB" -> Len(stream) - 1
          [] rx_state = "BODY"    -> Len(stream) - 2 - rx_idx

\* What the receiver knows of the frame it is in.
Pending ==
    /\ rx_state = "LEN_MSB" => /\ Len(stream) >= 1
                               /\ stream[Len(stream)] = SERIAL_START1
    /\ rx_state = "LEN_LSB" => /\ Len(stream) >= 2
                               /\ stream[Len(stream) - 1] = SERIAL_START1
                               /\ rx_len = stream[Len(stream)] * BYTE_BASE
    /\ rx_state = "BODY" => /\ Len(stream) >= rx_idx + 3
                            /\ stream[Open] = SERIAL_START1
                            /\ rx_len = LenAt(stream, Open + 1)
                            /\ rx_idx = 0 \/ rx_idx < rx_len
                            /\ \A i \in 0 .. rx_idx - 1 : rx_buf[i] = stream[Open + 3 + i]

Bytes(s, p, n) == [i \in 1 .. n |-> s[p + 2 + i]]

Types == /\ TypeOK /\ line \in Seq(Byte)
         /\ delivered \in Seq(Seq(Byte))

\* The packet begins behind the one delivered last.
Apart == ended < Open

IInv == Types /\ Pending /\ Apart

-----------------------------------------------------------------------------
(* Bytes and lengths. *)

LEMMA Base ==
    ASSUME FramingAssumption
    PROVE  /\ BYTE_BASE \in Nat /\ BYTE_BASE >= 2 /\ 0 \in Byte
           /\ SERIAL_START1 \in Byte /\ SERIAL_START2 \in Byte
           /\ SERIAL_MAX_PAYLOAD \in Nat /\ SERIAL_MAX_PAYLOAD > 0
  BY DEF FramingAssumption, Byte

LEMMA ByteIsNat ==
    ASSUME FramingAssumption
    PROVE  \A b \in Byte : b \in Nat /\ b < BYTE_BASE
  BY DEF FramingAssumption, Byte

\* Two bytes make a length of 16 bits.
LEMMA TwoBytes ==
    ASSUME FramingAssumption
    PROVE  \A a, b \in Byte : /\ a * BYTE_BASE \in 0 .. BYTE_BASE * BYTE_BASE - 1
                              /\ a * BYTE_BASE + b \in 0 .. BYTE_BASE * BYTE_BASE - 1
  <1> SUFFICES ASSUME NEW a \in Byte, NEW b \in Byte
               PROVE  /\ a * BYTE_BASE \in 0 .. BYTE_BASE * BYTE_BASE - 1
                      /\ a * BYTE_BASE + b \in 0 .. BYTE_BASE * BYTE_BASE - 1
    OBVIOUS
  <1>1. BYTE_BASE \in Nat /\ a \in Nat /\ b \in Nat /\ a + 1 <= BYTE_BASE /\ b < BYTE_BASE
    BY Base, ByteIsNat
  <1>2. (a + 1) * BYTE_BASE <= BYTE_BASE * BYTE_BASE
    BY <1>1
  <1>3. (a + 1) * BYTE_BASE = a * BYTE_BASE + BYTE_BASE /\ a * BYTE_BASE \in Nat
    BY <1>1
  <1>4. BYTE_BASE * BYTE_BASE \in Nat
    BY <1>1
  <1>5. QED  BY <1>1, <1>2, <1>3, <1>4

\* The length of a body fits in two bytes.
LEMMA LengthBytes ==
    ASSUME FramingAssumption, NEW n \in Nat, n <= SERIAL_MAX_PAYLOAD
    PROVE  n \div BYTE_BASE \in Byte /\ n % BYTE_BASE \in Byte
  <1>1. /\ BYTE_BASE \in Nat \ {0} /\ SERIAL_START1 \in Nat /\ SERIAL_START1 < BYTE_BASE
        /\ n < SERIAL_START1 * BYTE_BASE /\ SERIAL_MAX_PAYLOAD \in Nat
    BY Base, ByteIsNat DEF FramingAssumption
  <1>2. DEFINE q == n \div BYTE_BASE
  <1>3. q \in Nat /\ BYTE_BASE * q <= n /\ n % BYTE_BASE \in 0 .. BYTE_BASE - 1
    BY <1>1
  <1>4. ASSUME q >= BYTE_BASE PROVE FALSE
    <2> HIDE DEF q
    <2>1. BYTE_BASE * q >= BYTE_BASE * SERIAL_START1
      BY <1>1, <1>3, <1>4
    <2>2. BYTE_BASE * SERIAL_START1 = SERIAL_START1 * BYTE_BASE /\ BYTE_BASE * q \in Nat
      BY <1>1, <1>3
    <2>3. QED  BY <1>1, <1>3, <2>1, <2>2
  <1>5. QED  BY <1>1, <1>3, <1>4 DEF Byte

Number(a, b) == a * BYTE_BASE + b

LEMMA NumberIsNat ==
    ASSUME FramingAssumption
    PROVE  \A a, b \in Byte : Number(a, b) \in Nat
  BY TwoBytes DEF Number

LEMMA LengthIsNat ==
    ASSUME FramingAssumption, NEW s \in Seq(Byte), NEW i \in 1 .. Len(s), i + 2 <= Len(s)
    PROVE  LenAt(s, i + 1) \in Nat
  <1>1. s[i + 1] \in Byte /\ s[i + 2] \in Byte
    OBVIOUS
  <1>2. i + 1 + 1 = i + 2
    OBVIOUS
  <1>3. LenAt(s, i + 1) = Number(s[i + 1], s[i + 2])
    BY Zenon, <1>2 DEF LenAt, Number
  <1>4. QED  BY <1>1, <1>3, NumberIsNat

LEMMA Streams ==
    ASSUME Types
    PROVE  /\ stream \in Seq(Byte) /\ Len(stream) \in Nat
           /\ delivered \in Seq(Seq(Byte)) /\ Len(delivered) \in Nat
           /\ rx_state \in {"SYNC", "LEN_MSB", "LEN_LSB", "BODY"}
           /\ ended \in Nat /\ ended <= Len(stream)
           /\ rx_len \in Nat /\ rx_idx \in Nat /\ rx_idx <= SERIAL_MAX_PAYLOAD
           /\ rx_state = "BODY" => rx_len <= SERIAL_MAX_PAYLOAD
  <1>1. stream \in Seq(Byte) /\ delivered \in Seq(Seq(Byte))
    BY DEF Types, TypeOK
  <1>2. /\ rx_state \in {"SYNC", "LEN_MSB", "LEN_LSB", "BODY"}
        /\ ended \in Nat /\ ended <= Len(stream)
        /\ rx_len \in Nat /\ rx_idx \in Nat /\ rx_idx <= SERIAL_MAX_PAYLOAD
        /\ rx_state = "BODY" => rx_len <= SERIAL_MAX_PAYLOAD
    BY DEF Types, TypeOK
  <1>3. QED  BY <1>1, <1>2

\* The receiver is in a packet that began with the stream, and not long ago.
LEMMA Bounds ==
    ASSUME FramingAssumption, Types, Pending
    PROVE  /\ Len(stream) \in Nat /\ Open \in Nat \ {0} /\ Open <= Len(stream) + 1
           /\ rx_state # "SYNC" => /\ Open <= Len(stream) /\ stream[Open] = SERIAL_START1
                                  /\ Len(stream) < Open + 2 + SERIAL_MAX_PAYLOAD
  <1>1. /\ Len(stream) \in Nat /\ rx_idx \in Nat /\ rx_len \in Nat
        /\ rx_state \in {"SYNC", "LEN_MSB", "LEN_LSB", "BODY"}
        /\ SERIAL_MAX_PAYLOAD \in Nat /\ SERIAL_MAX_PAYLOAD > 0
    BY Streams, Base
  <1>2. CASE rx_state = "SYNC"
    BY <1>1, <1>2 DEF Open
  <1>3. CASE rx_state = "LEN_MSB"
    BY <1>1, <1>3 DEF Open, Pending
  <1>4. CASE rx_state = "LEN_LSB"
    BY <1>1, <1>4 DEF Open, Pending
  <1>5. CASE rx_state = "BODY"
    <2>1. /\ Open = Len(stream) - 2 - rx_idx /\ Len(stream) >= rx_idx + 3
          /\ stream[Open] = SERIAL_START1
      BY <1>5 DEF Open, Pending
    <2>2. rx_idx < SERIAL_MAX_PAYLOAD
      BY <1>5 DEF Types, TypeOK
    <2>3. QED  BY <1>1, <1>5, <2>1, <2>2
  <1>6. QED  BY <1>1, <1>2, <1>3, <1>4, <1>5

LEMMA BytesOfBody ==
    ASSUME NEW s \in Seq(Byte), NEW p \in Nat \ {0}, NEW n \in Nat, p + 2 + n <= Len(s)
    PROVE  Bytes(s, p, n) \in Seq(Byte) /\ SubSeq(s, p + 3, p + 2 + n) = Bytes(s, p, n)
  <1>1. DEFINE u == SubSeq(s, p + 3, p + 2 + n)
               v == Bytes(s, p, n)
  <1>2. Len(s) \in Nat /\ \A i \in 1 .. n : p + 2 + i \in 1 .. Len(s)
    OBVIOUS
  <1>3. v \in Seq(Byte) /\ Len(v) = n /\ \A i \in 1 .. n : v[i] = s[p + 2 + i]
    <2>1. \A i \in 1 .. n : s[p + 2 + i] \in Byte
      BY <1>2
    <2>2. v \in [1 .. n -> Byte]
      BY <2>1 DEF Bytes
    <2>3. QED  BY <2>2 DEF Bytes
  <1>4. \A i \in p + 3 .. p + 2 + n : s[i] \in Byte
    BY <1>2
  <1>5. u \in Seq(Byte) /\ Len(u) = n /\ \A i \in 1 .. n : u[i] = s[p + 2 + i]
    <2>1. p + 3 \in Int /\ p + 2 + n \in Int /\ (p + 2 + n) - (p + 3) + 1 = n
      OBVIOUS
    <2>2. /\ u \in Seq(Byte)
          /\ Len(u) = IF p + 3 <= p + 2 + n THEN (p + 2 + n) - (p + 3) + 1 ELSE 0
          /\ \A i \in 1 .. (p + 2 + n) - (p + 3) + 1 : u[i] = s[(p + 3) + i - 1]
      BY <1>4, <2>1, SubSeqProperties
    <2>3. Len(u) = n
      BY <2>2
    <2>4. \A i \in 1 .. n : (p + 3) + i - 1 = p + 2 + i
      OBVIOUS
    <2>5. QED  BY <2>1, <2>2, <2>3, <2>4
  <1>6. QED  BY <1>3, <1>5, SeqEqual

-----------------------------------------------------------------------------
(* A byte more. *)

Longer(b) == /\ stream' \in Seq(Byte) /\ Len(stream') = Len(stream) + 1
             /\ \A i \in 1 .. Len(stream) : stream'[i] = stream[i]
             /\ stream'[Len(stream) + 1] = b

\* When the packet before ended.
Ends == ended' = IF delivered' # delivered THEN Len(stream') ELSE ended

\* The callback gets one body more, which came behind the packet before.
Delivery == \E body \in {delivered'[Len(delivered')]} :
                /\ delivered' = Append(delivered, body)
                /\ Len(body) <= SERIAL_MAX_PAYLOAD
                /\ Came(body, stream', ended)

LEMMA Appended ==
    ASSUME Types, NEW b \in Byte, stream' = Append(stream, b)
    PROVE  Longer(b)
  <1>1. stream \in Seq(Byte)
    BY Streams
  <1>2. QED  BY <1>1, AppendProperties DEF Longer

LEMMA LengthKept ==
    ASSUME FramingAssumption, Types, NEW b, Longer(b), NEW p \in Nat \ {0}, p + 2 <= Len(stream)
    PROVE  /\ stream'[p] = stream[p] /\ p + 2 <= Len(stream')
           /\ LenAt(stream', p + 1) = LenAt(stream, p + 1)
  <1>1. stream \in Seq(Byte) /\ Len(stream) \in Nat /\ Len(stream') = Len(stream) + 1
    BY Streams DEF Longer
  <1>2. p \in 1 .. Len(stream) /\ p + 1 \in 1 .. Len(stream) /\ p + 1 + 1 \in 1 .. Len(stream)
    BY <1>1
  <1>3. /\ stream'[p] = stream[p] /\ stream'[p + 1] = stream[p + 1]
        /\ stream'[p + 1 + 1] = stream[p + 1 + 1]
    BY <1>2 DEF Longer
  <1>4. LenAt(stream', p + 1) = LenAt(stream, p + 1)
    BY Zenon, <1>3 DEF LenAt
  <1>5. p + 2 <= Len(stream')
    BY <1>1
  <1>6. QED  BY <1>3, <1>4, <1>5

-----------------------------------------------------------------------------
(* serial_rx_byte. *)

\* What the receiver keeps of its types in any state but BODY.
LEMMA TypesKept ==
    ASSUME FramingAssumption, Types, NEW b \in Byte, Longer(b), line' \in Seq(Byte),
           UNCHANGED <<rx_buf, delivered, ended>>, rx_idx' \in 0 .. SERIAL_MAX_PAYLOAD,
           rx_len' \in 0 .. BYTE_BASE * BYTE_BASE - 1,
           rx_state' \in {"SYNC", "LEN_MSB", "LEN_LSB", "BODY"},
           rx_state' = "BODY" => rx_len' <= SERIAL_MAX_PAYLOAD /\ rx_idx' < SERIAL_MAX_PAYLOAD
    PROVE  Types'
  <1>1. ended' \in 0 .. Len(stream')
    BY Streams DEF Types, TypeOK, Longer
  <1>2. QED  BY <1>1 DEF Types, TypeOK, Longer

LEMMA SyncStep ==
    ASSUME FramingAssumption, IInv, NEW b \in Byte, Longer(b), line' \in Seq(Byte), Ends, Sync(b)
    PROVE  IInv'
  <1>1. /\ rx_state = "SYNC" /\ Open = Len(stream) + 1
        /\ rx_state' = IF b = SERIAL_START1 THEN "LEN_MSB" ELSE "SYNC"
        /\ UNCHANGED <<rx_len, rx_idx, rx_buf, delivered, ended>>
    BY DEF Sync, Open, Ends
  <1>2. Types /\ Pending /\ Apart
    BY DEF IInv
  <1>3. /\ Len(stream) \in Nat /\ ended \in Nat
        /\ Len(stream') = Len(stream) + 1 /\ stream'[Len(stream) + 1] = b
    BY <1>2, Streams DEF Longer
  <1>4. Types'
    <2>1. /\ rx_idx' \in 0 .. SERIAL_MAX_PAYLOAD
          /\ rx_len' \in 0 .. BYTE_BASE * BYTE_BASE - 1
      BY <1>1, <1>2 DEF Types, TypeOK
    <2>2. QED  BY <1>1, <1>2, <2>1, TypesKept
  <1>5. Apart'
    <2>1. Open' = Len(stream') + 1 \/ Open' = Len(stream')
      BY <1>1 DEF Open
    <2>2. QED  BY <1>1, <1>2, <1>3, <2>1 DEF Apart
  <1>6. Pending'
    BY <1>1, <1>3 DEF Pending
  <1>7. QED  BY <1>4, <1>5, <1>6 DEF IInv

LEMMA LenMsbStep ==
    ASSUME FramingAssumption, IInv, NEW b \in Byte, Longer(b), line' \in Seq(Byte), Ends, LenMsb(b)
    PROVE  IInv'
  <1>1. /\ rx_state = "LEN_MSB" /\ Open = Len(stream)
        /\ rx_state' = "LEN_LSB" /\ rx_len' = b * BYTE_BASE
        /\ UNCHANGED <<rx_idx, rx_buf, delivered, ended>>
    BY DEF LenMsb, Open, Ends
  <1>2. Types /\ Pending /\ Apart
    BY DEF IInv
  <1>3. /\ Len(stream) \in Nat /\ Len(stream) >= 1 /\ stream[Len(stream)] = SERIAL_START1
        /\ Len(stream') = Len(stream) + 1 /\ stream'[Len(stream) + 1] = b
    BY <1>1, <1>2, Streams DEF Longer, Pending
  <1>4. Types'
    <2>1. rx_idx' \in 0 .. SERIAL_MAX_PAYLOAD
      BY <1>1, <1>2 DEF Types, TypeOK
    <2>2. rx_len' \in 0 .. BYTE_BASE * BYTE_BASE - 1
      BY <1>1, TwoBytes
    <2>3. QED  BY <1>1, <1>2, <2>1, <2>2, TypesKept
  <1>5. Open' = Open
    BY <1>1, <1>3 DEF Open
  <1>6. Apart'
    BY <1>1, <1>2, <1>5 DEF Apart
  <1>7. stream'[Len(stream)] = stream[Len(stream)]
    <2>1. Len(stream) \in 1 .. Len(stream)
      BY <1>3
    <2>2. QED  BY <2>1 DEF Longer
  <1>8. Pending'
    <2>1. Len(stream') >= 2 /\ Len(stream') - 1 = Len(stream)
      BY <1>3
    <2>2. stream'[Len(stream') - 1] = SERIAL_START1
      BY <1>3, <1>7, <2>1
    <2>3. rx_len' = stream'[Len(stream')] * BYTE_BASE
      BY Zenon, <1>1, <1>3
    <2>4. QED  BY <1>1, <2>1, <2>2, <2>3 DEF Pending
  <1>9. QED  BY <1>4, <1>6, <1>8 DEF IInv

LEMMA LenLsbStep ==
    ASSUME FramingAssumption, IInv, NEW b \in Byte, Longer(b), line' \in Seq(Byte), Ends, LenLsb(b)
    PROVE  IInv'
  <1>1. /\ rx_state = "LEN_LSB" /\ Open = Len(stream) - 1
        /\ rx_len' = rx_len + b /\ UNCHANGED <<rx_buf, delivered, ended>>
        /\ \/ rx_len' > SERIAL_MAX_PAYLOAD /\ rx_state' = "SYNC" /\ rx_idx' = rx_idx
           \/ rx_len' <= SERIAL_MAX_PAYLOAD /\ rx_state' = "BODY" /\ rx_idx' = 0
    BY DEF LenLsb, Open, Ends
  <1>2. Types /\ Pending /\ Apart
    BY DEF IInv
  <1>3. /\ Len(stream) \in Nat /\ ended \in Nat /\ Len(stream) >= 2
        /\ stream[Len(stream) - 1] = SERIAL_START1
        /\ Len(stream') = Len(stream) + 1 /\ stream'[Len(stream) + 1] = b
    BY <1>1, <1>2, Streams DEF Longer, Pending
  <1>4. rx_len = stream[Len(stream)] * BYTE_BASE
    BY Zenon, <1>1, <1>2 DEF Pending
  <1>5. PICK o \in Nat \ {0} : o = Open
    BY <1>2, Bounds
  <1>6. /\ o + 1 = Len(stream) /\ o + 2 = Len(stream) + 1 /\ o + 1 + 1 = o + 2
        /\ o \in 1 .. Len(stream) /\ o + 1 \in 1 .. Len(stream)
    BY <1>1, <1>3, <1>5
  <1>7. /\ stream'[o] = SERIAL_START1 /\ stream'[o + 1] = stream[o + 1]
        /\ stream'[o + 2] = b
    <2>1. stream'[o] = stream[o] /\ stream'[o + 1] = stream[o + 1]
      BY <1>6 DEF Longer
    <2>2. stream[o] = SERIAL_START1
      BY <1>1, <1>3, <1>5
    <2>3. QED  BY <1>3, <1>6, <2>1, <2>2
  <1>8. rx_len' = LenAt(stream', o + 1)
    BY Zenon, <1>1, <1>4, <1>6, <1>7 DEF LenAt
  <1>9. rx_len' \in 0 .. BYTE_BASE * BYTE_BASE - 1 /\ rx_len' \in Nat
    <2>1. stream[o + 1] \in Byte
      BY <1>2, <1>6, Streams
    <2>2. rx_len' = stream[o + 1] * BYTE_BASE + b
      BY Zenon, <1>1, <1>4, <1>6
    <2>3. rx_len' \in 0 .. BYTE_BASE * BYTE_BASE - 1
      BY Zenon, <2>1, <2>2, TwoBytes
    <2>4. QED  BY <2>3
  <1>10. Types'
    <2>1. rx_idx' \in 0 .. SERIAL_MAX_PAYLOAD
      BY <1>1, <1>2, Base DEF Types, TypeOK
    <2>2. rx_state' = "BODY" => rx_len' <= SERIAL_MAX_PAYLOAD /\ rx_idx' < SERIAL_MAX_PAYLOAD
      BY <1>1, Base
    <2>3. rx_state' \in {"SYNC", "LEN_MSB", "LEN_LSB", "BODY"}
      BY <1>1
    <2>4. QED  BY <1>1, <1>2, <1>9, <2>1, <2>2, <2>3, TypesKept
  <1>11. CASE rx_len' > SERIAL_MAX_PAYLOAD /\ rx_state' = "SYNC"
    <2>1. Open' = Len(stream') + 1
      BY <1>11 DEF Open
    <2>2. ended < Open'
      BY <1>2, <1>3, <1>5, <1>6, <2>1 DEF Apart
    <2>3. Apart'
      BY <1>1, <2>2 DEF Apart
    <2>4. Pending'
      BY <1>11 DEF Pending
    <2>5. QED  BY <1>10, <2>3, <2>4 DEF IInv
  <1>12. CASE rx_len' <= SERIAL_MAX_PAYLOAD /\ rx_state' = "BODY" /\ rx_idx' = 0
    <2>1. Open' = o
      BY <1>3, <1>6, <1>12 DEF Open
    <2>2. Apart'
      BY <1>1, <1>2, <1>5, <2>1 DEF Apart
    <2>3. Len(stream') >= rx_idx' + 3
      BY <1>3, <1>12
    <2>4. \A i \in 0 .. rx_idx' - 1 : rx_buf'[i] = stream'[Open' + 3 + i]
      BY <1>12
    <2>5. stream'[Open'] = SERIAL_START1 /\ rx_len' = LenAt(stream', Open' + 1)
      BY <1>7, <1>8, <2>1
    <2>6. Pending'
      BY <1>12, <2>3, <2>4, <2>5 DEF Pending
    <2>7. QED  BY <1>10, <2>2, <2>6 DEF IInv
  <1>13. QED  BY <1>1, <1>11, <1>12

LEMMA BodyByteStep ==
    ASSUME FramingAssumption, IInv, NEW b \in Byte, Longer(b), line' \in Seq(Byte), Ends, BodyByte(b)
    PROVE  IInv' /\ (delivered' # delivered => Delivery)
  <1>1. /\ rx_state = "BODY" /\ Open = Len(stream) - 2 - rx_idx
        /\ rx_buf' = [rx_buf EXCEPT ![rx_idx] = b]
        /\ rx_idx' = rx_idx + 1 /\ rx_len' = rx_len
        /\ IF rx_idx' >= rx_len
             THEN rx_state' = "SYNC" /\ delivered' = Append(delivered, Body(rx_len))
             ELSE UNCHANGED <<rx_state, delivered>>
    BY DEF BodyByte, Open
  <1>2. Types /\ Pending /\ Apart
    BY DEF IInv
  <1>3. /\ Len(stream) \in Nat /\ ended \in Nat
        /\ rx_idx \in Nat /\ rx_len \in Nat /\ rx_len <= SERIAL_MAX_PAYLOAD
        /\ SERIAL_MAX_PAYLOAD \in Nat
        /\ Len(stream') = Len(stream) + 1
        /\ stream'[Len(stream) + 1] = b
    BY <1>1, <1>2, Streams, Base DEF Longer, Types, TypeOK
  <1>4. /\ rx_idx < SERIAL_MAX_PAYLOAD
        /\ rx_len' \in 0 .. BYTE_BASE * BYTE_BASE - 1
        /\ rx_buf \in [0 .. SERIAL_MAX_PAYLOAD - 1 -> Byte]
    BY <1>1, <1>2 DEF Types, TypeOK
  <1>5. PICK o \in Nat \ {0} : o = Open
    BY <1>2, Bounds
  <1>6. /\ Len(stream) >= rx_idx + 3
        /\ stream[o] = SERIAL_START1 /\ rx_len = LenAt(stream, o + 1)
        /\ rx_idx = 0 \/ rx_idx < rx_len
        /\ \A i \in 0 .. rx_idx - 1 : rx_buf[i] = stream[o + 3 + i]
    BY <1>1, <1>2, <1>5 DEF Pending
  <1>7. o + 2 + rx_idx = Len(stream) /\ o + 2 <= Len(stream)
    BY <1>1, <1>3, <1>5
  <1>8. stream'[o] = SERIAL_START1 /\ LenAt(stream', o + 1) = rx_len /\ o + 2 <= Len(stream')
    BY <1>2, <1>6, <1>7, LengthKept
  <1>9. /\ rx_buf' \in [0 .. SERIAL_MAX_PAYLOAD - 1 -> Byte]
        /\ \A i \in 0 .. rx_idx : rx_buf'[i] = stream'[o + 3 + i]
    <2>1. rx_idx \in 0 .. SERIAL_MAX_PAYLOAD - 1
      BY <1>3, <1>4
    <2>2. /\ rx_buf' \in [0 .. SERIAL_MAX_PAYLOAD - 1 -> Byte] /\ rx_buf'[rx_idx] = b
          /\ \A i \in 0 .. rx_idx - 1 : rx_buf'[i] = rx_buf[i]
      BY <1>1, <1>3, <1>4, <2>1
    <2>3. ASSUME NEW i \in 0 .. rx_idx PROVE rx_buf'[i] = stream'[o + 3 + i]
      <3>1. CASE i = rx_idx
        <4>1. o + 3 + i = Len(stream) + 1
          BY <1>3, <1>7, <3>1
        <4>2. QED  BY <1>3, <2>2, <3>1, <4>1
      <3>2. CASE i # rx_idx
        <4>1. i \in 0 .. rx_idx - 1 /\ o + 3 + i \in 1 .. Len(stream)
          BY <1>3, <1>7, <3>2
        <4>2. stream'[o + 3 + i] = stream[o + 3 + i]
          BY <4>1 DEF Longer
        <4>3. QED  BY <1>6, <2>2, <4>1, <4>2
      <3>3. QED  BY <3>1, <3>2
    <2>4. QED  BY <2>2, <2>3
  <1>10. CASE rx_idx' >= rx_len
    <2>1. rx_state' = "SYNC" /\ delivered' = Append(delivered, Body(rx_len))
      BY <1>1, <1>10
    <2>2. PICK n \in Nat : n = rx_len
      BY <1>3
    <2>3. n <= rx_idx + 1 /\ (n # 0 => rx_idx + 1 = n) /\ n <= SERIAL_MAX_PAYLOAD
      BY <1>1, <1>3, <1>6, <1>10, <2>2
    <2>4. Body(rx_len) = Bytes(stream', o, n)
      <3>1. \A i \in 1 .. n : i - 1 \in 0 .. rx_idx /\ o + 3 + (i - 1) = o + 2 + i
        BY <1>3, <2>3
      <3>2. \A i \in 1 .. n : rx_buf'[i - 1] = stream'[o + 2 + i]
        BY <1>9, <3>1
      <3>3. QED  BY <2>2, <3>2 DEF Body, Bytes
    <2>5. /\ o + 2 + n <= Len(stream') /\ o + 3 <= Len(stream')
          /\ n # 0 => o + 2 + n = Len(stream')
      BY <1>3, <1>7, <2>3
    <2>6. PICK body \in Seq(Byte) : body = Bytes(stream', o, n)
      BY <2>5, BytesOfBody DEF Longer
    <2>7. PICK at \in Nat : at = o + 1
      OBVIOUS
    <2>8. Came(body, stream', ended)
      <3>1. at \in ended + 2 .. Len(stream') - 1
        BY <1>2, <1>3, <1>5, <2>5, <2>7, Streams DEF Longer, Apart
      <3>2. at - 1 = o /\ at + 2 = o + 3 /\ at + 1 + n = o + 2 + n
        BY <2>7
      <3>3. Len(body) = n
        BY <2>6 DEF Bytes
      <3>4. at + 1 + Len(body) <= Len(stream') /\ at + 1 + Len(body) = o + 2 + n
        BY <1>3, <2>5, <3>2, <3>3
      <3>5. body = SubSeq(stream', at + 2, at + 1 + Len(body))
        <4>1. body = SubSeq(stream', o + 3, o + 2 + n)
          BY <2>5, <2>6, BytesOfBody DEF Longer
        <4>2. QED  BY ONLY <3>2, <3>4, <4>1, Zenon
      <3>6. body # <<>> => at + 1 + Len(body) = Len(stream')
        <4>1. body # <<>> => n # 0
          BY <3>3
        <4>2. QED  BY <2>5, <3>4, <4>1
      <3>7. Len(body) = LenAt(stream', at) /\ stream'[at - 1] = SERIAL_START1
        BY <1>8, <2>2, <2>7, <3>2, <3>3
      <3>8. QED  BY ONLY <3>1, <3>4, <3>5, <3>6, <3>7, Zenon DEF Came
    <2>9. /\ delivered' = Append(delivered, body) /\ delivered' \in Seq(Seq(Byte))
          /\ delivered' # delivered /\ delivered'[Len(delivered')] = body
      <3>1. delivered \in Seq(Seq(Byte)) /\ Len(delivered) \in Nat
        BY <1>2, Streams
      <3>2. delivered' = Append(delivered, body)
        BY <2>1, <2>4, <2>6
      <3>3. Len(delivered') = Len(delivered) + 1
        BY <3>1, <3>2, AppendProperties
      <3>4. QED  BY <3>1, <3>2, <3>3, AppendProperties
    <2>10. Delivery
      <3>1. Len(body) <= SERIAL_MAX_PAYLOAD
        BY <2>3, <2>6 DEF Bytes
      <3>2. QED  BY <2>8, <2>9, <3>1 DEF Delivery
    <2>11. ended' = Len(stream')
      BY <2>9 DEF Ends
    <2>12. Apart'
      BY <1>3, <2>1, <2>11 DEF Apart, Open
    <2>13. Types'
      <3>1. rx_idx' \in 0 .. SERIAL_MAX_PAYLOAD
        BY <1>1, <1>3, <1>4
      <3>2. stream' \in Seq(Byte) /\ ended' \in 0 .. Len(stream')
        BY <1>3, <2>11 DEF Longer
      <3>3. QED  BY <1>4, <1>9, <2>1, <2>9, <3>1, <3>2 DEF Types, TypeOK
    <2>14. Pending'
      BY <2>1 DEF Pending
    <2>15. QED  BY <2>10, <2>12, <2>13, <2>14 DEF IInv
  <1>11. CASE ~(rx_idx' >= rx_len)
    <2>1. rx_state' = "BODY" /\ delivered' = delivered /\ ended' = ended
      BY <1>1, <1>11 DEF Ends
    <2>2. rx_idx + 1 < rx_len
      BY <1>1, <1>3, <1>11
    <2>3. Open' = o
      <3>1. Open' = Len(stream') - 2 - rx_idx'
        BY <2>1 DEF Open
      <3>2. QED  BY <1>1, <1>3, <1>7, <3>1
    <2>4. Apart'
      BY <1>2, <1>5, <2>1, <2>3 DEF Apart
    <2>5. Types'
      <3>1. rx_idx' \in 0 .. SERIAL_MAX_PAYLOAD /\ rx_idx' < SERIAL_MAX_PAYLOAD
        BY <1>1, <1>3, <2>2
      <3>2. /\ stream' \in Seq(Byte) /\ delivered' \in Seq(Seq(Byte))
            /\ ended' \in 0 .. Len(stream')
        BY <1>2, <1>3, <2>1, Streams DEF Longer, Types, TypeOK
      <3>3. rx_len' <= SERIAL_MAX_PAYLOAD
        BY <1>1, <1>3
      <3>4. QED  BY <1>4, <1>9, <2>1, <3>1, <3>2, <3>3 DEF Types, TypeOK
    <2>6. Pending'
      <3>1. Len(stream') >= rx_idx' + 3 /\ rx_idx' < rx_len' /\ rx_idx' - 1 = rx_idx
        BY <1>1, <1>3, <1>7, <2>2
      <3>2. \A i \in 0 .. rx_idx' - 1 : rx_buf'[i] = stream'[Open' + 3 + i]
        BY <1>9, <2>3, <3>1
      <3>3. stream'[Open'] = SERIAL_START1 /\ rx_len' = LenAt(stream', Open' + 1)
        BY <1>1, <1>8, <2>3
      <3>4. QED  BY <2>1, <3>1, <3>2, <3>3 DEF Pending
    <2>7. QED  BY <2>1, <2>4, <2>5, <2>6 DEF IInv
  <1>12. QED  BY <1>10, <1>11

-----------------------------------------------------------------------------
(* The line. *)

LEMMA PacketBytes ==
    ASSUME FramingAssumption, NEW body \in Bodies, Len(body) <= SERIAL_MAX_PAYLOAD
    PROVE  Packet(body) \in Seq(Byte)
  <1>1. body \in Seq(Byte) /\ Len(body) \in Nat
    <2>1. PICK n \in 0 .. MAX_BODY : body \in [1 .. n -> SENT_BYTES]
      BY DEF Bodies
    <2>2. SENT_BYTES \subseteq Byte /\ n \in Nat
      BY DEF FramingAssumption
    <2>3. QED  BY <2>1, <2>2
  <1>2. Len(body) \div BYTE_BASE \in Byte /\ Len(body) % BYTE_BASE \in Byte
    BY <1>1, LengthBytes
  <1>3. Header(Len(body)) \in Seq(Byte)
    BY <1>2, Base DEF Header
  <1>4. QED  BY <1>1, <1>3, ConcatProperties DEF Packet

\* What is put on the line does not touch the receiver.
LEMMA LineOnly ==
    ASSUME IInv, UNCHANGED <<rx, stream, delivered, ended>>, line' \in Seq(Byte)
    PROVE  IInv'
  <1>1. Types' /\ Open' = Open
    BY DEF IInv, Types, TypeOK, Open, rx
  <1>2. Pending'
    BY <1>1 DEF IInv, Pending, rx
  <1>3. Apart'
    BY <1>1 DEF IInv, Apart
  <1>4. QED  BY <1>1, <1>2, <1>3 DEF IInv

LEMMA Started ==
    ASSUME FramingAssumption, Init
    PROVE  IInv
  <1>1. /\ rx_state = "SYNC" /\ rx_len = 0 /\ rx_idx = 0 /\ line = <<>>
        /\ stream = <<>> /\ delivered = <<>> /\ Len(stream) = 0 /\ ended = 0
        /\ rx_buf \in [0 .. SERIAL_MAX_PAYLOAD - 1 -> Byte]
    BY Base DEF Init
  <1>2. Types
    <2>1. 0 \in 0 .. BYTE_BASE * BYTE_BASE - 1 /\ 0 \in 0 .. SERIAL_MAX_PAYLOAD
      <3>1. 0 * BYTE_BASE = 0 /\ 0 \in Byte
        BY Base
      <3>2. QED  BY <3>1, TwoBytes, Base
    <2>2. QED  BY <1>1, <2>1 DEF Types, TypeOK
  <1>3. Pending
    BY <1>1 DEF Pending
  <1>4. Apart
    BY <1>1 DEF Open, Apart
  <1>5. QED  BY <1>2, <1>3, <1>4 DEF IInv

LEMMA Received ==
    ASSUME FramingAssumption, IInv, Receive
    PROVE  IInv' /\ (delivered' # delivered => Delivery)
  <1>1. line \in Seq(Byte) /\ line # <<>> /\ Types
    BY DEF IInv, Types, Receive
  <1>2. Head(line) \in Byte /\ Tail(line) \in Seq(Byte)
    BY <1>1, HeadTailProperties
  <1>3. PICK b \in Byte : b = Head(line)
    BY <1>2
  <1>4. line' \in Seq(Byte) /\ stream' = Append(stream, b) /\ serial_rx_byte(b) /\ Ends
    BY <1>2, <1>3 DEF Receive, Ends
  <1>5. Longer(b)
    BY <1>1, <1>4, Appended
  <1>6. CASE Sync(b)
    <2>1. delivered' = delivered
      BY <1>6 DEF Sync
    <2>2. QED  BY <1>4, <1>5, <1>6, <2>1, SyncStep
  <1>7. CASE LenMsb(b)
    <2>1. delivered' = delivered
      BY <1>7 DEF LenMsb
    <2>2. QED  BY <1>4, <1>5, <1>7, <2>1, LenMsbStep
  <1>8. CASE LenLsb(b)
    <2>1. delivered' = delivered
      BY <1>8 DEF LenLsb
    <2>2. QED  BY <1>4, <1>5, <1>8, <2>1, LenLsbStep
  <1>9. CASE BodyByte(b)
    BY <1>4, <1>5, <1>9, BodyByteStep
  <1>10. QED
    BY <1>4, <1>6, <1>7, <1>8, <1>9 DEF serial_rx_byte

LEMMA Inductive == Spec => []IInv
  <1>1. Init => IInv
    BY FramingAssumption, Started
  <1>2. IInv /\ [Next]_vars => IInv'
    <2> SUFFICES ASSUME IInv, [Next]_vars PROVE IInv'
      OBVIOUS
    <2>1. CASE \E body \in Bodies : serial_send_packet(body)
      <3>1. PICK body \in Bodies : serial_send_packet(body)
        BY <2>1
      <3>2. CASE Len(body) > SERIAL_MAX_PAYLOAD
        <4>1. UNCHANGED vars
          BY <3>1, <3>2 DEF serial_send_packet
        <4>2. line' \in Seq(Byte) /\ UNCHANGED <<rx, stream, delivered, ended>>
          BY <4>1 DEF vars, IInv, Types
        <4>3. QED  BY <4>2, LineOnly
      <3>3. CASE ~(Len(body) > SERIAL_MAX_PAYLOAD)
        <4>1. line' = Packet(body) /\ UNCHANGED <<rx, stream, delivered, ended>>
          BY <3>1, <3>3 DEF serial_send_packet
        <4>2. Len(body) <= SERIAL_MAX_PAYLOAD
          <5>1. PICK n \in 0 .. MAX_BODY : body \in [1 .. n -> SENT_BYTES]
            BY DEF Bodies
          <5>2. Len(body) \in Int
            BY <5>1
          <5>3. QED  BY <3>3, <5>2, FramingAssumption, Base
        <4>3. line' \in Seq(Byte)
          BY <4>1, <4>2, FramingAssumption, PacketBytes
        <4>4. QED  BY <4>1, <4>3, LineOnly
      <3>4. QED  BY <3>2, <3>3
    <2>2. CASE \E b \in Byte : OtherByte(b)
      <3>1. line' \in Seq(Byte) /\ UNCHANGED <<rx, stream, delivered, ended>>
        BY <2>2 DEF OtherByte
      <3>2. QED  BY <3>1, LineOnly
    <2>3. CASE Receive
      BY <2>3, FramingAssumption, Received
    <2>4. CASE UNCHANGED vars
      <3>1. line' \in Seq(Byte) /\ UNCHANGED <<rx, stream, delivered, ended>>
        BY <2>4 DEF vars, IInv, Types
      <3>2. QED  BY <3>1, LineOnly
    <2>5. QED  BY <2>1, <2>2, <2>3, <2>4 DEF Next
  <1>3. QED  BY <1>1, <1>2, PTL DEF Spec

\* The length never leaves its 16 bits and the index never the buffer, and no
\* byte is stored behind SERIAL_MAX_PAYLOAD, whatever arrives
\* (serial_framing.c:12-14, 32-43).
THEOREM FramingTypeCorrect == Spec => []TypeOK
  <1>1. IInv => TypeOK
    BY DEF IInv, Types
  <1>2. QED  BY <1>1, Inductive, PTL

\* Whatever arrives and whatever the limit, the receiver does not stay in a
\* packet longer than the packet can be: then it looks for START1 again
\* (serial_framing.c:28-51, SERIAL_API.md:17-18).
THEOREM Resynchronizes == Spec => []Resyncs
  <1>1. IInv => Resyncs
    <2> SUFFICES ASSUME IInv, rx_state # "SYNC",
                        \A i \in 1 .. Len(stream) :
                            stream[i] = SERIAL_START1 => i + 2 + SERIAL_MAX_PAYLOAD <= Len(stream)
                 PROVE  FALSE
      BY DEF Resyncs
    <2>1. /\ Len(stream) \in Nat /\ Open \in Nat \ {0} /\ Open <= Len(stream)
          /\ stream[Open] = SERIAL_START1 /\ Len(stream) < Open + 2 + SERIAL_MAX_PAYLOAD
      BY FramingAssumption, Bounds DEF IInv
    <2>2. Open + 2 + SERIAL_MAX_PAYLOAD <= Len(stream)
      BY <2>1
    <2>3. QED  BY <2>1, <2>2, FramingAssumption, Base
  <1>2. QED  BY <1>1, Inductive, PTL

\* Whatever arrives and whatever the limit, the callback gets only whole bodies
\* that came behind a START1 and their length, as they came, and no byte twice
\* (serial_framing.c:28-51).
THEOREM DeliveredCame == Spec => DeliversWhatCame
  <1>1. ASSUME IInv, [Next]_vars
        PROVE  [delivered' # delivered =>
                  \E body \in {delivered'[Len(delivered')]} :
                      /\ delivered' = Append(delivered, body)
                      /\ Len(body) <= SERIAL_MAX_PAYLOAD
                      /\ Came(body, stream', ended)]_vars
    <2>1. CASE Receive
      <3>1. delivered' # delivered => Delivery
        BY <1>1, <2>1, FramingAssumption, Received
      <3>2. QED  BY <3>1 DEF Delivery
    <2>2. CASE delivered' = delivered
      BY <2>2
    <2>3. ~Receive => delivered' = delivered
      BY <1>1 DEF Next, serial_send_packet, OtherByte, vars
    <2>4. QED  BY <2>1, <2>2, <2>3
  <1>2. QED  BY <1>1, Inductive, PTL DEF Spec, DeliversWhatCame
=============================================================================
