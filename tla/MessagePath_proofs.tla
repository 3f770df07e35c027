------------------------- MODULE MessagePath_proofs --------------------------
(***************************************************************************)
(* What becomes of a text between two devices, for any number of devices,  *)
(* keys, relays and blocks and for any bytes of other implementations:     *)
(* mesh_header_to_buf and mesh_header_from_buf undo each other; every      *)
(* block is masked with a keystream block of its own, and the receiver     *)
(* reads those, and only those, that both AES units masked with one key or *)
(* neither masked; pb_decode_data stays in the message, and gives back     *)
(* what pb_encode_data wrote.                                              *)
(*                                                                         *)
(* None of these is inductive.  Known says that the header bytes are those *)
(* of a header with the sender's id in it, Masked which masks each block   *)
(* has at every step of aes_ctr_crypt at either end, in terms of the       *)
(* packet id and the sender's id that the header bytes hold, and Stage     *)
(* where the decoder is in a message of pb_encode_data.                    *)
(***************************************************************************)
EXTENDS MessagePath, SequenceTheorems, WellFoundedInduction, TLAPS

-----------------------------------------------------------------------------
(* The header: bytes and words. *)

\* (HALF_MAX is expanded only where its value is needed.)
LEMMA InHalf ==
    ASSUME NEW x \in Nat PROVE x \in Half <=> x <= 65535
  <1>1. HALF_MAX \in Nat
    BY SMT DEF HALF_MAX
  <1>2. ASSUME x \in Half PROVE x <= HALF_MAX
    BY SMT, <1>1, <1>2 DEF Half
  <1>3. ASSUME x <= HALF_MAX PROVE x \in Half
    BY SMT, <1>1, <1>3 DEF Half
  <1>4. QED  BY <1>2, <1>3 DEF HALF_MAX

LEMMA HalfBytes ==
    ASSUME NEW x \in Half
    PROVE  /\ x % 256 \in Byte /\ x \div 256 \in Byte
           /\ (x % 256) + 256 * (x \div 256) = x
  <1>1. x \in Nat /\ x <= 65535
    <2>1. x \in Nat
      BY DEF Half
    <2>2. QED  BY <2>1, InHalf
  <1>2. QED  BY SMT, <1>1 DEF Byte

LEMMA NextHalf ==
    ASSUME NEW x \in Half
    PROVE  /\ (x + 1) % 65536 \in Half /\ 0 \in Half
           /\ x < 65535 => x + 1 \in Half
  <1>1. x \in Nat
    BY DEF Half
  <1>2. (x + 1) % 65536 \in Nat /\ (x + 1) % 65536 <= 65535
    BY SMT, <1>1
  <1>3. (x + 1) % 65536 \in Half
    BY <1>2, InHalf
  <1>4. 0 \in Half
    BY InHalf
  <1>5. x < 65535 => x + 1 \in Half
    <2>1. x + 1 \in Nat /\ (x < 65535 => x + 1 <= 65535)
      BY SMT, <1>1
    <2>2. QED  BY <2>1, InHalf
  <1>6. QED  BY <1>3, <1>4, <1>5

LEMMA BytesOfWord ==
    ASSUME NEW w \in Word
    PROVE  /\ ByteOf(w, 0) = w.lo % 256 /\ ByteOf(w, 1) = w.lo \div 256
           /\ ByteOf(w, 2) = w.hi % 256 /\ ByteOf(w, 3) = w.hi \div 256
  BY DEF ByteOf

LEMMA WordRoundTrip ==
    ASSUME NEW w \in Word
    PROVE  /\ ByteOf(w, 0) \in Byte /\ ByteOf(w, 1) \in Byte
           /\ ByteOf(w, 2) \in Byte /\ ByteOf(w, 3) \in Byte
           /\ [lo |-> ByteOf(w, 0) + 256 * ByteOf(w, 1),
               hi |-> ByteOf(w, 2) + 256 * ByteOf(w, 3)] = w
  <1>1. w.lo \in Half /\ w.hi \in Half /\ w = [lo |-> w.lo, hi |-> w.hi]
    BY DEF Word
  <1>2. /\ w.lo % 256 \in Byte /\ w.lo \div 256 \in Byte
        /\ (w.lo % 256) + 256 * (w.lo \div 256) = w.lo
    BY <1>1, HalfBytes
  <1>3. /\ w.hi % 256 \in Byte /\ w.hi \div 256 \in Byte
        /\ (w.hi % 256) + 256 * (w.hi \div 256) = w.hi
    BY <1>1, HalfBytes
  <1>4. QED  BY <1>1, <1>2, <1>3, BytesOfWord

\* The sixteen bytes of a header, one by one.
LEMMA HeaderBytes ==
    ASSUME NEW x \in Header, NEW b, b = mesh_header_to_buf(x)
    PROVE  /\ b[0] = ByteOf(x.to, 0) /\ b[1] = ByteOf(x.to, 1)
           /\ b[2] = ByteOf(x.to, 2) /\ b[3] = ByteOf(x.to, 3)
           /\ b[4] = ByteOf(x.from, 0) /\ b[5] = ByteOf(x.from, 1)
           /\ b[6] = ByteOf(x.from, 2) /\ b[7] = ByteOf(x.from, 3)
           /\ b[8] = ByteOf(x.id, 0) /\ b[9] = ByteOf(x.id, 1)
           /\ b[10] = ByteOf(x.id, 2) /\ b[11] = ByteOf(x.id, 3)
           /\ b[12] = x.flags /\ b[13] = x.channel
           /\ b[14] = x.next_hop /\ b[15] = x.relay
  BY DEF mesh_header_to_buf, Offsets

LEMMA HeaderWords ==
    ASSUME NEW x \in Header
    PROVE  x.to \in Word /\ x.from \in Word /\ x.id \in Word
  BY DEF Header

\* mesh_header_to_buf writes bytes.
THEOREM HeaderIsBytes ==
    ASSUME NEW x \in Header
    PROVE  mesh_header_to_buf(x) \in [Offsets -> Byte]
  <1>1. DEFINE b == mesh_header_to_buf(x)
  <1>2. /\ x.flags \in Byte /\ x.channel \in Byte /\ x.next_hop \in Byte
        /\ x.relay \in Byte
    BY DEF Header
  <1>3. ASSUME NEW i \in Offsets PROVE b[i] \in Byte
    <2>1. \/ i = 0 \/ i = 1 \/ i = 2 \/ i = 3 \/ i = 4 \/ i = 5 \/ i = 6 \/ i = 7
          \/ i = 8 \/ i = 9 \/ i = 10 \/ i = 11 \/ i = 12 \/ i = 13 \/ i = 14 \/ i = 15
      BY DEF Offsets
    <2>2. /\ b[0] \in Byte /\ b[1] \in Byte /\ b[2] \in Byte /\ b[3] \in Byte
      BY HeaderBytes, HeaderWords, WordRoundTrip
    <2>3. /\ b[4] \in Byte /\ b[5] \in Byte /\ b[6] \in Byte /\ b[7] \in Byte
      BY HeaderBytes, HeaderWords, WordRoundTrip
    <2>4. /\ b[8] \in Byte /\ b[9] \in Byte /\ b[10] \in Byte /\ b[11] \in Byte
      BY HeaderBytes, HeaderWords, WordRoundTrip
    <2>5. /\ b[12] \in Byte /\ b[13] \in Byte /\ b[14] \in Byte /\ b[15] \in Byte
      BY <1>2, HeaderBytes
    <2>6. QED  BY <2>1, <2>2, <2>3, <2>4, <2>5
  <1>4. QED  BY <1>3 DEF mesh_header_to_buf

\* Reading a header that was written gives the header back: the two functions of
\* mesh_packet.c agree on every offset and every byte order.
THEOREM HeaderRoundTrip ==
    ASSUME NEW x \in Header
    PROVE  mesh_header_from_buf(mesh_header_to_buf(x)) = x
  <1>1. DEFINE b == mesh_header_to_buf(x)
  <1>2. WordAt(b, 0) = x.to
    BY HeaderBytes, HeaderWords, WordRoundTrip DEF WordAt
  <1>3. WordAt(b, 4) = x.from
    BY HeaderBytes, HeaderWords, WordRoundTrip DEF WordAt
  <1>4. WordAt(b, 8) = x.id
    BY HeaderBytes, HeaderWords, WordRoundTrip DEF WordAt
  <1>5. /\ b[12] = x.flags /\ b[13] = x.channel
        /\ b[14] = x.next_hop /\ b[15] = x.relay
    BY HeaderBytes
  <1>6. x = [to |-> x.to, from |-> x.from, id |-> x.id, flags |-> x.flags,
             channel |-> x.channel, next_hop |-> x.next_hop, relay |-> x.relay]
    BY DEF Header
  <1>7. QED  BY <1>2, <1>3, <1>4, <1>5, <1>6 DEF mesh_header_from_buf

-----------------------------------------------------------------------------
(* The invariant of packet, header and keystream. *)

Sending == {"encrypt", "air", "decrypt", "decode"}

\* The header that receivers and relays read.
Read == mesh_header_from_buf(head)

Known ==
    /\ Read \in Header /\ head = mesh_header_to_buf(Read)
    /\ pc \in Sending => Read.from = NodeId[source]
    /\ pc \in {"decrypt", "decode"} => h = Read

Stream(k, b) == [key |-> k, nonce |-> [id |-> Read.id, from |-> Read.from, counter |-> b]]
Sent(b, e) == IF b < e THEN {Stream(used, b)} ELSE {}
Opened(b, d) == IF b < d THEN {Stream(opened, b)} ELSE {}
Both(b, d) == (Sent(b, enc) \cup Opened(b, d)) \ (Sent(b, enc) \cap Opened(b, d))

\* aes_ctr_crypt runs with the packet's id, the sender's id and key k.
Running(k) ==
    /\ crypting /\ hw_key[node] = k
    /\ packet_id = Read.id /\ from_node = Read.from
    /\ off < COUNTER => counter = off

Masked ==
    /\ hw_key = channel_key
    /\ pc = "idle"    => off = 0
    /\ pc = "encrypt" => Running(used) /\ \A b \in Blocks : masks[b] = Sent(b, off)
    /\ pc = "air"     => \A b \in Blocks : masks[b] = Sent(b, enc)
    /\ pc = "decrypt" => Running(opened) /\ \A b \in Blocks : masks[b] = Both(b, off)
    /\ pc = "decode"  => \A b \in Blocks : masks[b] = Both(b, dec)

IInv == CryptTypes /\ PathTypes /\ Known /\ Masked

-----------------------------------------------------------------------------
(* Lengths, headers and keystream. *)

LEMMA BlocksFit ==
    ASSUME NEW b \in Nat \ {0}, NEW m \in Nat, NEW n \in Nat, n <= b * m
    PROVE  (n + b - 1) \div b \in 0 .. m
  <1>1. DEFINE q == (n + b - 1) \div b
  <1>2. n + b - 1 \in Nat
    OBVIOUS
  <1>3. q \in Nat /\ b * q <= n + b - 1
    BY <1>2
  <1>4. ASSUME q >= m + 1 PROVE FALSE
    <2>1. b * q >= b * (m + 1)
      BY <1>3, <1>4
    <2>2. b * (m + 1) = b * m + b
      OBVIOUS
    <2>3. b * m \in Nat /\ b * q \in Nat
      BY <1>3
    <2>4. QED  BY <1>3, <2>1, <2>2, <2>3
  <1>5. QED  BY <1>3, <1>4

LEMMA EncodedBlocks ==
    ASSUME AesAssumption, PathAssumption, NEW t \in Texts
    PROVE  BlocksOf(Codec!PbEncodeData(PORTNUM_TEXT_MESSAGE, t)) \in 0 .. MAX_BLOCKS
  <1>1. DEFINE d == Codec!PbEncodeData(PORTNUM_TEXT_MESSAGE, t)
  <1>2. t \in Seq(Byte)
    BY DEF PathAssumption
  <1>3. d = <<>> \/ (4 + Len(t) <= MAX_OUT /\ Len(d) = 4 + Len(t))
    BY <1>2 DEF Codec!PbEncodeData, PathAssumption
  <1>4. Len(d) \in Nat /\ Len(d) <= MAX_OUT
    BY <1>2, <1>3 DEF PathAssumption
  <1>5. BLOCK \in Nat \ {0} /\ MAX_BLOCKS \in Nat /\ Len(d) <= BLOCK * MAX_BLOCKS
    BY <1>4 DEF PathAssumption, AesAssumption
  <1>6. (Len(d) + BLOCK - 1) \div BLOCK \in 0 .. MAX_BLOCKS
    <2>1. PICK n \in Nat : n = Len(d)
      BY <1>4
    <2>2. n <= BLOCK * MAX_BLOCKS
      BY ONLY <1>5, <2>1, Zenon
    <2>3. (n + BLOCK - 1) \div BLOCK \in 0 .. MAX_BLOCKS
      BY ONLY <1>5, <2>2, BlocksFit, Zenon
    <2>4. QED  BY ONLY <2>1, <2>3, Zenon
  <1>7. QED  BY <1>6 DEF BlocksOf

LEMMA ForeignBlocks ==
    ASSUME AesAssumption, PathAssumption, NEW d \in ForeignData
    PROVE  BlocksOf(d) \in 0 .. MAX_BLOCKS
  <1>1. /\ BLOCK \in Nat \ {0} /\ MAX_BLOCKS \in Nat
        /\ Len(d) \in Nat /\ Len(d) <= BLOCK * MAX_BLOCKS
    BY DEF PathAssumption, AesAssumption
  <1>2. (Len(d) + BLOCK - 1) \div BLOCK \in 0 .. MAX_BLOCKS
    BY ONLY <1>1, BlocksFit, Zenon
  <1>3. QED  BY <1>2 DEF BlocksOf

LEMMA Broadcast == MESH_BROADCAST_ID \in Word
  BY InHalf DEF MESH_BROADCAST_ID, Word

LEMMA FrameIsHeader ==
    ASSUME PathAssumption, next_packet_id \in Word, NEW n \in Node,
           NEW to \in Word, NEW flags \in Byte
    PROVE  FrameFrom(n, to, flags) \in Header
  <1>1. NodeId[n] \in Word /\ 0 \in Byte
    BY DEF PathAssumption, Byte
  <1>2. QED  BY <1>1 DEF FrameFrom, Header

LEMMA NoHeaderIsHeader ==
    ASSUME PathAssumption PROVE NoHeader \in Header
  <1>1. FirstId \in Word /\ 0 \in Byte
    BY DEF PathAssumption, Byte
  <1>2. QED  BY <1>1, Broadcast DEF NoHeader, Header

LEMMA SuccessorIsWord ==
    ASSUME NEW w \in Word PROVE Successor(w) \in Word
  <1>1. w.lo \in Half /\ w.hi \in Half
    BY DEF Word
  <1>2. /\ w.lo < 65535 => w.lo + 1 \in Half
        /\ (w.hi + 1) % 65536 \in Half /\ 0 \in Half
    BY <1>1, NextHalf
  <1>3. CASE w.lo < 65535  BY <1>2, <1>3 DEF Successor, Word
  <1>4. CASE ~(w.lo < 65535)  BY <1>2, <1>4 DEF Successor, Word
  <1>5. QED  BY <1>3, <1>4

\* A relay keeps who sent the packet and its id (flood_router.c:39-48).
LEMMA PreparedHeader ==
    ASSUME NEW g \in Header, NEW r \in Nat
    PROVE  /\ FloodPrepareForward(g, r) \in Header
           /\ FloodPrepareForward(g, r).from = g.from
           /\ FloodPrepareForward(g, r).id = g.id
  <1>1. DEFINE hop  == MeshHopLimit(g.flags)
               left == IF hop > 0 THEN hop - 1 ELSE hop
  <1>2. g.flags \in 0 .. 255
    BY DEF Header, Byte
  <1>3. hop \in 0 .. g.flags
    BY <1>2 DEF MeshHopLimit
  <1>4. (g.flags - hop) + left \in Byte
    BY <1>2, <1>3 DEF Byte
  <1>5. r % 256 \in Byte
    BY DEF Byte
  <1>6. FloodPrepareForward(g, r)
            = [g EXCEPT !.flags = (g.flags - hop) + left, !.relay = r % 256]
    BY DEF FloodPrepareForward
  <1>7. DEFINE f == [g EXCEPT !.flags = (g.flags - hop) + left, !.relay = r % 256]
  <1>8. /\ f.to = g.to /\ f.from = g.from /\ f.id = g.id
        /\ f.channel = g.channel /\ f.next_hop = g.next_hop
    BY DEF Header
  <1>9. f \in Header
    <2> HIDE DEF hop, left
    <2>1. QED  BY <1>4, <1>5 DEF Header
  <1>10. QED  BY <1>6, <1>8, <1>9

\* A header that was written is the one that is read.
LEMMA WrittenIsRead ==
    ASSUME NEW g \in Header, head' = mesh_header_to_buf(g)
    PROVE  /\ Read' = g /\ Read' \in Header
           /\ head' = mesh_header_to_buf(Read')
           /\ head' \in [Offsets -> Byte]
  BY HeaderRoundTrip, HeaderIsBytes DEF Read

LEMMA StreamIsKeystream ==
    ASSUME AesAssumption, Read \in Header, NEW k \in Key, NEW b \in 0 .. COUNTER - 1
    PROVE  Stream(k, b) \in Keystream
  BY HeaderWords DEF Stream, Keystream

-----------------------------------------------------------------------------
(* aes_ctr_crypt. *)

\* A step of the loop of aes_ctr_crypt, with its key and its masks so far.
LEMMA OneBlock ==
    ASSUME AesAssumption, CryptTypes, Read \in Header, NEW k \in Key, Running(k),
           hw_key = channel_key, CryptBlock, UNCHANGED <<head>>
    PROVE  /\ CryptTypes' /\ Running(k)' /\ hw_key' = channel_key'
           /\ off \in Blocks /\ off' = off + 1
           /\ masks' = [masks EXCEPT ![off] = Xor(@, Stream(k, off))]
  <1>1. /\ off \in Nat /\ off < len /\ len \in 0 .. MAX_BLOCKS
        /\ MAX_BLOCKS \in Nat /\ COUNTER \in Nat /\ MAX_BLOCKS <= COUNTER
    BY DEF AesAssumption, CryptTypes, CryptBlock, More
  <1>2. off \in Blocks /\ counter = off /\ off \in 0 .. COUNTER - 1
    BY <1>1 DEF Blocks, Running
  <1>3. masks' = [masks EXCEPT ![off] = Xor(@, Stream(k, off))]
    BY <1>2 DEF CryptBlock, Running, Stream, Nonce
  <1>4. masks' \in [Blocks -> SUBSET Keystream]
    <2>1. Stream(k, off) \in Keystream
      BY <1>2, StreamIsKeystream
    <2>2. masks[off] \in SUBSET Keystream
      BY <1>2 DEF CryptTypes
    <2>3. Xor(masks[off], Stream(k, off)) \in SUBSET Keystream
      BY <2>1, <2>2 DEF Xor
    <2>4. QED  BY <1>2, <1>3, <2>3 DEF CryptTypes
  <1>5. counter' = (off + 1) % COUNTER /\ off' = off + 1
    BY <1>2 DEF CryptBlock
  <1>6. /\ (off + 1) % COUNTER \in 0 .. COUNTER - 1
        /\ off + 1 < COUNTER => (off + 1) % COUNTER = off + 1
    BY <1>1, <1>2
  <1>7. /\ UNCHANGED <<channel_key, hw_key, crypting, node, len, packet_id, from_node>>
        /\ cryp_ready' \in [Node -> BOOLEAN]
    BY DEF CryptBlock, CryptTypes
  <1>8. off' \in 0 .. len'
    BY <1>1, <1>5, <1>7
  <1>9. Read' = Read
    BY DEF Read
  <1>10. CryptTypes'
    BY <1>4, <1>5, <1>6, <1>7, <1>8 DEF CryptTypes
  <1>11. Running(k)'
    BY <1>5, <1>6, <1>7, <1>9 DEF Running
  <1>12. QED  BY <1>2, <1>3, <1>5, <1>7, <1>10, <1>11

\* The end of aes_ctr_crypt, also an early one, leaves the payload as it is.
LEMMA Ended ==
    ASSUME CryptTypes, CryptDone \/ CryptFails
    PROVE  CryptTypes' /\ UNCHANGED <<masks, off, len, channel_key, hw_key, node>>
  <1>1. CASE CryptDone
    BY <1>1 DEF CryptDone, unit, CryptTypes
  <1>2. CASE CryptFails
    <2>1. cryp_ready' \in [Node -> BOOLEAN]
      BY <1>2 DEF CryptFails, CryptTypes
    <2>2. /\ crypting' = FALSE
          /\ UNCHANGED <<channel_key, hw_key, node, len, packet_id, from_node, masks,
                         off, counter>>
      BY <1>2 DEF CryptFails
    <2>3. QED  BY <2>1, <2>2 DEF CryptTypes
  <1>3. QED  BY <1>1, <1>2

\* The call of aes_ctr_crypt.
Begun(n, m, id, from) ==
    /\ UNCHANGED <<channel_key, hw_key>>
    /\ crypting' = TRUE /\ node' = n /\ masks' = m /\ off' = 0 /\ counter' = 0
    /\ packet_id' = id /\ from_node' = from

LEMMA Called ==
    ASSUME AesAssumption, CryptTypes, NEW n \in Node, NEW m \in [Blocks -> SUBSET Keystream],
           NEW l \in 0 .. MAX_BLOCKS, NEW id \in Word, NEW from \in Word,
           aes_ctr_crypt(n, m, l, id, from)
    PROVE  CryptTypes' /\ Begun(n, m, id, from)
  <1>1. /\ UNCHANGED <<channel_key, hw_key, cryp_ready>>
        /\ crypting' = TRUE /\ node' = n /\ masks' = m /\ off' = 0 /\ counter' = 0
        /\ packet_id' = id /\ from_node' = from /\ len' = l
    BY DEF aes_ctr_crypt, unit
  <1>2. 0 \in 0 .. COUNTER - 1 /\ 0 \in 0 .. l
    BY DEF AesAssumption
  <1>3. CryptTypes'
    BY <1>1, <1>2 DEF CryptTypes
  <1>4. QED  BY <1>1, <1>3 DEF Begun

-----------------------------------------------------------------------------
(* The steps of the sender, the air and the receiver. *)

Assumptions == AesAssumption /\ PathAssumption

LEMMA InitEstablishes ==
    ASSUME Assumptions, Init
    PROVE  IInv
  <1>1. AnyNode \in Node /\ BootKey \in Key /\ FirstId \in Word /\ NodeId[AnyNode] \in Word
    BY DEF Assumptions, PathAssumption, AnyNode
  <1>2. /\ 0 \in 0 .. COUNTER - 1 /\ 0 \in 0 .. MAX_BLOCKS /\ 0 \in 0 .. 0
        /\ 0 \in 0 .. MAX_MSGS /\ 0 \in 0 .. MAX_KEYS
    BY DEF Assumptions, AesAssumption, PathAssumption
  <1>3. CryptTypes
    BY <1>1, <1>2 DEF Init, CryptTypes, Clear
  <1>4. Read = NoHeader /\ NoHeader \in Header /\ head \in [Offsets -> Byte]
    BY NoHeaderIsHeader, HeaderRoundTrip, HeaderIsBytes DEF Assumptions, Read, Init
  <1>5. PathTypes
    BY <1>1, <1>2, <1>4 DEF Init, PathTypes
  <1>6. Known
    BY <1>4 DEF Init, Known, Sending
  <1>7. QED  BY <1>3, <1>5, <1>6 DEF Init, IInv, Masked

LEMMA KeySet ==
    ASSUME Assumptions, IInv, NEW n \in Node, NEW k \in Key, SetKey(n, k)
    PROVE  IInv'
  <1>1. /\ pc \in {"idle", "air"} /\ UNCHANGED <<crypt, pc, packet, h, msgs, history>>
        /\ keys' = keys + 1 /\ keys < MAX_KEYS
    BY DEF SetKey
  <1>2. /\ channel_key' = [channel_key EXCEPT ![n] = k]
        /\ hw_key' = [hw_key EXCEPT ![n] = k]
        /\ cryp_ready' = [cryp_ready EXCEPT ![n] = FALSE]
    BY DEF SetKey, aes_set_channel_key
  <1>3. CryptTypes'
    BY <1>1, <1>2 DEF IInv, CryptTypes, crypt
  <1>4. PathTypes'
    BY <1>1 DEF IInv, PathTypes, packet, history, Assumptions, PathAssumption
  <1>5. Read' = Read
    BY <1>1 DEF Read, packet
  <1>6. Known'
    BY <1>1, <1>5 DEF IInv, Known, packet
  <1>7. Masked'
    BY <1>1, <1>2, <1>5 DEF IInv, Masked, crypt, packet, history, Sent, Stream
  <1>8. QED  BY <1>3, <1>4, <1>6, <1>7 DEF IInv

LEMMA PacketSent ==
    ASSUME Assumptions, IInv, NEW n \in Node, NEW to \in Word, NEW t \in Texts,
           SendLoraPacket(n, to, t)
    PROVE  IInv'
  <1>1. DEFINE d     == Codec!PbEncodeData(PORTNUM_TEXT_MESSAGE, t)
               frame == FrameFrom(n, to, 3)
  <1>2. next_packet_id \in Word /\ 3 \in Byte /\ used \in Key /\ channel_key \in [Node -> Key]
    BY DEF IInv, PathTypes, CryptTypes, Byte
  <1>3. frame \in Header
    BY <1>2, FrameIsHeader DEF Assumptions
  <1>4. /\ head' = mesh_header_to_buf(frame) /\ pc' = "encrypt" /\ pc = "idle"
        /\ aes_ctr_crypt(n, Clear, BlocksOf(d), frame.id, frame.from)
        /\ next_packet_id' = Successor(next_packet_id)
        /\ msgs' = msgs + 1 /\ msgs < MAX_MSGS
        /\ source' = n /\ own' = TRUE /\ used' = channel_key[n]
        /\ UNCHANGED <<h, keys, enc, dec, opened>>
    BY DEF SendLoraPacket
  <1>5. /\ Read' = frame /\ Read' \in Header /\ head' = mesh_header_to_buf(Read')
        /\ head' \in [Offsets -> Byte]
    BY <1>3, <1>4, WrittenIsRead
  <1>6. frame.from = NodeId[n] /\ frame.id \in Word /\ frame.from \in Word
    BY <1>3, HeaderWords DEF FrameFrom
  <1>7. BlocksOf(d) \in 0 .. MAX_BLOCKS
    BY EncodedBlocks DEF Assumptions
  <1>8. Clear \in [Blocks -> SUBSET Keystream]
    BY DEF Clear
  <1>9. /\ CryptTypes' /\ UNCHANGED <<channel_key, hw_key>>
        /\ crypting' = TRUE /\ node' = n /\ masks' = Clear /\ off' = 0 /\ counter' = 0
        /\ packet_id' = frame.id /\ from_node' = frame.from
    <2>1. CryptTypes' /\ Begun(n, Clear, frame.id, frame.from)
      <3>1. AesAssumption /\ CryptTypes
        BY DEF Assumptions, IInv
      <3>2. QED  BY <1>4, <1>6, <1>7, <1>8, <3>1, Called
    <2>2. QED  BY <2>1 DEF Begun
  <1>10. PathTypes'
    <2>1. msgs' \in 0 .. MAX_MSGS
      BY <1>4 DEF IInv, PathTypes, Assumptions, PathAssumption
    <2>2. next_packet_id' \in Word
      BY <1>2, <1>4, SuccessorIsWord
    <2>3. QED  BY <1>2, <1>4, <1>5, <2>1, <2>2 DEF IInv, PathTypes
  <1>11. Known'
    BY <1>4, <1>5, <1>6 DEF Known
  <1>12. Running(used)'
    BY <1>2, <1>4, <1>5, <1>9 DEF Running, IInv, Masked
  <1>13. \A b \in Blocks : masks'[b] = Sent(b, off)'
    BY <1>9 DEF Clear, Sent, Blocks
  <1>14. Masked'
    BY <1>4, <1>9, <1>12, <1>13 DEF Masked, IInv
  <1>15. QED  BY <1>9, <1>10, <1>11, <1>14 DEF IInv

LEMMA Encrypts ==
    ASSUME Assumptions, IInv, Encrypt
    PROVE  IInv'
  <1>1. /\ pc = "encrypt" /\ UNCHANGED <<packet, h, msgs, keys, dec, used, opened>>
        /\ \/ CryptBlock /\ UNCHANGED <<pc, enc>>
           \/ (CryptDone \/ CryptFails) /\ pc' = "air" /\ enc' = off
    BY DEF Encrypt
  <1>2. /\ Read' = Read /\ Read \in Header /\ used \in Key
        /\ Running(used) /\ \A b \in Blocks : masks[b] = Sent(b, off)
    BY <1>1 DEF Read, packet, IInv, Known, Masked, PathTypes
  <1>3. \A b, e : Sent(b, e)' = IF b < e' THEN {Stream(used, b)'} ELSE {}
    BY DEF Sent
  <1>4. \A b : Stream(used, b)' = Stream(used, b)
    BY <1>1, <1>2 DEF Stream
  <1>5. CASE CryptBlock /\ UNCHANGED <<pc, enc>>
    <2>1. /\ CryptTypes' /\ Running(used)' /\ hw_key' = channel_key'
          /\ off \in Blocks /\ off' = off + 1
          /\ masks' = [masks EXCEPT ![off] = Xor(@, Stream(used, off))]
      BY <1>1, <1>2, <1>5, OneBlock DEF Assumptions, IInv, Masked, packet
    <2>2. ASSUME NEW b \in Blocks PROVE masks'[b] = Sent(b, off)'
      <3>1. b \in Int /\ off \in Int /\ masks \in [Blocks -> SUBSET Keystream]
        BY <2>1 DEF Blocks, IInv, CryptTypes
      <3>2. CASE b = off
        <4>1. masks'[b] = Xor({}, Stream(used, b))
          BY <1>2, <2>1, <3>1, <3>2 DEF Sent
        <4>2. QED  BY <1>4, <2>1, <3>1, <3>2, <4>1 DEF Xor, Sent
      <3>3. CASE b # off
        <4>1. masks'[b] = Sent(b, off)
          BY <1>2, <2>1, <3>1, <3>3
        <4>2. b < off' <=> b < off
          BY <2>1, <3>1, <3>3
        <4>3. QED  BY <1>4, <4>1, <4>2 DEF Sent
      <3>4. QED  BY <3>2, <3>3
    <2>3. PathTypes' /\ Known'
      BY <1>1, <1>2, <1>5 DEF IInv, PathTypes, Known, packet
    <2>4. Masked'
      BY <1>1, <1>5, <2>1, <2>2 DEF Masked
    <2>5. QED  BY <2>1, <2>3, <2>4 DEF IInv
  <1>6. CASE (CryptDone \/ CryptFails) /\ pc' = "air" /\ enc' = off
    <2>1. CryptTypes' /\ UNCHANGED <<masks, off, len, channel_key, hw_key, node>>
      BY <1>6, Ended DEF IInv
    <2>2. off \in 0 .. MAX_BLOCKS
      BY DEF IInv, CryptTypes, Assumptions, AesAssumption
    <2>3. PathTypes' /\ Known'
      BY <1>1, <1>2, <1>6, <2>2 DEF IInv, PathTypes, Known, packet, Sending
    <2>4. \A b \in Blocks : masks'[b] = Sent(b, enc)'
      BY <1>2, <1>4, <1>6, <2>1 DEF Sent
    <2>5. Masked'
      BY <1>6, <2>1, <2>4 DEF IInv, Masked
    <2>6. QED  BY <2>1, <2>3, <2>5 DEF IInv
  <1>7. QED  BY <1>1, <1>5, <1>6

LEMMA ForeignSent ==
    ASSUME Assumptions, IInv, pc = "idle", NEW n \in Node, NEW d \in ForeignData,
           ForeignPacket(n, d)
    PROVE  IInv'
  <1>1. DEFINE frame == FrameFrom(n, MESH_BROADCAST_ID, 0)
  <1>2. /\ 0 \in Byte /\ next_packet_id \in Word /\ BlocksOf(d) \in 0 .. MAX_BLOCKS
        /\ channel_key[n] \in Key
    BY ForeignBlocks DEF Byte, IInv, PathTypes, CryptTypes, Assumptions
  <1>3. frame \in Header
    BY <1>2, FrameIsHeader, Broadcast DEF Assumptions
  <1>4. /\ head' = mesh_header_to_buf(frame) /\ len' = BlocksOf(d) /\ pc' = "air"
        /\ masks' = [b \in Blocks |-> IF b < BlocksOf(d) THEN {ForeignMask(n, b)} ELSE {}]
        /\ msgs' = MAX_MSGS /\ keys' = MAX_KEYS /\ source' = n /\ own' = FALSE
        /\ enc' = BlocksOf(d) /\ used' = channel_key[n]
        /\ UNCHANGED <<unit, crypting, node, packet_id, from_node, off, counter,
                       next_packet_id, h, dec, opened>>
    BY DEF ForeignPacket
  <1>5. /\ Read' = frame /\ Read' \in Header /\ head' = mesh_header_to_buf(Read')
        /\ head' \in [Offsets -> Byte]
    BY <1>3, <1>4, WrittenIsRead
  <1>6. frame.from = NodeId[n] /\ frame.id = next_packet_id /\ NodeId[n] \in Word
    BY DEF FrameFrom, Assumptions, PathAssumption
  <1>7. \A b \in Blocks : masks'[b] = Sent(b, enc)'
    BY <1>4, <1>5, <1>6 DEF ForeignMask, Sent, Stream
  <1>8. masks' \in [Blocks -> SUBSET Keystream]
    <2>1. ASSUME NEW b \in Blocks PROVE ForeignMask(n, b) \in Keystream
      <3>1. b \in 0 .. COUNTER - 1
        BY DEF Blocks, Assumptions, AesAssumption
      <3>2. QED  BY <1>2, <1>6, <3>1 DEF ForeignMask, Keystream
    <2>2. QED  BY <1>4, <2>1
  <1>9. CryptTypes'
    <2>1. off = 0
      BY DEF IInv, Masked
    <2>2. off' \in 0 .. len' /\ len' \in 0 .. MAX_BLOCKS
      BY <1>2, <1>4, <2>1
    <2>3. QED  BY <1>4, <1>8, <2>2 DEF IInv, CryptTypes, unit
  <1>10. PathTypes'
    <2>1. msgs' \in 0 .. MAX_MSGS /\ keys' \in 0 .. MAX_KEYS
      BY <1>4 DEF Assumptions, PathAssumption
    <2>2. enc' \in 0 .. MAX_BLOCKS /\ used' \in Key
      BY <1>2, <1>4
    <2>3. QED  BY <1>4, <1>5, <2>1, <2>2 DEF IInv, PathTypes
  <1>11. Known'
    BY <1>4, <1>5, <1>6 DEF Known
  <1>12. Masked'
    BY <1>4, <1>7 DEF Masked, IInv, unit
  <1>13. QED  BY <1>9, <1>10, <1>11, <1>12 DEF IInv

LEMMA Relayed ==
    ASSUME Assumptions, IInv, NEW r \in RelayIds, Relay(r)
    PROVE  IInv'
  <1>1. DEFINE g == FloodPrepareForward(Read, r)
  <1>2. r \in Nat /\ Read \in Header
    BY DEF Assumptions, PathAssumption, IInv, Known
  <1>3. g \in Header /\ g.from = Read.from /\ g.id = Read.id
    BY <1>2, PreparedHeader
  <1>4. /\ pc = "air" /\ head' = mesh_header_to_buf(g)
        /\ UNCHANGED <<unit, crypt, pc, next_packet_id, source, own, h, msgs, keys, history>>
    BY DEF Relay, Read
  <1>5. /\ Read' = g /\ Read' \in Header /\ head' = mesh_header_to_buf(Read')
        /\ head' \in [Offsets -> Byte]
    BY <1>3, <1>4, WrittenIsRead
  <1>6. CryptTypes' /\ PathTypes'
    BY <1>4, <1>5 DEF IInv, CryptTypes, PathTypes, unit, crypt, history
  <1>7. Known'
    BY <1>3, <1>4, <1>5 DEF IInv, Known, Sending
  <1>8. Masked'
    BY <1>3, <1>4, <1>5 DEF IInv, Masked, unit, crypt, history, Sent, Stream
  <1>9. QED  BY <1>6, <1>7, <1>8 DEF IInv

LEMMA Rested ==
    ASSUME Assumptions, IInv, Rest
    PROVE  IInv'
  <1>1. AnyNode \in Node /\ BootKey \in Key /\ FirstId \in Word /\ NodeId[AnyNode] \in Word
    BY DEF Assumptions, PathAssumption, AnyNode
  <1>2. 0 \in 0 .. COUNTER - 1 /\ 0 \in 0 .. MAX_BLOCKS /\ 0 \in 0 .. 0
    BY DEF Assumptions, AesAssumption
  <1>3. /\ pc' = "idle" /\ head' = mesh_header_to_buf(NoHeader) /\ h' = NoHeader
        /\ source' = AnyNode /\ own' = TRUE
        /\ node' = AnyNode /\ len' = 0 /\ masks' = Clear
        /\ packet_id' = FirstId /\ from_node' = NodeId[AnyNode]
        /\ off' = 0 /\ counter' = 0
        /\ enc' = 0 /\ dec' = 0 /\ used' = BootKey /\ opened' = BootKey
        /\ UNCHANGED <<unit, crypting, next_packet_id, msgs, keys>>
    BY DEF Rest
  <1>4. NoHeader \in Header
    BY NoHeaderIsHeader DEF Assumptions
  <1>5. /\ Read' = NoHeader /\ Read' \in Header /\ head' = mesh_header_to_buf(Read')
        /\ head' \in [Offsets -> Byte]
    BY <1>3, <1>4, WrittenIsRead
  <1>6. CryptTypes'
    BY <1>1, <1>2, <1>3 DEF IInv, CryptTypes, unit, Clear
  <1>7. PathTypes'
    BY <1>1, <1>2, <1>3, <1>4, <1>5 DEF IInv, PathTypes
  <1>8. Known' /\ Masked'
    BY <1>3, <1>5 DEF IInv, Known, Masked, Sending, unit
  <1>9. QED  BY <1>6, <1>7, <1>8 DEF IInv

LEMMA Received ==
    ASSUME Assumptions, IInv, NEW n \in Node, Receive(n)
    PROVE  IInv'
  <1>1. /\ pc = "air" /\ h' = Read /\ pc' = "decrypt" /\ opened' = channel_key[n]
        /\ aes_ctr_crypt(n, masks, len, Read.id, Read.from)
        /\ UNCHANGED <<packet, msgs, keys, enc, dec, used>>
    BY DEF Receive, Read
  <1>2. /\ Read' = Read /\ Read \in Header /\ Read.id \in Word /\ Read.from \in Word
        /\ channel_key[n] \in Key
        /\ masks \in [Blocks -> SUBSET Keystream] /\ len \in 0 .. MAX_BLOCKS
        /\ \A b \in Blocks : masks[b] = Sent(b, enc)
    BY <1>1, HeaderWords DEF Read, packet, IInv, Known, CryptTypes, Masked
  <1>3. /\ CryptTypes' /\ UNCHANGED <<channel_key, hw_key>>
        /\ crypting' = TRUE /\ node' = n /\ masks' = masks /\ off' = 0 /\ counter' = 0
        /\ packet_id' = Read.id /\ from_node' = Read.from
    <2>1. CryptTypes' /\ Begun(n, masks, Read.id, Read.from)
      <3>1. AesAssumption /\ CryptTypes
        BY DEF Assumptions, IInv
      <3>2. QED  BY <1>1, <1>2, <3>1, Called
    <2>2. QED  BY <2>1 DEF Begun
  <1>4. PathTypes' /\ Known'
    BY <1>1, <1>2 DEF IInv, PathTypes, Known, packet, Sending
  <1>5. Running(opened)'
    BY <1>1, <1>2, <1>3 DEF Running, IInv, Masked
  <1>6. ASSUME NEW b \in Blocks PROVE masks'[b] = Both(b, off)'
    <2>1. Opened(b, off)' = {}
      BY <1>3 DEF Opened, Blocks
    <2>2. Sent(b, enc)' = Sent(b, enc)
      BY <1>1, <1>2 DEF Sent, Stream
    <2>3. QED  BY <1>2, <1>3, <2>1, <2>2 DEF Both
  <1>7. Masked'
    BY <1>1, <1>3, <1>5, <1>6 DEF Masked, IInv
  <1>8. QED  BY <1>3, <1>4, <1>7 DEF IInv

LEMMA Decrypts ==
    ASSUME Assumptions, IInv, Decrypt
    PROVE  IInv'
  <1>1. /\ pc = "decrypt" /\ UNCHANGED <<packet, h, msgs, keys, enc, used, opened>>
        /\ \/ CryptBlock /\ UNCHANGED <<pc, dec>>
           \/ (CryptDone \/ CryptFails) /\ pc' = "decode" /\ dec' = off
    BY DEF Decrypt
  <1>2. /\ Read' = Read /\ Read \in Header /\ opened \in Key
        /\ Running(opened) /\ \A b \in Blocks : masks[b] = Both(b, off)
    BY <1>1 DEF Read, packet, IInv, Known, Masked, PathTypes
  <1>3. \A b : /\ Stream(used, b)' = Stream(used, b) /\ Stream(opened, b)' = Stream(opened, b)
               /\ Sent(b, enc)' = Sent(b, enc)
    BY <1>1, <1>2 DEF Stream, Sent
  <1>4. CASE CryptBlock /\ UNCHANGED <<pc, dec>>
    <2>1. /\ CryptTypes' /\ Running(opened)' /\ hw_key' = channel_key'
          /\ off \in Blocks /\ off' = off + 1
          /\ masks' = [masks EXCEPT ![off] = Xor(@, Stream(opened, off))]
      BY <1>1, <1>2, <1>4, OneBlock DEF Assumptions, IInv, Masked, packet
    <2>2. ASSUME NEW b \in Blocks PROVE masks'[b] = Both(b, off)'
      <3>1. b \in Int /\ off \in Int /\ masks \in [Blocks -> SUBSET Keystream]
        BY <2>1 DEF Blocks, IInv, CryptTypes
      <3>2. Both(b, off)' = (Sent(b, enc) \cup Opened(b, off)') \ (Sent(b, enc) \cap Opened(b, off)')
        BY <1>3 DEF Both
      <3>3. CASE b = off
        <4>1. Opened(b, off) = {} /\ Opened(b, off)' = {Stream(opened, b)}
          BY <1>3, <2>1, <3>1, <3>3 DEF Opened
        <4>2. masks[b] = Sent(b, enc)
          BY <1>2, <4>1 DEF Both
        <4>3. masks'[b] = Xor(Sent(b, enc), Stream(opened, b))
          BY <2>1, <3>1, <3>3, <4>2
        <4>4. QED  BY <3>2, <4>1, <4>3 DEF Xor
      <3>4. CASE b # off
        <4>1. masks'[b] = Both(b, off)
          BY <1>2, <2>1, <3>1, <3>4
        <4>2. b < off' <=> b < off
          BY <2>1, <3>1, <3>4
        <4>3. Opened(b, off)' = Opened(b, off)
          BY <1>3, <4>2 DEF Opened
        <4>4. QED  BY <3>2, <4>1, <4>3 DEF Both
      <3>5. QED  BY <3>3, <3>4
    <2>3. PathTypes' /\ Known'
      BY <1>1, <1>2, <1>4 DEF IInv, PathTypes, Known, packet
    <2>4. Masked'
      BY <1>1, <1>4, <2>1, <2>2 DEF Masked
    <2>5. QED  BY <2>1, <2>3, <2>4 DEF IInv
  <1>5. CASE (CryptDone \/ CryptFails) /\ pc' = "decode" /\ dec' = off
    <2>1. CryptTypes' /\ UNCHANGED <<masks, off, len, channel_key, hw_key, node>>
      BY <1>5, Ended DEF IInv
    <2>2. off \in 0 .. MAX_BLOCKS
      BY DEF IInv, CryptTypes, Assumptions, AesAssumption
    <2>3. PathTypes' /\ Known'
      BY <1>1, <1>2, <1>5, <2>2 DEF IInv, PathTypes, Known, packet, Sending
    <2>4. ASSUME NEW b \in Blocks PROVE masks'[b] = Both(b, dec)'
      <3>1. Opened(b, dec)' = Opened(b, off)
        BY <1>3, <1>5 DEF Opened
      <3>2. QED  BY <1>2, <1>3, <2>1, <3>1 DEF Both
    <2>5. Masked'
      BY <1>5, <2>1, <2>4 DEF IInv, Masked
    <2>6. QED  BY <2>1, <2>3, <2>5 DEF IInv
  <1>6. QED  BY <1>1, <1>4, <1>5

LEMMA Decoded ==
    ASSUME IInv, UNCHANGED <<unit, crypt, pc, packet, h, msgs, keys, history>>
    PROVE  IInv'
  <1>1. CryptTypes' /\ PathTypes'
    BY DEF IInv, CryptTypes, PathTypes, unit, crypt, packet, history
  <1>2. Read' = Read
    BY DEF Read, packet
  <1>3. Known' /\ Masked'
    BY <1>2 DEF IInv, Known, Masked, Running, Both, Sent, Opened, Stream,
                unit, crypt, packet, history
  <1>4. QED  BY <1>1, <1>3 DEF IInv

-----------------------------------------------------------------------------
LEMMA Inductive == Spec => []IInv
  <1>1. Assumptions
    BY AesAssumption, PathAssumption DEF Assumptions
  <1>2. Init => IInv
    BY <1>1, InitEstablishes
  <1>3. IInv /\ [Next]_vars => IInv'
    <2> SUFFICES ASSUME IInv, [Next]_vars PROVE IInv'
      OBVIOUS
    <2>1. CASE \E n \in Node, k \in Key : SetKey(n, k)
      BY <1>1, <2>1, KeySet
    <2>2. CASE \E n, m \in Node, t \in Texts :
                  n # m /\ \E to \in {MESH_BROADCAST_ID, NodeId[m]} : SendLoraPacket(n, to, t)
      <3>1. PICK n \in Node, m \in Node, t \in Texts :
                \E to \in {MESH_BROADCAST_ID, NodeId[m]} : SendLoraPacket(n, to, t)
        BY <2>2
      <3>2. PICK to \in {MESH_BROADCAST_ID, NodeId[m]} : SendLoraPacket(n, to, t)
        BY <3>1
      <3>3. to \in Word
        BY <1>1, Broadcast DEF Assumptions, PathAssumption
      <3>4. QED  BY <1>1, <3>2, <3>3, PacketSent
    <2>3. CASE /\ pc = "idle" /\ msgs = 0 /\ keys = 0
               /\ \E n \in Foreign, d \in ForeignData : ForeignPacket(n, d)
      BY <1>1, <2>3, ForeignSent DEF Assumptions, PathAssumption
    <2>4. CASE \E r \in RelayIds : Relay(r)
      BY <1>1, <2>4, Relayed
    <2>5. CASE Lost \/ Handled
      BY <1>1, <2>5, Rested DEF Lost, Handled
    <2>6. CASE \E n \in Node : Receive(n)
      BY <1>1, <2>6, Received
    <2>7. CASE Encrypt \/ Decrypt
      BY <1>1, <2>7, Encrypts, Decrypts
    <2>8. CASE Decode
      BY <2>8, Decoded DEF Decode
    <2>9. CASE UNCHANGED vars
      BY <2>9, Decoded DEF vars
    <2>10. QED
      BY <2>1, <2>2, <2>3, <2>4, <2>5, <2>6, <2>7, <2>8, <2>9 DEF Next, Program
  <1>4. QED  BY <1>2, <1>3, PTL DEF Spec

\* A block of the payload is readable after aes_ctr_crypt at both ends exactly
\* if both AES units masked it with one key or neither masked it, whatever
\* relays the header went through and however often keys were changed
\* (aes_meshtastic.c:79-116, mesh_packet.c:3-20, main_loop.c:126-130, 201-206).
THEOREM ReadableBlocks == Spec => []BlocksReadable
  <1>1. IInv => BlocksReadable
    <2> SUFFICES ASSUME IInv, pc = "decode", NEW b \in 0 .. len - 1
                 PROVE  masks[b] = {} <=> \/ b < enc /\ b < dec /\ opened = used
                                          \/ b >= enc /\ b >= dec
      BY DEF BlocksReadable
    <2>1. /\ len \in 0 .. MAX_BLOCKS /\ MAX_BLOCKS \in Nat
          /\ enc \in 0 .. MAX_BLOCKS /\ dec \in 0 .. MAX_BLOCKS
      BY AesAssumption DEF IInv, CryptTypes, PathTypes, AesAssumption
    <2>2. b \in Blocks
      BY <2>1 DEF Blocks
    <2>3. masks[b] = Both(b, dec)
      BY <2>2 DEF IInv, Masked
    <2>4. Stream(used, b) = Stream(opened, b) <=> used = opened
      BY DEF Stream
    <2>5. (b >= enc <=> ~(b < enc)) /\ (b >= dec <=> ~(b < dec))
      BY <2>1
    <2>6. CASE b < enc /\ b < dec
      <3>1. Both(b, dec) = ({Stream(used, b)} \cup {Stream(opened, b)})
                               \ ({Stream(used, b)} \cap {Stream(opened, b)})
        BY <2>6 DEF Both, Sent, Opened
      <3>2. Both(b, dec) = {} <=> Stream(used, b) = Stream(opened, b)
        BY <3>1
      <3>3. QED  BY <2>3, <2>4, <2>5, <2>6, <3>2
    <2>7. CASE b < enc /\ ~(b < dec)
      BY <2>3, <2>5, <2>7 DEF Both, Sent, Opened
    <2>8. CASE ~(b < enc) /\ b < dec
      BY <2>3, <2>5, <2>8 DEF Both, Sent, Opened
    <2>9. CASE ~(b < enc) /\ ~(b < dec)
      BY <2>3, <2>5, <2>9 DEF Both, Sent, Opened
    <2>10. QED  BY <2>6, <2>7, <2>8, <2>9
  <1>2. QED  BY Inductive, <1>1, PTL

\* No two blocks of a packet on the air are masked alike, for every number of
\* blocks up to the values of the counter byte (aes_meshtastic.c:84-96).
THEOREM DifferentBlocks == Spec => []BlocksDiffer
  <1>1. IInv => BlocksDiffer
    <2> SUFFICES ASSUME IInv, pc = "air", NEW b \in 0 .. enc - 1, NEW c \in 0 .. enc - 1,
                        b # c
                 PROVE  masks[b] # masks[c]
      BY DEF BlocksDiffer
    <2>1. enc \in 0 .. MAX_BLOCKS /\ MAX_BLOCKS \in Nat
      BY AesAssumption DEF IInv, PathTypes, AesAssumption
    <2>2. b \in Blocks /\ c \in Blocks /\ b < enc /\ c < enc
      BY <2>1 DEF Blocks
    <2>3. masks[b] = {Stream(used, b)} /\ masks[c] = {Stream(used, c)}
      BY <2>2 DEF IInv, Masked, Sent
    <2>4. Stream(used, b) # Stream(used, c)
      BY DEF Stream
    <2>5. QED  BY <2>3, <2>4
  <1>2. QED  BY Inductive, <1>1, PTL

\* What a receiver shows as the sender's id is the id of the device that sent
\* the packet, however many relays wrote the header anew
\* (main_loop.c:192-201, flood_router.c:39-48).
THEOREM SenderIsSource == Spec => [](pc \in {"decrypt", "decode"} => h.from = NodeId[source])
  <1>1. IInv => (pc \in {"decrypt", "decode"} => h.from = NodeId[source])
    BY DEF IInv, Known, Sending
  <1>2. QED  BY Inductive, <1>1, PTL

-----------------------------------------------------------------------------
(* Varints. *)

\* A set of natural numbers has a least element.  (Instead of an induction over
\* the bytes of a message: the theorem of the library that is instantiated here
\* speaks of sets, not of a predicate.)
Smaller == {ss \in Nat \X Nat : ss[1] < ss[2]}

LEMMA LeastNatural ==
    ASSUME NEW T \in SUBSET Nat, T # {}
    PROVE  \E m \in T : \A k \in T : m <= k
  <1>1. IsWellFoundedOn(Smaller, Nat)
    BY NatLessThanWellFounded DEF OpToRel, Smaller
  <1>2. PICK m \in T : \A k \in T : ~(<<k, m>> \in Smaller)
    BY <1>1, WFMin
  <1>3. ASSUME NEW k \in T PROVE m <= k
    <2>1. <<k, m>> \in Nat \X Nat /\ ~(k < m)
      BY <1>2 DEF Smaller
    <2>2. QED  BY <2>1
  <1>4. QED  BY <1>3

\* (Expanded only where an element is looked up.)
IsMessage == data \in Seq(Byte)

\* A varint ends in the message, or at its end if it has no bytes left.
LEMMA VarintEnds ==
    ASSUME IsMessage, NEW p \in 0 .. Len(data)
    PROVE  Codec!LastByte(p) \in p - 1 .. Len(data) - 1
  <1>1. DEFINE ends == {i \in p .. Len(data) - 1 : data[i + 1] < 128}
  <1>2. Len(data) \in Nat
    BY DEF IsMessage
  <1>3. CASE ends = {}
    BY <1>2, <1>3 DEF Codec!LastByte, Codec!Size, Codec!At
  <1>4. CASE ends # {}
    <2>1. ends \in SUBSET Nat
      BY <1>2
    <2>2. \E i \in ends : \A j \in ends : i <= j
      BY <1>4, <2>1, LeastNatural
    <2>3. Codec!LastByte(p) = CHOOSE i \in ends : \A j \in ends : i <= j
      BY <1>4 DEF Codec!LastByte, Codec!Size, Codec!At
    <2>4. Codec!LastByte(p) \in ends
      BY <2>2, <2>3
    <2>5. QED  BY <1>2, <2>4
  <1>5. QED  BY <1>3, <1>4

\* If it has bytes left, it ends at one of them.
LEMMA LastIsLater ==
    ASSUME IsMessage, NEW p \in 0 .. Len(data), p < Len(data)
    PROVE  Codec!LastByte(p) \in p .. Len(data) - 1
  <1>1. DEFINE ends == {i \in p .. Len(data) - 1 : data[i + 1] < 128}
  <1>2. Len(data) \in Nat
    BY DEF IsMessage
  <1>3. CASE ends = {}
    <2>1. Codec!LastByte(p) = Len(data) - 1
      BY <1>3 DEF Codec!LastByte, Codec!Size, Codec!At
    <2>2. QED  BY <1>2, <2>1
  <1>4. CASE ends # {}
    <2>1. ends \in SUBSET Nat
      BY <1>2
    <2>2. \E i \in ends : \A j \in ends : i <= j
      BY <1>4, <2>1, LeastNatural
    <2>3. Codec!LastByte(p) = CHOOSE i \in ends : \A j \in ends : i <= j
      BY <1>4 DEF Codec!LastByte, Codec!Size, Codec!At
    <2>4. Codec!LastByte(p) \in ends
      BY <2>2, <2>3
    <2>5. QED  BY <1>2, <2>4
  <1>5. QED  BY <1>3, <1>4

LEMMA SevenBits ==
    ASSUME NEW x \in Byte PROVE x % 128 \in 0 .. 127 /\ (x < 128 => x % 128 = x)
  BY DEF Byte

LEMMA ByteIsNat == ASSUME NEW x \in Byte PROVE x \in Nat
  BY DEF Byte

LEMMA SmallBytes == \A x \in Nat : x <= 127 => x \in Byte
  BY DEF Byte

LEMMA NoHighDigits ==
       ~(0 >= 4) /\ ~(0 > 0) /\ ~(0 % 16 > 0)
  OBVIOUS

LowOf(x, y, z) == x + 128 * y + 16384 * (z % 4)

LEMMA LowDigits ==
    /\ \A x, y, z \in 0 .. 127 : LowOf(x, y, z) \in Nat /\ LowOf(x, y, z) < Codec!UINT16
    /\ \A x \in Nat : LowOf(x, 0, 0) = x
  <1>1. ASSUME NEW x \in 0 .. 127, NEW y \in 0 .. 127, NEW z \in 0 .. 127
        PROVE  LowOf(x, y, z) \in Nat /\ LowOf(x, y, z) < Codec!UINT16
    <2>1. DEFINE w == z % 4
    <2>2. w \in 0 .. 3
      OBVIOUS
    <2> HIDE DEF w
    <2>3. x + 128 * y + 16384 * w \in Nat /\ x + 128 * y + 16384 * w < 65536
      BY <2>2
    <2>4. QED  BY <2>3 DEF LowOf, Codec!UINT16, w
  <1>2. ASSUME NEW x \in Nat PROVE LowOf(x, 0, 0) = x
    <2>1. 0 % 4 = 0
      OBVIOUS
    <2>2. QED  BY <2>1 DEF LowOf
  <1>3. QED  BY <1>1, <1>2

Wide(low) == low + Codec!UINT16

LEMMA VarintNumbers ==
    /\ \A v \in 0 .. 2 * Codec!UINT16 - 1 : v \in Nat /\ v < 131072
    /\ \A low \in Nat : low < Codec!UINT16 =>
            /\ low < 131072
            /\ Wide(low) \in Nat /\ Wide(low) < 131072
  BY DEF Codec!UINT16, Wide

\* A byte below 128 is a varint of its own.
LEMMA OneByteVarint ==
    ASSUME IsMessage, NEW p \in 0 .. Len(data) - 1, data[p + 1] < 128
    PROVE  Codec!LastByte(p) = p /\ Codec!VarintValues(p) = {data[p + 1]}
  <1>1. DEFINE ends == {i \in p .. Len(data) - 1 : data[i + 1] < 128}
  <1>2. Len(data) \in Nat /\ p \in Nat /\ data[p + 1] \in Byte
    BY DEF IsMessage
  <1>3. p \in ends /\ \A j \in ends : p <= j
    BY <1>2
  <1>4. Codec!LastByte(p) = CHOOSE i \in ends : \A j \in ends : i <= j
    BY <1>3 DEF Codec!LastByte, Codec!Size, Codec!At
  <1>5. \A i \in ends : (\A j \in ends : i <= j) => i = p
    BY <1>2, <1>3
  <1>6. Codec!LastByte(p) = p
    BY <1>3, <1>4, <1>5
  <1>7. data[p + 1] % 128 = data[p + 1]
    BY <1>2, SevenBits
  <1>8. Codec!Digit(p, 0) = data[p + 1]
    BY <1>2, <1>6, <1>7 DEF Codec!Digit, Codec!At
  <1>9. /\ Codec!Digit(p, 1) = 0 /\ Codec!Digit(p, 2) = 0
        /\ Codec!Digit(p, 3) = 0 /\ Codec!Digit(p, 4) = 0
    BY <1>2, <1>6 DEF Codec!Digit
  <1>10. Codec!Low(p) = data[p + 1]
    <2>1. data[p + 1] \in Nat
      BY <1>2, ByteIsNat
    <2>2. Codec!Low(p) = LowOf(data[p + 1], 0, 0)
      BY <1>8, <1>9 DEF Codec!Low, LowOf
    <2>3. QED  BY <2>1, <2>2, LowDigits
  <1>11. ~Codec!High(p)
    BY <1>9, NoHighDigits DEF Codec!High
  <1>12. ~(p - p >= 5)
    BY <1>2
  <1>13. Codec!VarintValues(p) = {data[p + 1]}
    BY Zenon, <1>6, <1>10, <1>11, <1>12 DEF Codec!VarintValues
  <1>14. QED  BY <1>6, <1>13

LEMMA DigitRange ==
    ASSUME IsMessage, NEW p \in 0 .. Len(data), NEW k \in 0 .. 4
    PROVE  Codec!Digit(p, k) \in 0 .. 127
  <1>1. Len(data) \in Nat /\ Codec!LastByte(p) \in p - 1 .. Len(data) - 1
    BY VarintEnds DEF IsMessage
  <1>2. CASE p + k <= Codec!LastByte(p)
    <2>1. p + k + 1 \in 1 .. Len(data)
      BY <1>1, <1>2
    <2>2. data[p + k + 1] \in Byte
      BY <2>1 DEF IsMessage
    <2>3. data[p + k + 1] % 128 \in 0 .. 127
      BY <2>2, SevenBits
    <2>4. QED  BY <1>2, <2>3 DEF Codec!Digit, Codec!At
  <1>3. CASE ~(p + k <= Codec!LastByte(p))
    BY <1>3 DEF Codec!Digit
  <1>4. QED  BY <1>2, <1>3

LEMMA VarintRange ==
    ASSUME IsMessage, NEW p \in 0 .. Len(data), NEW v \in Codec!VarintValues(p)
    PROVE  v \in Nat /\ v < 131072
  <1>1. /\ Codec!Digit(p, 0) \in 0 .. 127 /\ Codec!Digit(p, 1) \in 0 .. 127
        /\ Codec!Digit(p, 2) \in 0 .. 127
    BY DigitRange
  <1>2. Codec!Low(p) \in Nat /\ Codec!Low(p) < Codec!UINT16
    <2>1. Codec!Low(p) = LowOf(Codec!Digit(p, 0), Codec!Digit(p, 1), Codec!Digit(p, 2))
      BY DEF Codec!Low, LowOf
    <2>2. QED  BY <1>1, <2>1, LowDigits
  <1>3. \/ v \in 0 .. 2 * Codec!UINT16 - 1
        \/ v = Wide(Codec!Low(p)) \/ v = Codec!Low(p)
    BY Zenon DEF Codec!VarintValues, Wide
  <1>4. QED  BY <1>2, <1>3, VarintNumbers

-----------------------------------------------------------------------------
(* pb_decode_data on any message. *)

LEMMA SkipRange ==
    /\ \A p, n \in Nat : Codec!Skip(p, n) \in 0 .. Codec!UINT16 - 1
    /\ \A p, n \in Nat : p + n < Codec!UINT16 => Codec!Skip(p, n) = p + n
  <1> SUFFICES ASSUME NEW p \in Nat, NEW n \in Nat
               PROVE  /\ Codec!Skip(p, n) \in 0 .. Codec!UINT16 - 1
                      /\ p + n < Codec!UINT16 => Codec!Skip(p, n) = p + n
    OBVIOUS
  <1>1. Codec!UINT16 \in Nat \ {0}
    BY DEF Codec!UINT16
  <1>2. Codec!Skip(p, n) = (p + n) % Codec!UINT16 /\ p + n \in Nat
    BY DEF Codec!Skip
  <1>3. QED  BY <1>1, <1>2

LEMMA PortRange == \A v \in Nat : v % 256 \in 0 .. 255
  OBVIOUS

\* A varint begins in the message or at its end, and the payload that was found
\* lies in it.
Bounded ==
    /\ IsMessage /\ Len(data) + 8 < Codec!UINT16
    /\ Codec!TypeOK
    /\ decoder = "value" => pos <= Len(data)
    /\ ~payload.null => payload.off + payload.len <= Len(data)

LEMMA BoundedField ==
    ASSUME Bounded, Codec!Next
    PROVE  Bounded'
  <1>1. /\ Len(data) \in Nat /\ Len(data) < Codec!UINT16 /\ Codec!UINT16 \in Nat
        /\ Len(data) + 8 < Codec!UINT16
        /\ pos \in 0 .. Codec!UINT16 - 1 /\ tag \in 0 .. 255 /\ portnum \in 0 .. 255
        /\ payload \in [off : 0 .. Len(data), len : 0 .. Len(data), null : BOOLEAN]
    <2>1. Len(data) \in Nat /\ Len(data) + 8 < Codec!UINT16
      BY DEF Bounded, IsMessage
    <2>2. Codec!UINT16 \in Nat
      BY DEF Codec!UINT16
    <2>3. /\ pos \in 0 .. Codec!UINT16 - 1 /\ tag \in 0 .. 255 /\ portnum \in 0 .. 255
          /\ payload \in [off : 0 .. Len(data), len : 0 .. Len(data), null : BOOLEAN]
      BY Zenon DEF Bounded, Codec!TypeOK, Codec!Size
    <2>4. QED  BY <2>1, <2>2, <2>3
  <1>2. data' = data
    BY DEF Codec!Next, Codec!ReadTag, Codec!EndOfData, Codec!VarintField,
           Codec!BytesField, Codec!Fixed, Codec!Break
  <1>3. IsMessage' /\ Len(data)' = Len(data)
    BY <1>2 DEF IsMessage, Bounded
  <1>4. SUFFICES /\ pos' \in 0 .. Codec!UINT16 - 1 /\ tag' \in 0 .. 255
                 /\ portnum' \in 0 .. 255 /\ decoder' \in {"tag", "value", "done"}
                 /\ payload' \in [off : 0 .. Len(data), len : 0 .. Len(data), null : BOOLEAN]
                 /\ decoder' = "value" => pos' <= Len(data)
                 /\ ~payload'.null => payload'.off + payload'.len <= Len(data)
    BY <1>1, <1>3 DEF Bounded, Codec!TypeOK, Codec!Size
  <1>5. ~payload.null => payload.off + payload.len <= Len(data)
    BY DEF Bounded
  <1>6. CASE Codec!ReadTag
    <2>1. /\ pos < Len(data) /\ tag' = data[pos + 1] /\ pos' = pos + 1
          /\ decoder' = "value" /\ UNCHANGED <<portnum, payload>>
      BY <1>6 DEF Codec!ReadTag, Codec!Size, Codec!At
    <2>2. pos + 1 \in 1 .. Len(data)
      BY <1>1, <2>1
    <2>3. data[pos + 1] \in Byte
      BY <2>2 DEF Bounded, IsMessage
    <2>4. tag' \in 0 .. 255
      BY <2>1, <2>3 DEF Byte
    <2>5. pos' \in 0 .. Codec!UINT16 - 1 /\ pos' <= Len(data)
      BY <1>1, <2>1, <2>2
    <2>6. QED  BY <1>1, <1>5, <2>1, <2>4, <2>5
  <1>7. CASE Codec!VarintField
    <2>1. /\ decoder = "value" /\ decoder' = "tag" /\ UNCHANGED <<tag, payload>>
          /\ pos' = Codec!LastByte(pos) + 1
      BY <1>7 DEF Codec!VarintField, Codec!AfterVarint
    <2>2. pos \in 0 .. Len(data)
      BY <1>1, <2>1 DEF Bounded
    <2>3. PICK val \in Codec!VarintValues(pos) :
              portnum' = IF Codec!Field = 1 THEN val % 256 ELSE portnum
      BY <1>7 DEF Codec!VarintField
    <2>4. val \in Nat
      BY <2>2, VarintRange DEF Bounded
    <2>5. portnum' \in 0 .. 255
      BY <1>1, <2>3, <2>4, PortRange
    <2>6. pos' \in 0 .. Codec!UINT16 - 1
      <3>1. Codec!LastByte(pos) \in pos - 1 .. Len(data) - 1
        BY <2>2, VarintEnds DEF Bounded
      <3>2. QED  BY <1>1, <2>1, <2>2, <3>1
    <2>7. QED  BY <1>1, <1>5, <2>1, <2>5, <2>6
  <1>8. CASE Codec!BytesField
    <2>1. /\ decoder = "value" /\ decoder' = "tag" /\ UNCHANGED <<tag, portnum>>
      BY <1>8 DEF Codec!BytesField
    <2>2. pos \in 0 .. Len(data)
      BY <1>1, <2>1 DEF Bounded
    <2>3. PICK flen \in Codec!VarintValues(pos) :
              LET next == Codec!LastByte(pos) + 1
              IN  /\ payload' = IF Codec!Field = 2 /\ Codec!Fits(flen, next)
                                    THEN [off |-> next, len |-> flen, null |-> FALSE]
                                    ELSE payload
                  /\ pos' = Codec!Skip(next, flen)
      BY <1>8 DEF Codec!BytesField
    <2>4. DEFINE next == Codec!LastByte(pos) + 1
    <2>5. flen \in Nat /\ next \in Nat /\ next <= Len(data)
      <3>1. IsMessage
        BY DEF Bounded
      <3>2. flen \in Nat
        BY <2>2, <3>1, VarintRange
      <3>3. Codec!LastByte(pos) \in pos - 1 .. Len(data) - 1
        BY <2>2, <3>1, VarintEnds
      <3>4. next \in Nat /\ next <= Len(data)
        BY <1>1, <2>2, <3>3
      <3>5. QED  BY <3>2, <3>4
    <2>6. pos' \in 0 .. Codec!UINT16 - 1
      BY <2>3, <2>5, SkipRange
    <2>7. /\ payload' \in [off : 0 .. Len(data), len : 0 .. Len(data), null : BOOLEAN]
          /\ ~payload'.null => payload'.off + payload'.len <= Len(data)
      <3>1. CASE payload' = payload
        BY <1>1, <1>5, <3>1
      <3>2. CASE /\ payload' = [off |-> next, len |-> flen, null |-> FALSE]
                 /\ flen <= Len(data) - next
        BY <1>1, <2>5, <3>2
      <3>3. QED  BY <2>3, <3>1, <3>2 DEF Codec!Fits, Codec!Size
    <2>8. QED  BY <1>1, <2>1, <2>6, <2>7
  <1>9. CASE Codec!Fixed
    <2>1. /\ decoder' = "tag" /\ UNCHANGED <<tag, portnum, payload>>
          /\ \E n \in Nat : pos' = Codec!Skip(pos, n)
      BY <1>9 DEF Codec!Fixed
    <2>2. pos' \in 0 .. Codec!UINT16 - 1
      BY <1>1, <2>1, SkipRange
    <2>3. QED  BY <1>1, <1>5, <2>1, <2>2
  <1>10. CASE Codec!EndOfData \/ Codec!Break
    <2>1. decoder' = "done" /\ UNCHANGED <<pos, tag, portnum, payload>>
      BY <1>10 DEF Codec!EndOfData, Codec!Break
    <2>2. QED  BY <1>1, <1>5, <2>1
  <1>11. QED
    BY <1>6, <1>7, <1>8, <1>9, <1>10 DEF Codec!Next

-----------------------------------------------------------------------------
(* pb_decode_data on what pb_encode_data wrote. *)

\* What pb_encode_data writes, byte by byte.
LEMMA Encoded ==
    ASSUME Assumptions, NEW t \in Texts, NEW d,
           d = Codec!PbEncodeData(PORTNUM_TEXT_MESSAGE, t), d # <<>>
    PROVE  /\ t \in Seq(Byte) /\ Len(t) \in Nat /\ Len(t) <= 127
           /\ d \in Seq(Byte) /\ Len(d) = 4 + Len(t) /\ Len(d) <= MAX_OUT
           /\ d[1] = 8 /\ d[2] = PORTNUM_TEXT_MESSAGE /\ d[3] = 18 /\ d[4] = Len(t)
           /\ SubSeq(d, 5, 4 + Len(t)) = t
  <1>1. t \in Seq(Byte) /\ Len(t) \in Nat /\ MAX_OUT \in Nat
    BY DEF Assumptions, PathAssumption
  <1>2. ~(4 + Len(t) > MAX_OUT) /\ ~(Len(t) > 127)
    BY DEF Codec!PbEncodeData
  <1>3. DEFINE front == <<8, PORTNUM_TEXT_MESSAGE, 18, Len(t)>>
  <1>4. d = front \o t
    BY <1>2 DEF Codec!PbEncodeData
  <1>5. Len(t) <= 127 /\ 4 + Len(t) <= MAX_OUT
    BY <1>1, <1>2
  <1>6. Len(t) \in Byte
    BY <1>1, <1>5, SmallBytes
  <1>7. 8 \in Byte /\ 18 \in Byte /\ PORTNUM_TEXT_MESSAGE \in Byte
    BY SmallBytes DEF PORTNUM_TEXT_MESSAGE
  <1>8. front \in Seq(Byte) /\ Len(front) = 4
    BY <1>6, <1>7
  <1>9. /\ d \in Seq(Byte) /\ Len(d) = 4 + Len(t)
        /\ \A i \in 1 .. 4 + Len(t) : d[i] = IF i <= 4 THEN front[i] ELSE t[i - 4]
    BY <1>1, <1>4, <1>8, ConcatProperties
  <1>10. d[1] = 8 /\ d[2] = PORTNUM_TEXT_MESSAGE /\ d[3] = 18 /\ d[4] = Len(t)
    BY <1>1, <1>9
  <1>11. SubSeq(d, 5, 4 + Len(t)) = t
    <2>1. DEFINE u == SubSeq(d, 5, 4 + Len(t))
    <2>2. \A i \in 5 .. 4 + Len(t) : d[i] \in Byte
      BY <1>1, <1>9
    <2>3. /\ u \in Seq(Byte) /\ Len(u) = IF 5 <= 4 + Len(t) THEN (4 + Len(t)) - 5 + 1 ELSE 0
          /\ \A i \in 1 .. (4 + Len(t)) - 5 + 1 : u[i] = d[5 + i - 1]
      BY <1>1, <2>2, SubSeqProperties
    <2>4. Len(u) = Len(t)
      BY <1>1, <2>3
    <2>5. ASSUME NEW i \in 1 .. Len(u) PROVE u[i] = t[i]
      <3>1. u[i] = d[4 + i] /\ 4 + i \in 1 .. 4 + Len(t) /\ ~(4 + i <= 4) /\ (4 + i) - 4 = i
        BY <1>1, <2>3, <2>4
      <3>2. QED  BY <1>9, <3>1
    <2>6. QED  BY <1>1, <2>3, <2>4, <2>5, SeqEqual
  <1>12. QED  BY <1>1, <1>5, <1>9, <1>10, <1>11

\* The decoder reads the port number, then the text, then the end.
Found == [off |-> 4, len |-> Len(text), null |-> FALSE]

Stage ==
    \/ decoder = "tag"   /\ pos = 0 /\ payload = Codec!None
    \/ decoder = "value" /\ pos = 1 /\ payload = Codec!None /\ tag = 8
    \/ decoder = "tag"   /\ pos = 2 /\ payload = Codec!None /\ portnum = PORTNUM_TEXT_MESSAGE
    \/ /\ decoder = "value" /\ pos = 3 /\ payload = Codec!None /\ tag = 18
       /\ portnum = PORTNUM_TEXT_MESSAGE
    \/ /\ decoder \in {"tag", "done"} /\ pos = 4 + Len(text) /\ payload = Found
       /\ portnum = PORTNUM_TEXT_MESSAGE

Own == /\ text \in Texts /\ data # <<>>
       /\ data = Codec!PbEncodeData(PORTNUM_TEXT_MESSAGE, text)

LEMMA Tags ==
    /\ 8 \div 8 = 1 /\ 8 % 8 = 0 /\ 18 \div 8 = 2 /\ 18 % 8 = 2 /\ 1 % 256 = 1
  OBVIOUS

LEMMA StageField ==
    ASSUME Assumptions, Own, Stage, Codec!Next, text' = text
    PROVE  Stage' /\ data' = data
  <1>1. data' = data
    BY DEF Codec!Next, Codec!ReadTag, Codec!EndOfData, Codec!VarintField,
           Codec!BytesField, Codec!Fixed, Codec!Break
  <1>2. DEFINE n == Len(text)
  <1>3. /\ n \in Nat /\ n <= 127 /\ IsMessage /\ Len(data) = 4 + n
        /\ data[1] = 8 /\ data[2] = PORTNUM_TEXT_MESSAGE /\ data[3] = 18 /\ data[4] = n
    BY Encoded DEF Own, IsMessage
  <1>4. Found' = Found
    BY DEF Found
  <1>5. CASE decoder = "tag" /\ pos = 0 /\ payload = Codec!None
    <2>1. Codec!ReadTag
      BY <1>3, <1>5 DEF Codec!Next, Codec!EndOfData, Codec!VarintField, Codec!BytesField,
                        Codec!Fixed, Codec!Break, Codec!Size
    <2>2. decoder' = "value" /\ pos' = 1 /\ payload' = Codec!None /\ tag' = 8
      BY <1>3, <1>5, <2>1 DEF Codec!ReadTag, Codec!At
    <2>3. QED  BY <1>1, <2>2 DEF Stage
  <1>6. CASE decoder = "value" /\ pos = 1 /\ payload = Codec!None /\ tag = 8
    <2>1. Codec!Wire = 0 /\ Codec!Field = 1
      BY <1>6, Tags DEF Codec!Wire, Codec!Field
    <2>2. Codec!VarintField
      BY <1>6, <2>1 DEF Codec!Next, Codec!ReadTag, Codec!EndOfData, Codec!BytesField,
                        Codec!Fixed, Codec!Break
    <2>3. 1 \in 0 .. Len(data) - 1 /\ data[1 + 1] < 128
      BY <1>3 DEF PORTNUM_TEXT_MESSAGE
    <2>4. Codec!LastByte(1) = 1 /\ Codec!VarintValues(1) = {PORTNUM_TEXT_MESSAGE}
      BY <1>3, <2>3, OneByteVarint
    <2>5. portnum' = PORTNUM_TEXT_MESSAGE
      BY <1>6, <2>1, <2>2, <2>4, Tags DEF Codec!VarintField, PORTNUM_TEXT_MESSAGE
    <2>6. decoder' = "tag" /\ pos' = 2 /\ payload' = Codec!None
      BY <1>6, <2>2, <2>4 DEF Codec!VarintField, Codec!AfterVarint
    <2>7. QED  BY <1>1, <2>5, <2>6 DEF Stage
  <1>7. CASE /\ decoder = "tag" /\ pos = 2 /\ payload = Codec!None
             /\ portnum = PORTNUM_TEXT_MESSAGE
    <2>1. Codec!ReadTag
      BY <1>3, <1>7 DEF Codec!Next, Codec!EndOfData, Codec!VarintField, Codec!BytesField,
                        Codec!Fixed, Codec!Break, Codec!Size
    <2>2. /\ decoder' = "value" /\ pos' = 3 /\ payload' = Codec!None /\ tag' = 18
          /\ portnum' = PORTNUM_TEXT_MESSAGE
      BY <1>3, <1>7, <2>1 DEF Codec!ReadTag, Codec!At
    <2>3. QED  BY <1>1, <2>2 DEF Stage
  <1>8. CASE /\ decoder = "value" /\ pos = 3 /\ payload = Codec!None /\ tag = 18
             /\ portnum = PORTNUM_TEXT_MESSAGE
    <2>1. Codec!Wire = 2 /\ Codec!Field = 2
      BY <1>8, Tags DEF Codec!Wire, Codec!Field
    <2>2. ~(pos >= Codec!Size)
      BY <1>3, <1>8 DEF Codec!Size
    <2>3. Codec!BytesField
      BY <1>3, <1>8, <2>1, <2>2 DEF Codec!Next, Codec!ReadTag, Codec!EndOfData,
                        Codec!VarintField, Codec!Fixed, Codec!Break
    <2>4. 3 \in 0 .. Len(data) - 1 /\ data[3 + 1] < 128
      BY <1>3
    <2>5. Codec!LastByte(3) = 3 /\ Codec!VarintValues(3) = {n}
      BY <1>3, <2>4, OneByteVarint
    <2>6. Codec!Fits(n, 4) /\ Codec!Skip(4, n) = 4 + n
      <3>1. 4 \in Nat /\ 4 + n < Codec!UINT16
        BY <1>3 DEF Codec!UINT16
      <3>2. n <= (4 + n) - 4
        BY <1>3
      <3>3. QED  BY <1>3, <3>1, <3>2, SkipRange DEF Codec!Fits, Codec!Size
    <2>7. payload' = Found /\ pos' = 4 + n
      <3>1. 3 + 1 = 4
        OBVIOUS
      <3>2. QED  BY <1>8, <2>1, <2>3, <2>5, <2>6, <3>1 DEF Codec!BytesField, Found
    <2>8. decoder' = "tag" /\ portnum' = PORTNUM_TEXT_MESSAGE
      BY <1>8, <2>3 DEF Codec!BytesField
    <2>9. QED  BY <1>1, <1>4, <2>7, <2>8 DEF Stage
  <1>9. CASE /\ decoder \in {"tag", "done"} /\ pos = 4 + Len(text) /\ payload = Found
             /\ portnum = PORTNUM_TEXT_MESSAGE
    <2>1. ~(pos < Codec!Size)
      BY <1>3, <1>9 DEF Codec!Size
    <2>2. Codec!EndOfData
      BY <1>9, <2>1 DEF Codec!Next, Codec!ReadTag, Codec!VarintField, Codec!BytesField,
                        Codec!Fixed, Codec!Break
    <2>3. decoder' = "done" /\ UNCHANGED <<pos, payload, portnum>>
      BY <2>2 DEF Codec!EndOfData
    <2>4. QED  BY <1>1, <1>4, <1>9, <2>3 DEF Stage
  <1>10. QED  BY <1>5, <1>6, <1>7, <1>8, <1>9, <1>1 DEF Stage

-----------------------------------------------------------------------------
(* The message on its way to the decoder. *)

\* What is encrypted is what pb_encode_data wrote, if this firmware did.
Carried ==
    /\ plain \in Seq(Byte) /\ Len(plain) + 8 < Codec!UINT16
    /\ own /\ pc \in Sending => /\ text \in Texts /\ plain # <<>>
                                /\ plain = Codec!PbEncodeData(PORTNUM_TEXT_MESSAGE, text)
                                /\ len = BlocksOf(plain)

AtRest == /\ data = <<>> /\ pos = 0 /\ tag = 0 /\ portnum = 0
          /\ payload = Codec!None /\ decoder = "done"

Readable == own /\ enc = len /\ dec = len /\ used = opened

DInv ==
    /\ Bounded /\ Carried
    /\ pc # "decode" => AtRest
    /\ pc = "decode" /\ Readable => data = plain /\ Stage

\* The block of a byte is one of the blocks of the message.
LEMMA BlockOfByte ==
    ASSUME NEW b \in Nat \ {0}, NEW n \in Nat, NEW i \in 1 .. n
    PROVE  (i - 1) \div b \in 0 .. ((n + b - 1) \div b) - 1
  <1>1. DEFINE q == (i - 1) \div b
               m == (n + b - 1) \div b
  <1>2. i - 1 \in Nat /\ n + b - 1 \in Nat
    OBVIOUS
  <1>3. q \in Nat /\ b * q <= i - 1
    BY <1>2
  <1>4. m \in Nat /\ n + b - 1 < b * (m + 1)
    BY <1>2
  <1>5. ASSUME m <= q PROVE FALSE
    <2>1. b * (m + 1) <= b * (q + 1)
      BY <1>3, <1>4, <1>5
    <2>2. b * (q + 1) = b * q + b
      BY <1>3
    <2>3. b * q \in Nat
      BY <1>3
    <2>4. QED  BY <1>3, <1>4, <2>1, <2>2, <2>3
  <1>6. QED  BY <1>3, <1>4, <1>5

LEMMA RestIsBounded ==
    ASSUME AtRest PROVE Bounded
  <1>1. data \in Seq(Byte) /\ Len(data) = 0
    BY EmptySeq DEF AtRest
  <1>2. 0 \in 0 .. 65536 - 1 /\ 0 \in 0 .. 255 /\ 0 + 8 < 65536 /\ 0 \in 0 .. 0
    OBVIOUS
  <1>3. QED
    BY <1>1, <1>2 DEF AtRest, Bounded, IsMessage, Codec!TypeOK, Codec!UINT16, Codec!Size,
                      Codec!None

LEMMA Fresh ==
    ASSUME AtRest, plain = <<>>, pc = "idle" PROVE DInv
  <1>1. plain \in Seq(Byte) /\ Len(plain) + 8 < Codec!UINT16
    BY EmptySeq DEF Codec!UINT16
  <1>2. QED  BY <1>1, RestIsBounded DEF DInv, Carried, Sending

\* The steps that neither touch the message nor decode.
LEMMA Untouched ==
    ASSUME DInv, UNCHANGED <<decode, plain, text, own, len>>,
           pc # "decode", pc' # "decode", pc' \in Sending => pc \in Sending
    PROVE  DInv'
  <1>1. AtRest'
    BY DEF DInv, AtRest, decode
  <1>2. Carried'
    BY DEF DInv, Carried, BlocksOf
  <1>3. Bounded'
    BY DEF DInv, Bounded, IsMessage, decode, Codec!TypeOK, Codec!Size
  <1>4. QED  BY <1>1, <1>2, <1>3 DEF DInv

LEMMA SentIsCarried ==
    ASSUME Assumptions, DInv, NEW n \in Node, NEW to, NEW t \in Texts, SendLoraPacket(n, to, t)
    PROVE  DInv'
  <1>1. DEFINE d == Codec!PbEncodeData(PORTNUM_TEXT_MESSAGE, t)
  <1>2. /\ pc = "idle" /\ pc' = "encrypt" /\ d # <<>> /\ plain' = d /\ text' = t /\ own' = TRUE
        /\ len' = BlocksOf(d) /\ UNCHANGED decode
    BY DEF SendLoraPacket, aes_ctr_crypt
  <1>3. AtRest'
    BY <1>2 DEF DInv, AtRest, decode
  <1>4. d \in Seq(Byte) /\ Len(d) + 8 < Codec!UINT16
    <2>1. d \in Seq(Byte) /\ Len(d) \in Nat /\ Len(d) <= 131
      BY <1>2, Encoded
    <2>2. QED  BY <2>1 DEF Codec!UINT16
  <1>5. Carried'
    BY <1>2, <1>4 DEF Carried, BlocksOf
  <1>6. Bounded'
    BY <1>2 DEF DInv, Bounded, IsMessage, decode, Codec!TypeOK, Codec!Size
  <1>7. QED  BY <1>2, <1>3, <1>5, <1>6 DEF DInv

LEMMA ForeignIsCarried ==
    ASSUME Assumptions, DInv, pc = "idle", NEW n \in Foreign, NEW d \in ForeignData,
           ForeignPacket(n, d)
    PROVE  DInv'
  <1>1. pc' = "air" /\ plain' = d /\ own' = FALSE /\ UNCHANGED decode
    BY DEF ForeignPacket
  <1>2. AtRest'
    BY <1>1 DEF DInv, AtRest, decode
  <1>3. d \in Seq(Byte) /\ Len(d) + 8 < Codec!UINT16
    <2>1. /\ d \in Seq(Byte) /\ Len(d) \in Nat /\ Len(d) <= BLOCK * MAX_BLOCKS
          /\ BLOCK * MAX_BLOCKS + 8 < 65536 /\ BLOCK \in Nat /\ MAX_BLOCKS \in Nat
      BY DEF Assumptions, PathAssumption, AesAssumption
    <2>2. QED  BY <2>1 DEF Codec!UINT16
  <1>4. Carried'
    BY <1>1, <1>3 DEF Carried
  <1>5. Bounded'
    BY <1>1 DEF DInv, Bounded, IsMessage, decode, Codec!TypeOK, Codec!Size
  <1>6. QED  BY <1>1, <1>2, <1>4, <1>5 DEF DInv

LEMMA DecryptedIsCarried ==
    ASSUME Assumptions, IInv, IInv', BlocksReadable', DInv, Decrypt
    PROVE  DInv'
  <1>1. /\ pc = "decrypt" /\ UNCHANGED packet
        /\ \/ CryptBlock /\ UNCHANGED <<pc, decode>>
           \/ /\ CryptDone \/ CryptFails
              /\ pc' = "decode" /\ decoder' = "tag"
              /\ \E g \in Garbage : data' = Decrypted(g)
              /\ UNCHANGED <<pos, tag, portnum, payload>>
    BY DEF Decrypt
  <1>2. AtRest /\ Carried
    BY <1>1 DEF DInv
  <1>3. CASE CryptBlock /\ UNCHANGED <<pc, decode>>
    <2>1. len' = len
      BY <1>3 DEF CryptBlock
    <2>2. QED  BY <1>1, <1>3, <2>1, Untouched DEF packet
  <1>4. CASE /\ CryptDone \/ CryptFails
             /\ pc' = "decode" /\ decoder' = "tag"
             /\ \E g \in Garbage : data' = Decrypted(g)
             /\ UNCHANGED <<pos, tag, portnum, payload>>
    <2>1. len' = len /\ masks' = masks
      BY <1>4, Ended DEF IInv
    <2>2. Carried'
      BY <1>1, <1>2, <1>4, <2>1 DEF Carried, packet, BlocksOf, Sending
    <2>3. PICK g \in Garbage : data' = Decrypted(g)
      BY <1>4
    <2>4. DOMAIN plain = 1 .. Len(plain) /\ Len(plain) \in Nat /\ Len(plain) + 8 < Codec!UINT16
      BY <1>2 DEF Carried
    <2>5. data' \in Seq(Byte) /\ Len(data') = Len(plain)
      <3>1. g \in Byte
        BY DEF Assumptions, PathAssumption
      <3>2. \A i \in 1 .. Len(plain) : plain[i] \in Byte
        BY <1>2 DEF Carried
      <3>3. data' \in [1 .. Len(plain) -> Byte]
        BY <2>3, <2>4, <3>1, <3>2 DEF Decrypted
      <3>4. QED  BY <2>4, <3>3
    <2>6. Bounded'
      <3>1. /\ pos' = 0 /\ tag' = 0 /\ portnum' = 0 /\ payload' = Codec!None
            /\ decoder' = "tag"
        BY <1>2, <1>4 DEF AtRest
      <3>2. /\ 0 \in 0 .. Codec!UINT16 - 1 /\ 0 \in 0 .. 255 /\ 0 \in 0 .. Len(plain)
        BY <2>4 DEF Codec!UINT16
      <3>3. Codec!TypeOK'
        BY <2>5, <3>1, <3>2 DEF Codec!TypeOK, Codec!Size, Codec!None
      <3>4. QED  BY <2>4, <2>5, <3>1, <3>3 DEF Bounded, IsMessage, Codec!None
    <2>7. ASSUME Readable' PROVE data' = plain' /\ Stage'
      <3>1. own /\ plain' = plain /\ len = BlocksOf(plain)
        BY <1>1, <1>2, <2>7 DEF Readable, packet, Carried, Sending
      <3>2. ASSUME NEW i \in 1 .. Len(plain) PROVE masks[(i - 1) \div BLOCK] = {}
        <4>1. DEFINE b == (i - 1) \div BLOCK
        <4>2. BLOCK \in Nat \ {0}
          BY DEF Assumptions, PathAssumption
        <4>3. b \in 0 .. len - 1
          BY <2>4, <3>1, <4>2, BlockOfByte DEF BlocksOf
        <4>4. len \in Nat
          BY DEF IInv, CryptTypes
        <4>5. b \in 0 .. len' - 1 /\ b < len'
          BY <2>1, <4>3, <4>4
        <4>6. masks'[b] = {}
          BY <1>4, <2>7, <4>5 DEF BlocksReadable, Readable
        <4>7. QED  BY <2>1, <4>6
      <3>3. data' = [i \in DOMAIN plain |-> plain[i]]
        BY <2>3, <2>4, <3>2 DEF Decrypted
      <3>4. data' = plain'
        BY <1>2, <3>1, <3>3 DEF Carried
      <3>5. Stage'
        BY <1>2, <1>4 DEF AtRest, Stage
      <3>6. QED  BY <3>4, <3>5
    <2>8. QED  BY <1>4, <2>2, <2>6, <2>7 DEF DInv
  <1>5. QED  BY <1>1, <1>3, <1>4

LEMMA DecodedField ==
    ASSUME Assumptions, DInv, Decode
    PROVE  DInv'
  <1>1. /\ pc = "decode" /\ pc' = "decode" /\ Codec!Next
        /\ UNCHANGED <<plain, text, own, enc, dec, used, opened, len>>
    BY DEF Decode, packet, history, crypt
  <1>2. Bounded'
    BY <1>1, BoundedField DEF DInv
  <1>3. Carried'
    BY <1>1 DEF DInv, Carried, BlocksOf
  <1>4. ASSUME Readable' PROVE data' = plain' /\ Stage'
    <2>1. Readable /\ data = plain /\ Stage
      BY <1>1, <1>4 DEF Readable, DInv
    <2>2. Own
      BY <1>1, <2>1 DEF Own, DInv, Carried, Readable, Sending
    <2>3. QED  BY <1>1, <2>1, <2>2, StageField
  <1>5. QED  BY <1>1, <1>2, <1>3, <1>4 DEF DInv

LEMMA RestIsFresh == AtRest /\ plain = <<>> /\ pc = "idle" => DInv
  BY Fresh

LEMMA Finished ==
    ASSUME Rest PROVE DInv'
  <1>1. (AtRest /\ plain = <<>> /\ pc = "idle")'
    BY DEF Rest, AtRest
  <1>2. QED  BY <1>1, RestIsFresh, PTL

LEMMA DecoderInductive == Spec => []DInv
  <1>1. Assumptions
    BY AesAssumption, PathAssumption DEF Assumptions
  <1>2. Init => DInv
    BY RestIsFresh DEF Init, AtRest
  <1>3. IInv /\ IInv' /\ BlocksReadable' /\ DInv /\ [Next]_vars => DInv'
    <2> SUFFICES ASSUME IInv, IInv', BlocksReadable', DInv, [Next]_vars PROVE DInv'
      OBVIOUS
    <2>1. CASE \E n \in Node, k \in Key : SetKey(n, k)
      <3>1. pc \in {"idle", "air"} /\ UNCHANGED <<crypt, pc, packet, decode>>
        BY <2>1 DEF SetKey
      <3>2. QED  BY <3>1, Untouched DEF crypt, packet
    <2>2. CASE \E n, m \in Node, t \in Texts :
                  n # m /\ \E to \in {MESH_BROADCAST_ID, NodeId[m]} : SendLoraPacket(n, to, t)
      <3>1. PICK n \in Node, m \in Node, t \in Texts :
                \E to \in {MESH_BROADCAST_ID, NodeId[m]} : SendLoraPacket(n, to, t)
        BY <2>2
      <3>2. QED  BY <1>1, <3>1, SentIsCarried
    <2>3. CASE /\ pc = "idle" /\ msgs = 0 /\ keys = 0
               /\ \E n \in Foreign, d \in ForeignData : ForeignPacket(n, d)
      BY <1>1, <2>3, ForeignIsCarried
    <2>4. CASE \E r \in RelayIds : Relay(r)
      <3>1. pc = "air" /\ UNCHANGED <<crypt, pc, plain, text, own, decode>>
        BY <2>4 DEF Relay
      <3>2. QED  BY <3>1, Untouched DEF crypt
    <2>5. CASE Lost \/ Handled
      BY <2>5, Finished DEF Lost, Handled
    <2>6. CASE \E n \in Node : Receive(n)
      <3>1. pc = "air" /\ pc' = "decrypt" /\ len' = len /\ UNCHANGED <<packet, decode>>
        BY <2>6 DEF Receive, aes_ctr_crypt
      <3>2. QED  BY <3>1, Untouched DEF packet, Sending
    <2>7. CASE Encrypt
      <3>1. /\ pc = "encrypt" /\ UNCHANGED <<packet, decode>>
            /\ pc' \in {"encrypt", "air"} /\ len' = len
        BY <2>7 DEF Encrypt, CryptBlock, CryptDone, CryptFails
      <3>2. QED  BY <3>1, Untouched DEF packet, Sending
    <2>8. CASE Decrypt
      BY <1>1, <2>8, DecryptedIsCarried
    <2>9. CASE Decode
      BY <1>1, <2>9, DecodedField
    <2>10. CASE UNCHANGED vars
      <3>1. UNCHANGED <<crypt, pc, packet, decode, history>>
        BY <2>10 DEF vars
      <3>2. Bounded'
        BY <3>1 DEF DInv, Bounded, IsMessage, decode, Codec!TypeOK, Codec!Size
      <3>3. Carried' /\ (AtRest' <=> AtRest) /\ (Readable' <=> Readable) /\ (Stage' <=> Stage)
        BY <3>1 DEF DInv, Carried, BlocksOf, AtRest, Readable, Stage, Found,
                    decode, packet, crypt, history
      <3>4. QED  BY <3>1, <3>2, <3>3 DEF DInv, packet, decode
    <2>11. QED
      BY <2>1, <2>2, <2>3, <2>4, <2>5, <2>6, <2>7, <2>8, <2>9, <2>10 DEF Next, Program
  <1>4. QED  BY <1>2, <1>3, Inductive, ReadableBlocks, PTL DEF Spec

\* The header has its bytes, the masks are keystream blocks, and neither
\* aes_ctr_crypt nor pb_decode_data leaves the payload: the decoder's position
\* does not go beyond the end when a varint begins, whatever bytes a foreign or
\* unreadable message has (main_loop.c:54-102, aes_meshtastic.c:79-116).
THEOREM PathTypeCorrect == Spec => []TypeOK
  <1>1. IInv /\ DInv => TypeOK
    BY DEF IInv, DInv, Bounded, TypeOK
  <1>2. QED  BY <1>1, Inductive, DecoderInductive, PTL

\* What is printed and compared with "pong" lies in the packet, for every
\* sequence of bytes, varints that are too wide for their type included
\* (main_loop.c:90, 213-217).
THEOREM PayloadStaysInData == Spec => []PayloadInData
  <1>1. DInv => PayloadInData
    BY DEF DInv, Bounded, PayloadInData, Codec!PayloadInData, Codec!Shows, Codec!Size
  <1>2. QED  BY <1>1, DecoderInductive, PTL

\* Every text this firmware sends is shown as it was sent, with its sender's
\* id, by every receiver with its key, over any number of relays, unless an AES
\* unit failed (main_loop.c:36-51, 54-102, 105-130, 192-217).
THEOREM TextsArrive == Spec => []TextArrives
  <1>1. Assumptions
    BY AesAssumption, PathAssumption DEF Assumptions
  <1>2. IInv /\ DInv => TextArrives
    <2> SUFFICES ASSUME IInv, DInv, pc = "decode", decoder = "done", Readable
                 PROVE  /\ h.from = NodeId[source]
                        /\ portnum = PORTNUM_TEXT_MESSAGE
                        /\ Codec!Shows <=> text # <<>>
                        /\ Codec!Payload = text
      BY DEF TextArrives, Readable
    <2>1. h.from = NodeId[source]
      BY DEF IInv, Known, Sending
    <2>2. portnum = PORTNUM_TEXT_MESSAGE /\ payload = Found
      BY DEF DInv, Stage
    <2>3. /\ data = plain /\ text \in Texts /\ plain # <<>>
          /\ plain = Codec!PbEncodeData(PORTNUM_TEXT_MESSAGE, text)
      BY DEF DInv, Carried, Readable, Sending
    <2>4. text \in Seq(Byte) /\ Len(text) \in Nat /\ SubSeq(data, 5, 4 + Len(text)) = text
      BY <1>1, <2>3, Encoded
    <2>5. Codec!Payload = text
      BY <2>2, <2>4 DEF Codec!Payload, Found
    <2>6. Codec!Shows <=> Len(text) > 0
      BY <2>2 DEF Codec!Shows, Found
    <2>7. Len(text) > 0 <=> text # <<>>
      BY <2>4, EmptySeq
    <2>8. QED  BY <2>1, <2>2, <2>5, <2>6, <2>7
  <1>3. QED  BY <1>2, Inductive, DecoderInductive, PTL

\* Position p of a message of n bytes that has bytes left.
Left(p, n) == p \in Nat /\ n \in Nat /\ p < n /\ n + 8 < 65536

LEMMA Positions ==
    ASSUME NEW p, NEW n, Left(p, n)
    PROVE  /\ p \in Nat /\ p \in 0 .. n /\ p + 1 > p
           /\ \A k \in {4, 8} : k \in Nat /\ p + k < 65536 /\ p + k > p
           /\ \A i \in p .. n - 1 :
                 i + 1 \in Nat /\ i + 1 > p /\ \A f \in Nat : i + 1 + f > p
  <1>1. p \in Nat /\ n \in Nat /\ p < n /\ n + 8 < 65536
    BY DEF Left
  <1>2. p \in 0 .. n /\ p + 1 > p
    BY <1>1
  <1>3. ASSUME NEW k \in {4, 8} PROVE k \in Nat /\ p + k < 65536 /\ p + k > p
    <2>1. k \in Nat /\ k > 0 /\ k <= 8
      OBVIOUS
    <2>2. QED  BY <1>1, <2>1
  <1>4. ASSUME NEW i \in p .. n - 1
        PROVE  i + 1 \in Nat /\ i + 1 > p /\ \A f \in Nat : i + 1 + f > p
    <2>1. i \in Nat /\ i >= p
      BY <1>1
    <2>2. QED  BY <1>1, <2>1
  <1>5. QED  BY <1>1, <1>2, <1>3, <1>4

\* The step ends before the end of the position's 16 bits, or beyond.
LEMMA SkipOrWrap ==
    ASSUME NEW next \in Nat, NEW flen \in Nat
    PROVE  Codec!Skip(next, flen) = next + flen \/ next + flen >= Codec!UINT16
  <1>1. next + flen < Codec!UINT16 \/ next + flen >= Codec!UINT16
    BY DEF Codec!UINT16
  <1>2. QED  BY <1>1, SkipRange

Wraps == /\ Codec!Wire = 2
         /\ \E flen \in Codec!VarintValues(pos) :
               Codec!LastByte(pos) + 1 + flen >= Codec!UINT16

LEMMA FieldAdvances ==
    ASSUME IsMessage, Left(pos, Len(data)), Codec!Next, decoder' # "done"
    PROVE  pos' > pos \/ Wraps
  <1>1. pos \in 0 .. Len(data)
    BY Positions
  <1>2. PICK i \in pos .. Len(data) - 1 : i = Codec!LastByte(pos)
    <2>1. pos < Len(data)
      BY DEF Left
    <2>2. QED  BY <1>1, <2>1, LastIsLater
  <1>3. CASE Codec!ReadTag
    <2>1. pos' = pos + 1
      BY <1>3 DEF Codec!ReadTag
    <2>2. pos + 1 > pos
      BY Positions
    <2>3. QED  BY ONLY <2>1, <2>2
  <1>4. CASE Codec!VarintField
    <2>1. pos' = i + 1
      BY <1>2, <1>4, Zenon DEF Codec!VarintField, Codec!AfterVarint
    <2>2. i + 1 > pos
      BY <1>2, Positions
    <2>3. QED  BY ONLY <2>1, <2>2
  <1>5. CASE Codec!BytesField
    <2>1. PICK flen \in Codec!VarintValues(pos) : pos' = Codec!Skip(i + 1, flen)
      BY <1>2, <1>5, Zenon DEF Codec!BytesField
    <2>2. flen \in Nat
      BY <1>1, VarintRange
    <2>3. i + 1 \in Nat /\ i + 1 + flen > pos
      BY <1>2, <2>2, Positions
    <2>4. CASE Codec!Skip(i + 1, flen) = i + 1 + flen
      <3>1. pos' = i + 1 + flen
        BY ONLY <2>1, <2>4
      <3>2. QED  BY ONLY <2>3, <3>1
    <2>5. CASE i + 1 + flen >= Codec!UINT16
      <3>1. Codec!Wire = 2
        BY <1>5 DEF Codec!BytesField
      <3>2. QED  BY ONLY <1>2, <2>5, <3>1, Zenon DEF Wraps
    <2>6. QED  BY <2>2, <2>3, <2>4, <2>5, SkipOrWrap
  <1>6. CASE Codec!Fixed
    <2>1. PICK k \in {4, 8} : pos' = Codec!Skip(pos, k)
      BY <1>6 DEF Codec!Fixed
    <2>2. pos \in Nat /\ k \in Nat /\ pos + k < Codec!UINT16 /\ pos + k > pos
      BY Positions DEF Codec!UINT16
    <2>3. Codec!Skip(pos, k) = pos + k
      BY <2>2, SkipRange
    <2>4. pos' = pos + k
      BY ONLY <2>1, <2>3
    <2>5. QED  BY ONLY <2>2, <2>4
  <1>7. CASE Codec!EndOfData \/ Codec!Break
    BY <1>7 DEF Codec!EndOfData, Codec!Break
  <1>8. QED
    BY <1>3, <1>4, <1>5, <1>6, <1>7, Zenon DEF Codec!Next

LEMMA PositionIsNat == \A x \in 0 .. Codec!UINT16 - 1 : x \in Nat
  <1>1. Codec!UINT16 \in Nat
    BY DEF Codec!UINT16
  <1>2. QED  BY <1>1

LEMMA BytesLeft ==
    ASSUME Bounded, ~(pos >= Len(data)) PROVE Left(pos, Len(data))
  <1>1. PICK n \in Nat : n = Len(data) /\ n + 8 < 65536
    BY DEF Bounded, IsMessage, Codec!UINT16
  <1>2. PICK p \in Nat : p = pos
    <2>1. pos \in 0 .. Codec!UINT16 - 1
      BY Zenon DEF Bounded, Codec!TypeOK
    <2>2. pos \in Nat
      BY <2>1, PositionIsNat, Zenon
    <2>3. QED  BY ONLY <2>2
  <1>3. ~(p >= n)
    BY <1>1, <1>2
  <1>4. p < n
    BY ONLY <1>3
  <1>5. Left(p, n)
    BY <1>1, <1>4 DEF Left
  <1>6. QED  BY <1>1, <1>2, <1>5

\* With every field pb_decode_data goes forward in the message, or its length
\* takes the 16-bit position around (main_loop.c:64-101).
THEOREM AdvancesOrWraps == Spec => DecoderAdvances
  <1>1. DEFINE Forward ==
           pc = "decode" /\ pc' = "decode" /\ decoder' # "done"
             => pos' > pos \/ pos >= Len(data) \/ Wraps
  <1>2. DInv /\ [Next]_vars => [Forward]_vars
    <2> SUFFICES ASSUME DInv, Next, pc = "decode", pc' = "decode", decoder' # "done",
                        ~(pos >= Len(data))
                 PROVE  pos' > pos \/ Wraps
      BY DEF Forward
    <2>1. Codec!Next
      BY DEF Next, Program, SetKey, SendLoraPacket, ForeignPacket, Relay, Rest, Lost,
             Handled, Receive, Encrypt, Decrypt, Decode
    <2>2. Bounded /\ IsMessage
      BY DEF DInv, Bounded
    <2>3. Left(pos, Len(data))
      BY <2>2, BytesLeft
    <2>4. QED  BY <2>1, <2>2, <2>3, FieldAdvances
  <1>3. QED  BY <1>2, DecoderInductive, PTL DEF Spec, DecoderAdvances, Wraps
=============================================================================
