---------------------------- MODULE MessagePath -----------------------------
(***************************************************************************)
(* The way of a text from one device to another, composed from             *)
(*   DataCodec   pb_encode_data and pb_decode_data,                        *)
(*   MeshHeader  the 16 bytes in front of the packet,                      *)
(*   AesCtr      aes_ctr_crypt at both ends,                               *)
(*   FloodOps    what a relay changes in the packet:                       *)
(* send_lora_packet and the receiving part of mesh_mini_loop               *)
(* (Core/main_loop.c).  One packet is on its way at a time; the deciding   *)
(* and the crossing of packets are the subject of MeshNetwork.             *)
(*                                                                         *)
(* Frames arrive undamaged here: the radio checks their CRC, but the       *)
(* driver never looks at its error flag.  A device may run another         *)
(* implementation, which puts any Data message in its packet.  A block     *)
(* that stays masked reads as bytes of Garbage.                            *)
(***************************************************************************)
EXTENDS AesCtr, FloodOps, MeshHeader, Sequences

CONSTANTS NodeId,       \* NodeId[n]: g_config.node_id, a Word
          FirstId,      \* next_packet_id of a sender that has been up for long
          BootKey,      \* g_config.channel_psk
          Texts,        \* texts to send, sequences of bytes
          Foreign,      \* the devices that run another implementation
          ForeignData,  \* Data messages of these
          Garbage,      \* what masked bytes read as
          RelayIds,     \* node ids of the relays
          BLOCK,        \* bytes of an AES block (16)
          MAX_OUT,      \* bytes pb_encode_data may write (240)
          MAX_MSGS,     \* bound: packets
          MAX_KEYS      \* bound: calls of aes_set_channel_key after boot

PORTNUM_TEXT_MESSAGE == 1

ASSUME PathAssumption ==
    /\ Node # {} /\ NodeId \in [Node -> Word] /\ FirstId \in Word
    /\ BootKey \in Key /\ Foreign \subseteq Node
    /\ RelayIds \subseteq Nat /\ Garbage \subseteq Byte
    /\ BLOCK \in Nat \ {0} /\ MAX_OUT \in Nat /\ MAX_OUT <= BLOCK * MAX_BLOCKS
    /\ BLOCK * MAX_BLOCKS + 8 < 65536   \* positions are uint16_t
    /\ Texts \subseteq Seq(Byte) /\ ForeignData \subseteq Seq(Byte)
    /\ \A d \in ForeignData : Len(d) <= BLOCK * MAX_BLOCKS
    /\ MAX_MSGS \in Nat /\ MAX_KEYS \in Nat

VARIABLES
    pc,                 \* "idle", "encrypt", "air", "decrypt" or "decode"
    next_packet_id,
    head,               \* the header bytes of the packet
    plain,              \* its Data message, before encryption
    h,                  \* the local h of mesh_mini_loop
    data, pos, tag, portnum, payload, decoder,  \* pb_decode_data (DataCodec)
    msgs, keys,
    source, text, own,  \* history: who sent what, own: with this firmware
    enc, dec,           \* history: blocks the AES units of both ends reached
    used, opened        \* history: the keys they were set to

decode  == <<data, pos, tag, portnum, payload, decoder>>
packet  == <<next_packet_id, head, plain, source, text, own>>
history == <<enc, dec, used, opened>>
vars    == <<unit, crypt, pc, packet, h, decode, msgs, keys, history>>

Codec == INSTANCE DataCodec WITH pc <- decoder, Inputs <- {}

NoHeader == [to |-> MESH_BROADCAST_ID, from |-> MESH_BROADCAST_ID,
             id |-> FirstId, flags |-> 0, channel |-> 0, next_hop |-> 0,
             relay |-> 0]

AnyNode == CHOOSE n \in Node : TRUE

\* mesh_mini_init of every device.
Init ==
    /\ channel_key = [n \in Node |-> BootKey] /\ hw_key = channel_key
    /\ cryp_ready = [n \in Node |-> FALSE]
    /\ crypting = FALSE /\ node = AnyNode /\ len = 0 /\ masks = Clear
    /\ packet_id = FirstId /\ from_node = NodeId[AnyNode] /\ off = 0 /\ counter = 0
    /\ pc = "idle" /\ next_packet_id = FirstId
    /\ head = mesh_header_to_buf(NoHeader) /\ h = NoHeader
    /\ plain = <<>> /\ source = AnyNode /\ text = <<>> /\ own = TRUE
    /\ data = <<>> /\ pos = 0 /\ tag = 0 /\ portnum = 0
    /\ payload = Codec!None /\ decoder = "done"
    /\ msgs = 0 /\ keys = 0
    /\ enc = 0 /\ dec = 0 /\ used = BootKey /\ opened = BootKey

-----------------------------------------------------------------------------
(* Between packets, or while one is in the air. *)

SetKey(n, k) ==
    /\ pc \in {"idle", "air"}
    /\ keys < MAX_KEYS
    /\ keys' = keys + 1
    /\ aes_set_channel_key(n, k)
    /\ UNCHANGED <<crypt, pc, packet, h, decode, msgs, history>>

-----------------------------------------------------------------------------
(* The sender. *)

\* next_packet_id++ in 32 bits.
Successor(w) ==
    IF w.lo < 65535 THEN [w EXCEPT !.lo = w.lo + 1]
                    ELSE [lo |-> 0, hi |-> (w.hi + 1) % 65536]

BlocksOf(d) == (Len(d) + BLOCK - 1) \div BLOCK

FrameFrom(n, to, flags) ==
    [to |-> to, from |-> NodeId[n], id |-> next_packet_id,
     flags |-> flags, channel |-> 0, next_hop |-> 0, relay |-> 0]

\* send_lora_packet: a text that pb_encode_data refuses goes nowhere.
SendLoraPacket(n, to, t) ==
    /\ pc = "idle" /\ msgs < MAX_MSGS
    /\ LET d     == Codec!PbEncodeData(PORTNUM_TEXT_MESSAGE, t)
           frame == FrameFrom(n, to, 3)
       IN  /\ d # <<>>
           /\ head' = mesh_header_to_buf(frame)
           /\ plain' = d
           /\ aes_ctr_crypt(n, Clear, BlocksOf(d), frame.id, frame.from)
    /\ next_packet_id' = Successor(next_packet_id)
    /\ pc' = "encrypt"
    /\ msgs' = msgs + 1
    /\ source' = n /\ text' = t /\ own' = TRUE
    /\ used' = channel_key[n]
    /\ UNCHANGED <<h, decode, keys, enc, dec, opened>>

Encrypt ==
    /\ pc = "encrypt"
    /\ \/ CryptBlock /\ UNCHANGED <<pc, enc>>
       \/ /\ CryptDone \/ CryptFails
          /\ pc' = "air" /\ enc' = off
    /\ UNCHANGED <<packet, h, decode, msgs, keys, dec, used, opened>>

\* The keystream of another implementation: all blocks, with the key of n.
ForeignMask(n, b) ==
    [key |-> channel_key[n],
     nonce |-> [id |-> next_packet_id, from |-> NodeId[n], counter |-> b]]

\* Another implementation sends; one such packet, and nothing else.
ForeignPacket(n, d) ==
    /\ head' = mesh_header_to_buf(FrameFrom(n, MESH_BROADCAST_ID, 0))
    /\ plain' = d
    /\ len' = BlocksOf(d)
    /\ masks' = [b \in Blocks |-> IF b < BlocksOf(d) THEN {ForeignMask(n, b)} ELSE {}]
    /\ pc' = "air"
    /\ msgs' = MAX_MSGS /\ keys' = MAX_KEYS
    /\ source' = n /\ text' = <<>> /\ own' = FALSE
    /\ enc' = BlocksOf(d) /\ used' = channel_key[n]
    /\ UNCHANGED <<unit, crypting, node, packet_id, from_node, off, counter,
                   next_packet_id, h, decode, dec, opened>>

-----------------------------------------------------------------------------
(* On the way. *)

\* A relay reads the header, takes a hop and writes the header back.
Relay(r) ==
    /\ pc = "air"
    /\ MeshHopLimit(mesh_header_from_buf(head).flags) # 0
    /\ head' = mesh_header_to_buf(
                   FloodPrepareForward(mesh_header_from_buf(head), r))
    /\ UNCHANGED <<unit, crypt, pc, next_packet_id, plain, source, text, own,
                   h, decode, msgs, keys, history>>

\* The packet was lost, or is handled: what was about it is not read again.
Rest ==
    /\ pc' = "idle"
    /\ head' = mesh_header_to_buf(NoHeader) /\ h' = NoHeader
    /\ plain' = <<>> /\ source' = AnyNode /\ text' = <<>> /\ own' = TRUE
    /\ data' = <<>> /\ pos' = 0 /\ tag' = 0 /\ portnum' = 0
    /\ payload' = Codec!None /\ decoder' = "done"
    /\ node' = AnyNode /\ len' = 0 /\ masks' = Clear
    /\ packet_id' = FirstId /\ from_node' = NodeId[AnyNode]
    /\ off' = 0 /\ counter' = 0
    /\ enc' = 0 /\ dec' = 0 /\ used' = BootKey /\ opened' = BootKey
    /\ UNCHANGED <<unit, crypting, next_packet_id, msgs, keys>>

Lost == pc = "air" /\ Rest

-----------------------------------------------------------------------------
(* The receiver. *)

\* mesh_mini_loop with a packet for this node.
Receive(n) ==
    /\ pc = "air"
    /\ n # source
    /\ h' = mesh_header_from_buf(head)
    /\ h'.to \in {MESH_BROADCAST_ID, NodeId[n]}
    /\ aes_ctr_crypt(n, masks, len, h'.id, h'.from)
    /\ pc' = "decrypt"
    /\ opened' = channel_key[n]
    /\ UNCHANGED <<packet, decode, msgs, keys, enc, dec, used>>

\* What dec_buf holds after aes_ctr_crypt.
Decrypted(g) ==
    [i \in DOMAIN plain |-> IF masks[(i - 1) \div BLOCK] = {} THEN plain[i] ELSE g]

Decrypt ==
    /\ pc = "decrypt"
    /\ \/ CryptBlock /\ UNCHANGED <<pc, decode, dec>>
       \/ /\ CryptDone \/ CryptFails
          /\ pc' = "decode" /\ dec' = off
          /\ \E g \in Garbage : data' = Decrypted(g)
          /\ decoder' = "tag"
          /\ UNCHANGED <<pos, tag, portnum, payload>>
    /\ UNCHANGED <<packet, h, msgs, keys, enc, used, opened>>

\* One field of pb_decode_data.
Decode ==
    /\ pc = "decode"
    /\ Codec!Next
    /\ UNCHANGED <<unit, crypt, pc, packet, h, msgs, keys, history>>

Handled == pc = "decode" /\ decoder = "done" /\ Rest

-----------------------------------------------------------------------------
Program == Encrypt \/ Decrypt \/ Decode \/ Handled

Next == \/ \E n \in Node, k \in Key : SetKey(n, k)
        \/ \E n, m \in Node, t \in Texts :
              n # m /\ \E to \in {MESH_BROADCAST_ID, NodeId[m]} : SendLoraPacket(n, to, t)
        \/ /\ pc = "idle" /\ msgs = 0 /\ keys = 0
           /\ \E n \in Foreign, d \in ForeignData : ForeignPacket(n, d)
        \/ \E r \in RelayIds : Relay(r)
        \/ Lost
        \/ \E n \in Node : Receive(n)
        \/ Program

Spec == Init /\ [][Next]_vars

-----------------------------------------------------------------------------
Keystream == [key : Key, nonce : [id : Word, from : Word, counter : 0 .. COUNTER - 1]]

\* The header has its bytes, the masks are keystream blocks, aes_ctr_crypt and
\* pb_decode_data stay within the payload.
CryptTypes ==
    /\ channel_key \in [Node -> Key] /\ hw_key \in [Node -> Key]
    /\ cryp_ready \in [Node -> BOOLEAN] /\ crypting \in BOOLEAN
    /\ node \in Node /\ packet_id \in Word /\ from_node \in Word
    /\ len \in 0 .. MAX_BLOCKS /\ off \in 0 .. len /\ counter \in 0 .. COUNTER - 1
    /\ masks \in [Blocks -> SUBSET Keystream]

PathTypes ==
    /\ pc \in {"idle", "encrypt", "air", "decrypt", "decode"}
    /\ next_packet_id \in Word
    /\ head \in [Offsets -> Byte] /\ h \in Header
    /\ source \in Node /\ own \in BOOLEAN
    /\ msgs \in 0 .. MAX_MSGS /\ keys \in 0 .. MAX_KEYS
    /\ enc \in 0 .. MAX_BLOCKS /\ dec \in 0 .. MAX_BLOCKS
    /\ used \in Key /\ opened \in Key

TypeOK == CryptTypes /\ PathTypes /\ Codec!TypeOK

\* After aes_ctr_crypt at both ends a block is readable if both units masked it
\* with one key, or if both failed before it; if one did, or the keys differ,
\* it is not.  It takes the sender's id and packet id through the header bytes,
\* whatever relays made of them, and a new key that reaches the AES unit
\* (aes_meshtastic.c:84-96, 109-115; main_loop.c:126-130, 201-206).
BlocksReadable ==
    pc = "decode" =>
        \A b \in 0 .. len - 1 :
            masks[b] = {} <=> \/ b < enc /\ b < dec /\ opened = used
                              \/ b >= enc /\ b >= dec

\* No two blocks of a packet are masked with the same keystream block: the
\* longest payload does not run around the counter byte.
BlocksDiffer ==
    pc = "air" => \A b, c \in 0 .. enc - 1 : b # c => masks[b] # masks[c]

\* A text sent with this firmware is shown by every receiver with its key, as
\* the text of the one that sent it, whoever relayed it, unless an AES unit
\* failed: encoder, header, keystream and decoder of the two ends fit.
TextArrives ==
    /\ pc = "decode" /\ decoder = "done"
    /\ own /\ enc = len /\ dec = len /\ used = opened
    => /\ h.from = NodeId[source]
       /\ portnum = PORTNUM_TEXT_MESSAGE
       /\ Codec!Shows <=> text # <<>>
       /\ Codec!Shows => Codec!Payload = text

\* The text that is printed and compared with "pong" lies in the packet,
\* wherever the fields of a foreign or unreadable message point
\* (main_loop.c:90, 213-217).
PayloadInData == pc = "decode" => Codec!PayloadInData

\* pb_decode_data goes forward with every field, to the end of the message, but
\* for a length that takes its 16-bit position around: whatever the bytes are,
\* foreign or unreadable, nothing else can keep the receiver's loop in a message
\* (main_loop.c:64-101).
DecoderAdvances ==
    [][pc = "decode" /\ pc' = "decode" /\ decoder' # "done"
         => \/ pos' > pos
            \/ pos >= Len(data)
            \/ /\ Codec!Wire = 2
               /\ \E flen \in Codec!VarintValues(pos) :
                     Codec!LastByte(pos) + 1 + flen >= Codec!UINT16]_vars
=============================================================================
