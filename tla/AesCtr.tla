------------------------------ MODULE AesCtr ---------------------------------
(***************************************************************************)
(* Crypto/aes_meshtastic.c on several devices: setting the channel key and *)
(* aes_ctr_crypt, block by block, with an AES unit that may fail at any    *)
(* block.  The callers are in MessagePath.                                 *)
(*                                                                         *)
(* A keystream block is what the AES unit makes of key and nonce, here the *)
(* record of the two.  XOR-ing one into a block of the payload puts it in  *)
(* the block's set of masks, or takes it out: a block is readable when its *)
(* set is empty.  ECB is taken to be injective in key and nonce.           *)
(***************************************************************************)
EXTENDS Integers

CONSTANTS Node,         \* the devices
          Key,          \* channel keys
          MAX_BLOCKS,   \* blocks of the longest payload (240 bytes: 15)
          COUNTER       \* values of the counter byte (256)

ASSUME AesAssumption ==
    /\ MAX_BLOCKS \in Nat \ {0} /\ COUNTER \in Nat \ {0}
    /\ MAX_BLOCKS <= COUNTER

VARIABLES channel_key,  \* channel_key[n]: the key set last
          hw_key,       \* what the AES unit is given, through its handle
          cryp_ready,
          crypting,     \* a call of aes_ctr_crypt is on its way
          node,         \* who runs it, or ran the last one
          len,          \* blocks of its payload
          packet_id, from_node,         \* its arguments
          masks,        \* the masks of each block of the payload
          off,          \* the next block
          counter       \* nonce[15]

unit  == <<channel_key, hw_key, cryp_ready>>
crypt == <<crypting, node, len, packet_id, from_node, masks, off, counter>>

Blocks == 0 .. MAX_BLOCKS - 1
Clear  == [b \in Blocks |-> {}]

\* Mutation: the AES unit keeps the key it was initialized with.
SetKeyLate(n, k) ==
    /\ channel_key' = [channel_key EXCEPT ![n] = k]
    /\ hw_key' = IF cryp_ready[n] THEN hw_key ELSE [hw_key EXCEPT ![n] = k]
    /\ UNCHANGED cryp_ready

\* The handle points to hw_key, and is initialized again at the next block.
aes_set_channel_key(n, k) ==
    /\ channel_key' = [channel_key EXCEPT ![n] = k]
    /\ hw_key' = [hw_key EXCEPT ![n] = k]
    /\ cryp_ready' = [cryp_ready EXCEPT ![n] = FALSE]

\* aes_ctr_crypt of n is called on l blocks with masks m.
aes_ctr_crypt(n, m, l, id, from) ==
    /\ crypting' = TRUE
    /\ node' = n /\ masks' = m /\ len' = l
    /\ packet_id' = id /\ from_node' = from
    /\ off' = 0 /\ counter' = 0
    /\ UNCHANGED unit

Nonce(c) == [id |-> packet_id, from |-> from_node, counter |-> c]

Xor(m, k) == (m \cup {k}) \ (m \cap {k})

\* Mutation: one turn too many.
MoreLax == crypting /\ off <= len
More == crypting /\ off < len

\* One turn of the loop.
CryptBlock ==
    /\ More
    /\ cryp_ready' = [cryp_ready EXCEPT ![node] = TRUE]
    /\ masks' = [masks EXCEPT ![off] =
                    Xor(@, [key |-> hw_key[node], nonce |-> Nonce(counter)])]
    /\ counter' = (counter + 1) % COUNTER
    /\ off' = off + 1
    /\ UNCHANGED <<channel_key, hw_key, crypting, node, len, packet_id, from_node>>

\* The loop ends with the payload.
CryptDone ==
    /\ crypting /\ off = len
    /\ crypting' = FALSE
    /\ UNCHANGED <<unit, node, len, packet_id, from_node, masks, off, counter>>

\* HAL_CRYP_Init or HAL_CRYP_Encrypt fails: the rest stays as it is, and
\* nobody is told.
CryptFails ==
    /\ More
    /\ \E ready \in IF cryp_ready[node] THEN {TRUE} ELSE BOOLEAN :
          cryp_ready' = [cryp_ready EXCEPT ![node] = ready]
    /\ crypting' = FALSE
    /\ UNCHANGED <<channel_key, hw_key, node, len, packet_id, from_node, masks,
                   off, counter>>
=============================================================================
