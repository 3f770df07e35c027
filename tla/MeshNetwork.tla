---------------------------- MODULE MeshNetwork -----------------------------
(***************************************************************************)
(* Several devices running mesh_mini_loop (Core/main_loop.c) over a lossy  *)
(* radio.  A loop iteration is split where it goes on the air, since a     *)
(* transmission takes seconds and the other devices go on meanwhile:       *)
(*                                                                         *)
(*   PollRadio  takes the frame out of the radio, decides whether to relay *)
(*              it, registers it, and decides whether to answer it;        *)
(*   Reply      sends the "pong";                                          *)
(*   Forward    relays what lora_rx_buf holds.                             *)
(*                                                                         *)
(* Console commands are handled between two iterations.  The devices share *)
(* the channel key, so decrypting and decoding a frame of one of them      *)
(* yields the text its sender encoded (lines of more than 127 bytes, which *)
(* pb_encode_data refuses, are LongText).  The radio is external here: a   *)
(* transmission reaches any subset of the devices in range, and the radio  *)
(* keeps the latest frame only, until the loop polls it.                   *)
(***************************************************************************)
EXTENDS FloodOps, Sequences, Functions

CONSTANTS Device,       \* the devices
          Hear,         \* Hear[d]: the devices in range of d
          BootId,       \* BootId[d]: the node_id the configuration of d holds
          NoFrame,      \* an empty radio or an untouched lora_rx_buf
          BROADCAST,    \* MESH_BROADCAST_ID
          Text,         \* the lines a user types
          LongText,     \* those that do not fit in a packet
          PACKET_IDS,   \* next_packet_id wraps here (2^32 in the code)
          NewIds,       \* the ids a user sets with N1 .. N9
          MAX_LINES,    \* bound: lines typed, all devices together
          MAX_SETS,     \* bound: node ids set
          MAX_BOOTS     \* bound: reboots

Pong == "pong"

ASSUME MeshAssumption ==
    /\ Hear \in [Device -> SUBSET Device]
    /\ \A d \in Device : d \notin Hear[d]
    /\ BootId \in [Device -> Nat]
    /\ NewIds \subseteq 1 .. 9
    /\ BROADCAST \notin {BootId[d] : d \in Device} \cup NewIds
    /\ LongText \subseteq Text
    /\ Pong \notin LongText
    /\ PACKET_IDS \in Nat \ {0}
    /\ MAX_LINES \in Nat /\ MAX_SETS \in Nat /\ MAX_BOOTS \in Nat

VARIABLES
    node_id,            \* g_config.node_id
    next_packet_id,
    router,             \* seen_buf and seen_head
    rx,                 \* the frame the radio holds and nobody has polled
    lora_rx_buf,        \* the frame being handled; what an iteration leaves
                        \* there is never read again and counts as NoFrame
    should_fwd,         \* the local of mesh_mini_loop, FALSE outside it
    pc,                 \* where the loop is: "idle", "reply" or "forward"
    lines, sets, boots, \* what the bounds count
    sent,               \* history: the packets handed to lora_tx
    recent,             \* history: recent[d], the last SEEN_SIZE pairs registered
    aired               \* history: aired[d], the packets d put on the air
                        \* whose pair is still among them

device == <<node_id, next_packet_id, router, lora_rx_buf, should_fwd, pc>>
counts == <<lines, sets, boots>>
vars   == <<device, rx, counts, sent, recent, aired>>

Id == {BootId[d] : d \in Device} \cup NewIds
Frame == [to : Id \cup {BROADCAST}, from : Id, id : 0 .. PACKET_IDS - 1,
          flags : 0 .. 3, relay : 0 .. 255, text : (Text \ LongText) \cup {Pong}]
Packet == [to : Id \cup {BROADCAST}, from : Id, id : 0 .. PACKET_IDS - 1,
           text : (Text \ LongText) \cup {Pong}]

\* What identifies a frame on its way, whoever relays it.
PacketOf(f) == [to |-> f.to, from |-> f.from, id |-> f.id, text |-> f.text]

\* mesh_mini_init, after the C runtime zeroed the static variables.
Init ==
    /\ node_id = BootId
    /\ next_packet_id = [d \in Device |-> 0]
    /\ router = [d \in Device |-> EmptyRouter]
    /\ rx = [d \in Device |-> NoFrame]
    /\ lora_rx_buf = [d \in Device |-> NoFrame]
    /\ should_fwd = [d \in Device |-> FALSE]
    /\ pc = [d \in Device |-> "idle"]
    /\ lines = 0 /\ sets = 0 /\ boots = 0
    /\ sent = {}
    /\ recent = [d \in Device |-> <<>>]
    /\ aired = [d \in Device |-> {}]

-----------------------------------------------------------------------------
\* lora_tx: any of the devices in range receive the frame, none of them when
\* the transmission fails; what their radio held is overwritten.
Transmit(d, f) ==
    /\ \E hearers \in SUBSET Hear[d] :
         rx' = [e \in Device |-> IF e \in hearers THEN f ELSE rx[e]]
    /\ sent' = sent \cup {PacketOf(f)}

\* Those of the packets ps whose pair is one of the sequence s.
StillIn(ps, s) == {q \in ps : PairOf(q) \in Range(s)}

\* The histories after d registered p and put the packets ps on the air.
Note(d, p, ps) ==
    LET last == IF Len(recent[d]) = SEEN_SIZE
                  THEN Append(Tail(recent[d]), p)
                  ELSE Append(recent[d], p)
    IN  /\ recent' = [recent EXCEPT ![d] = last]
        /\ aired' = [aired EXCEPT ![d] = StillIn(@ \cup ps, last)]

Register(d, p) == router' = [router EXCEPT ![d] = FloodSeen(router[d], p)]

\* Mutation: the packet counter is not advanced.
StuckPacketId(d) == next_packet_id[d]
\* next_packet_id++
PacketIdAfter(d) == (next_packet_id[d] + 1) % PACKET_IDS

\* send_lora_packet, for a text that fits.
SendLoraPacket(d, to, text) ==
    LET p == <<node_id[d], next_packet_id[d]>>
        f == [to |-> to, from |-> node_id[d], id |-> next_packet_id[d],
              flags |-> 3, relay |-> 0, text |-> text]
    IN  /\ next_packet_id' = [next_packet_id EXCEPT ![d] = PacketIdAfter(d)]
        /\ Register(d, p)
        /\ Note(d, p, {PacketOf(f)})
        /\ Transmit(d, f)

-----------------------------------------------------------------------------
\* A line that is no command is broadcast; one that is too long goes nowhere.
UserLine(d, t) ==
    /\ pc[d] = "idle"
    /\ lines < MAX_LINES
    /\ lines' = lines + 1
    /\ \/ /\ t \notin LongText
          /\ SendLoraPacket(d, BROADCAST, t)
          /\ UNCHANGED <<node_id, lora_rx_buf, should_fwd, pc>>
       \/ /\ t \in LongText
          /\ UNCHANGED <<device, rx, sent, recent, aired>>
    /\ UNCHANGED <<sets, boots>>

\* N1 .. N9
SetNodeId(d, n) ==
    /\ pc[d] = "idle"
    /\ sets < MAX_SETS
    /\ sets' = sets + 1
    /\ node_id' = [node_id EXCEPT ![d] = n]
    /\ UNCHANGED <<next_packet_id, router, lora_rx_buf, should_fwd, pc, rx,
                   lines, boots, sent, recent, aired>>

\* Mutation: a pong is answered too.
AnswersPongs(d, h) == h.to \in {BROADCAST, node_id[d]}
\* A text for everybody or for this node is answered, unless it is a pong.
Answers(d, h) == h.to \in {BROADCAST, node_id[d]} /\ h.text # Pong

\* Mutation: the poll leaves the frame announced.
KeptFrame(d) == rx
\* lora_rx_poll clears rx_pending.
Polled(d) == [rx EXCEPT ![d] = NoFrame]

\* The decision to relay is taken before the packet is registered, the answer
\* does not look at the ring at all.
PollRadio(d) ==
    /\ pc[d] = "idle"
    /\ rx[d] # NoFrame
    /\ LET h == rx[d]
           fwd == FloodShouldForward(router[d], h, MESH_HEADER_SIZE + 1)
           answer == Answers(d, h)
       IN  /\ Register(d, PairOf(h))
           /\ Note(d, PairOf(h), {})
           /\ lora_rx_buf' = [lora_rx_buf EXCEPT
                                ![d] = IF answer \/ fwd THEN h ELSE NoFrame]
           /\ should_fwd' = [should_fwd EXCEPT ![d] = fwd]
           /\ pc' = [pc EXCEPT ![d] = IF answer THEN "reply"
                                      ELSE IF fwd THEN "forward" ELSE "idle"]
    /\ rx' = Polled(d)
    /\ UNCHANGED <<node_id, next_packet_id, counts, sent>>

Reply(d) ==
    /\ pc[d] = "reply"
    /\ SendLoraPacket(d, lora_rx_buf[d].from, Pong)
    /\ pc' = [pc EXCEPT ![d] = IF should_fwd[d] THEN "forward" ELSE "idle"]
    /\ lora_rx_buf' = [lora_rx_buf EXCEPT
                         ![d] = IF should_fwd[d] THEN @ ELSE NoFrame]
    /\ UNCHANGED <<node_id, should_fwd, counts>>

Forward(d) ==
    /\ pc[d] = "forward"
    /\ LET f == FloodPrepareForward(lora_rx_buf[d], node_id[d])
       IN  /\ Transmit(d, f)
           /\ aired' = [aired EXCEPT
                          ![d] = StillIn(@ \cup {PacketOf(f)}, recent[d])]
    /\ lora_rx_buf' = [lora_rx_buf EXCEPT ![d] = NoFrame]
    /\ should_fwd' = [should_fwd EXCEPT ![d] = FALSE]
    /\ pc' = [pc EXCEPT ![d] = "idle"]
    /\ UNCHANGED <<node_id, next_packet_id, router, counts, recent>>

\* Power loss or reset, at any point; the packet counter, the ring and the id
\* set from the console are in RAM only.
Reboot(d) ==
    /\ boots < MAX_BOOTS
    /\ boots' = boots + 1
    /\ node_id' = [node_id EXCEPT ![d] = BootId[d]]
    /\ next_packet_id' = [next_packet_id EXCEPT ![d] = 0]
    /\ router' = [router EXCEPT ![d] = EmptyRouter]
    /\ rx' = [rx EXCEPT ![d] = NoFrame]
    /\ lora_rx_buf' = [lora_rx_buf EXCEPT ![d] = NoFrame]
    /\ should_fwd' = [should_fwd EXCEPT ![d] = FALSE]
    /\ pc' = [pc EXCEPT ![d] = "idle"]
    /\ recent' = [recent EXCEPT ![d] = <<>>]
    /\ aired' = [aired EXCEPT ![d] = {}]
    /\ UNCHANGED <<lines, sets, sent>>

Loop(d) == PollRadio(d) \/ Reply(d) \/ Forward(d)

Next == \E d \in Device :
            \/ Loop(d)
            \/ \E t \in Text : UserLine(d, t)
            \/ \E n \in NewIds : SetNodeId(d, n)
            \/ Reboot(d)

Spec == Init /\ [][Next]_vars

\* The main loop never stops: main calls mesh_mini_loop forever.
FairSpec == Spec /\ \A d \in Device : WF_vars(Loop(d))

-----------------------------------------------------------------------------
TypeOK ==
    /\ node_id \in [Device -> Id]
    /\ next_packet_id \in [Device -> 0 .. PACKET_IDS - 1]
    /\ router \in [Device -> [buf : [Slots -> (Id \X (0 .. PACKET_IDS - 1))
                                               \cup {ZeroPair}],
                              head : Slots]]
    /\ rx \in [Device -> Frame \cup {NoFrame}]
    /\ lora_rx_buf \in [Device -> Frame \cup {NoFrame}]
    /\ should_fwd \in [Device -> BOOLEAN]
    /\ pc \in [Device -> {"idle", "reply", "forward"}]
    /\ lines \in 0 .. MAX_LINES /\ sets \in 0 .. MAX_SETS /\ boots \in 0 .. MAX_BOOTS
    /\ sent \subseteq Packet

\* All the copies of a packet, whoever relayed them and however often, carry
\* the same destination and text: (from_id, packet_id) names one packet.  The
\* deduplication and the AES-CTR nonce both rest on it.  It is said of devices
\* that have kept the ids they started with, and their counters: a reboot takes
\* next_packet_id back to 0 (main_loop.c:118), an id set may be another's.
PacketIdentity ==
    sets = 0 /\ boots = 0
        => \A f, g \in sent : f.from = g.from /\ f.id = g.id => f = g

\* A "pong" is only ever sent to a node that sent a text: pongs are not
\* answered, whoever sends them and however they are relayed.
PongAnswersText ==
    \A f \in sent : f.text = Pong /\ f.to # BROADCAST
        => \E g \in sent : g.text # Pong /\ g.from = f.to

\* A device does not relay a packet it has put on the air itself, as its
\* source or as a relay, as long as the packet stayed among the last SEEN_SIZE
\* it registered.  The pong that the same frame triggers is registered between
\* the decision to relay and the relaying, and must not break this.
NoEcho ==
    [][\A d \in Device :
          Forward(d) => PacketOf(lora_rx_buf[d]) \notin aired[d]]_vars

\* Nobody owes anybody anything: no frame waits in a radio, every loop idles.
Quiet == \A d \in Device : rx[d] = NoFrame /\ pc[d] = "idle"

\* Once the users stop typing, the radio goes silent: a text, its relayed
\* copies and the pongs they cause do not feed on themselves.
Quiesces == <>[]Quiet
=============================================================================
