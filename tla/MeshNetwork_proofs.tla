------------------------- MODULE MeshNetwork_proofs --------------------------
(***************************************************************************)
(* For any number of devices, any topology, any losses, reboots and        *)
(* changes of node ids: the states are those TypeOK names, a pong is only  *)
(* sent to a node that sent a text, and no device relays what it has put   *)
(* on the air itself while it remembers it.  Quiesces is left to TLC.      *)
(*                                                                         *)
(* The two properties are not inductive.  Heard and Handling say that the  *)
(* frame a radio or a loop holds is of a packet somebody sent, and what    *)
(* the loop has decided about it; IsWindow that the ring holds the pairs   *)
(* of recent, slot by slot; Kept and Unaired what is in aired.             *)
(* PacketIdentity needs more of the devices, see the last section.         *)
(***************************************************************************)
EXTENDS MeshNetwork, TLAPS

Number  == 0 .. PACKET_IDS - 1
Line    == (Text \ LongText) \cup {Pong}
Pair    == Id \X Number
Routers == [buf : [Slots -> Pair \cup {ZeroPair}], head : Slots]

\* The slot of r that holds the registration a registrations ago.
SlotAt(r, a) == IF a < r.head THEN r.head - 1 - a ELSE r.head - 1 - a + SEEN_SIZE

\* The ring r holds the sequence s, oldest first.
IsWindow(r, s) ==
    /\ r \in Routers
    /\ s \in Seq(Pair) /\ Len(s) <= SEEN_SIZE
    /\ \A i \in 1 .. Len(s) : r.buf[SlotAt(r, Len(s) - i)] = s[i]

Heard(d) == rx[d] # NoFrame => PacketOf(rx[d]) \in sent

Handling(d) ==
    /\ pc[d] # "idle" => /\ lora_rx_buf[d] \in Frame
                         /\ PacketOf(lora_rx_buf[d]) \in sent
    /\ pc[d] = "reply" => lora_rx_buf[d].text # Pong
    /\ pc[d] = "forward" => should_fwd[d]

Kept(d) == \A q \in aired[d] : PairOf(q) \in Range(recent[d])

Unaired(d) ==
    pc[d] # "idle" /\ should_fwd[d] => PacketOf(lora_rx_buf[d]) \notin aired[d]

IInv ==
    /\ TypeOK
    /\ \A d \in Device : IsWindow(router[d], recent[d])
    /\ \A d \in Device : Heard(d) /\ Handling(d) /\ Kept(d) /\ Unaired(d)
    /\ recent \in [Device -> Seq(Pair)]
    /\ DOMAIN aired = Device
    /\ PongAnswersText

-----------------------------------------------------------------------------
(* The ring. *)

LEMMA NextSlot ==
    ASSUME NEW i \in Slots
    PROVE  /\ (i + 1) % SEEN_SIZE \in Slots
           /\ (i + 1) % SEEN_SIZE = IF i + 1 = SEEN_SIZE THEN 0 ELSE i + 1
  BY SeenSizeAssumption DEF Slots

Pushed(s, p) == IF Len(s) = SEEN_SIZE THEN Append(Tail(s), p) ELSE Append(s, p)

LEMMA PushedSequence ==
    ASSUME NEW s \in Seq(Pair), Len(s) <= SEEN_SIZE, NEW p \in Pair
    PROVE  /\ Pushed(s, p) \in Seq(Pair) /\ Len(Pushed(s, p)) \in 1 .. SEEN_SIZE
           /\ Pushed(s, p)[Len(Pushed(s, p))] = p
           /\ \A i \in 1 .. Len(Pushed(s, p)) - 1 :
                 LET j == i + Len(s) + 1 - Len(Pushed(s, p))
                 IN  j \in 1 .. Len(s) /\ Pushed(s, p)[i] = s[j]
           /\ Range(Pushed(s, p)) \subseteq Range(s) \cup {p}
           /\ p \in Range(Pushed(s, p))
  <1>1. Len(s) \in Nat /\ SEEN_SIZE \in Nat \ {0}
    BY SeenSizeAssumption
  <1>2. CASE Len(s) = SEEN_SIZE
    <2>1. Pushed(s, p) = Append(Tail(s), p)
      BY <1>2 DEF Pushed
    <2>2. s # <<>> /\ Tail(s) \in Seq(Pair) /\ Len(Tail(s)) = Len(s) - 1
      BY <1>1, <1>2
    <2>3. \A i \in 1 .. Len(s) - 1 : Tail(s)[i] = s[i + 1]
      BY <1>1, <1>2, <2>2
    <2>4. /\ Len(Pushed(s, p)) = Len(s) /\ Pushed(s, p) \in Seq(Pair)
          /\ Pushed(s, p)[Len(s)] = p
          /\ \A i \in 1 .. Len(s) - 1 : Pushed(s, p)[i] = s[i + 1]
      BY <1>1, <2>1, <2>2, <2>3
    <2>5. Range(Pushed(s, p)) \subseteq Range(s) \cup {p} /\ p \in Range(Pushed(s, p))
      BY <1>1, <1>2, <2>4 DEF Range
    <2>6. QED  BY <1>1, <1>2, <2>4, <2>5
  <1>3. CASE Len(s) # SEEN_SIZE
    <2>1. Pushed(s, p) = Append(s, p)
      BY <1>3 DEF Pushed
    <2>2. /\ Len(Pushed(s, p)) = Len(s) + 1 /\ Pushed(s, p) \in Seq(Pair)
          /\ Pushed(s, p)[Len(s) + 1] = p
          /\ \A i \in 1 .. Len(s) : Pushed(s, p)[i] = s[i]
      BY <1>1, <2>1
    <2>3. Range(Pushed(s, p)) \subseteq Range(s) \cup {p} /\ p \in Range(Pushed(s, p))
      BY <1>1, <2>2 DEF Range
    <2>4. QED  BY <1>1, <1>3, <2>2, <2>3
  <1>4. QED  BY <1>2, <1>3

\* flood_seen keeps the window (flood_router.c:15-19).
LEMMA WindowMoves ==
    ASSUME NEW r, NEW s, IsWindow(r, s), NEW p \in Pair
    PROVE  IsWindow(FloodSeen(r, p), Pushed(s, p))
  <1>1. DEFINE t == Pushed(s, p)
               q == FloodSeen(r, p)
  <1>2. /\ r.head \in Slots /\ r.buf \in [Slots -> Pair \cup {ZeroPair}]
        /\ SEEN_SIZE \in Nat \ {0} /\ Len(s) \in Nat
    BY SeenSizeAssumption DEF IsWindow, Routers
  <1>3. /\ q.head = IF r.head + 1 = SEEN_SIZE THEN 0 ELSE r.head + 1
        /\ q.head \in Slots
        /\ q.buf = [r.buf EXCEPT ![r.head] = p]
    BY <1>2, NextSlot DEF FloodSeen
  <1>4. q \in Routers
    BY <1>2, NextSlot DEF FloodSeen, Routers
  <1>5. /\ t \in Seq(Pair) /\ Len(t) \in 1 .. SEEN_SIZE /\ t[Len(t)] = p
        /\ \A i \in 1 .. Len(t) - 1 :
              LET j == i + Len(s) + 1 - Len(t) IN j \in 1 .. Len(s) /\ t[i] = s[j]
    BY PushedSequence DEF IsWindow
  <1> HIDE DEF t, q
  <1>6. q.buf[SlotAt(q, 0)] = p
    <2>1. SlotAt(q, 0) = r.head
      BY <1>2, <1>3 DEF SlotAt, Slots
    <2>2. QED  BY <1>2, <1>3, <2>1
  <1>7. ASSUME NEW a \in 1 .. SEEN_SIZE - 1
        PROVE  q.buf[SlotAt(q, a)] = r.buf[SlotAt(r, a - 1)]
    <2>1. /\ SlotAt(q, a) = SlotAt(r, a - 1)
          /\ SlotAt(q, a) # r.head /\ SlotAt(q, a) \in Slots
      BY <1>2, <1>3 DEF SlotAt, Slots
    <2>2. QED  BY <1>2, <1>3, <2>1
  <1>8. ASSUME NEW i \in 1 .. Len(t) PROVE q.buf[SlotAt(q, Len(t) - i)] = t[i]
    <2>1. CASE i = Len(t)
      BY <1>5, <1>6, <2>1
    <2>2. CASE i # Len(t)
      <3>1. DEFINE j == i + Len(s) + 1 - Len(t)
      <3>2. i \in 1 .. Len(t) - 1 /\ Len(t) - i \in 1 .. SEEN_SIZE - 1
        BY <1>2, <1>5, <2>2
      <3>3. j \in 1 .. Len(s) /\ t[i] = s[j]
        BY <1>5, <3>2
      <3>4. q.buf[SlotAt(q, Len(t) - i)] = r.buf[SlotAt(r, (Len(t) - i) - 1)]
        BY <1>7, <3>2
      <3>5. (Len(t) - i) - 1 = Len(s) - j
        BY <1>2, <1>5
      <3>6. r.buf[SlotAt(r, Len(s) - j)] = s[j]
        BY <3>3 DEF IsWindow
      <3>7. QED  BY <3>3, <3>4, <3>5, <3>6
    <2>3. QED  BY <2>1, <2>2
  <1>9. QED  BY <1>2, <1>4, <1>5, <1>8 DEF IsWindow, t, q

\* What the ring does not report was not among the last SEEN_SIZE.
LEMMA UnseenIsFresh ==
    ASSUME NEW r, NEW s, IsWindow(r, s), NEW p, ~FloodWasSeen(r, p)
    PROVE  p \notin Range(s)
  <1>1. SUFFICES ASSUME NEW i \in 1 .. Len(s), s[i] = p PROVE FALSE
    BY DEF IsWindow, Range
  <1>2. Len(s) - i \in 0 .. SEEN_SIZE - 1 /\ r.head \in Slots
    BY SeenSizeAssumption DEF IsWindow, Routers
  <1>3. SlotAt(r, Len(s) - i) \in Slots
    <2>1. DEFINE a == Len(s) - i
    <2>2. /\ a \in 0 .. SEEN_SIZE - 1 /\ r.head \in 0 .. SEEN_SIZE - 1
          /\ SEEN_SIZE \in Nat \ {0}
      BY <1>2, SeenSizeAssumption DEF Slots
    <2> HIDE DEF a
    <2>3. SlotAt(r, a) \in Slots
      BY <2>2 DEF SlotAt, Slots
    <2>4. QED  BY <2>3 DEF a
  <1>4. QED  BY <1>1, <1>3 DEF IsWindow, FloodWasSeen

-----------------------------------------------------------------------------
(* Ids and frames. *)

LEMMA Constants ==
    ASSUME MeshAssumption
    PROVE  /\ Id \subseteq Nat /\ BootId \in [Device -> Id] /\ NewIds \subseteq Id
           /\ BROADCAST \notin Id /\ PACKET_IDS \in Nat \ {0} /\ 0 \in Number
           /\ Pong \in Line
  <1>1. /\ BootId \in [Device -> Nat] /\ NewIds \subseteq 1 .. 9
        /\ BROADCAST \notin Id
    BY DEF MeshAssumption, Id
  <1>2. Id \subseteq Nat /\ NewIds \subseteq Id
    <2>1. \A n \in NewIds : n \in Nat
      BY <1>1
    <2>2. \A d \in Device : BootId[d] \in Nat
      BY <1>1
    <2>3. QED  BY <2>1, <2>2 DEF Id
  <1>3. BootId \in [Device -> Id]
    BY <1>1 DEF Id
  <1>4. PACKET_IDS \in Nat \ {0} /\ 0 \in Number
    BY DEF MeshAssumption, Number
  <1>5. QED  BY <1>1, <1>2, <1>3, <1>4 DEF Line

LEMMA FrameParts ==
    ASSUME NEW f \in Frame
    PROVE  /\ f.to \in Id \cup {BROADCAST} /\ f.from \in Id /\ f.id \in Number
           /\ f.flags \in 0 .. 3 /\ f.relay \in 0 .. 255 /\ f.text \in Line
           /\ PacketOf(f) \in Packet /\ PairOf(f) \in Pair
           /\ PairOf(PacketOf(f)) = PairOf(f) /\ PacketOf(f).text = f.text
  BY DEF Frame, Packet, PacketOf, PairOf, Pair, Number, Line

\* A relayed frame is a copy of the packet (flood_router.c:39-48).
LEMMA RelayedFrame ==
    ASSUME NEW f \in Frame, NEW n \in Nat
    PROVE  /\ FloodPrepareForward(f, n) \in Frame
           /\ PacketOf(FloodPrepareForward(f, n)) = PacketOf(f)
  <1>1. DEFINE hop  == MeshHopLimit(f.flags)
               left == IF hop > 0 THEN hop - 1 ELSE hop
               g    == [f EXCEPT !.flags = (f.flags - hop) + left, !.relay = n % 256]
  <1>2. f.flags \in 0 .. 3
    BY FrameParts
  <1>3. hop \in 0 .. f.flags
    BY <1>2 DEF MeshHopLimit
  <1>4. (f.flags - hop) + left \in 0 .. 3 /\ n % 256 \in 0 .. 255
    BY <1>2, <1>3
  <1>5. FloodPrepareForward(f, n) = g
    BY DEF FloodPrepareForward
  <1>6. g.to = f.to /\ g.from = f.from /\ g.id = f.id /\ g.text = f.text
    BY DEF Frame
  <1>7. g \in Frame
    <2> HIDE DEF hop, left
    <2>1. QED  BY <1>4 DEF Frame
  <1>8. PacketOf(g) = PacketOf(f)
    <2> HIDE DEF g
    <2>1. QED  BY <1>6 DEF PacketOf
  <1>9. QED  BY <1>5, <1>7, <1>8

\* A pong is only sent to a node that sent a text; sending a packet that is a
\* text or a broadcast, or an answer to a text, keeps it so.
LEMMA MoreSent ==
    ASSUME PongAnswersText, NEW q, sent' = sent \cup {q},
           \/ q \in sent
           \/ q.text # Pong \/ q.to = BROADCAST
           \/ \E g \in sent : g.text # Pong /\ g.from = q.to
    PROVE  PongAnswersText'
  BY DEF PongAnswersText

-----------------------------------------------------------------------------
(* The operations the actions are made of. *)

LEMMA Transmitted ==
    ASSUME IInv, NEW d \in Device, NEW f \in Frame, Transmit(d, f)
    PROVE  /\ rx' \in [Device -> Frame \cup {NoFrame}]
           /\ sent' = sent \cup {PacketOf(f)} /\ sent' \subseteq Packet
           /\ \A e \in Device : Heard(e)'
  <1>1. PICK hearers \in SUBSET Hear[d] :
            rx' = [e \in Device |-> IF e \in hearers THEN f ELSE rx[e]]
    BY DEF Transmit
  <1>2. sent' = sent \cup {PacketOf(f)} /\ sent' \subseteq Packet
    BY FrameParts DEF Transmit, IInv, TypeOK
  <1>3. rx' \in [Device -> Frame \cup {NoFrame}]
    BY <1>1 DEF IInv, TypeOK
  <1>4. \A e \in Device : Heard(e)'
    BY <1>1, <1>2 DEF IInv, Heard
  <1>5. QED  BY <1>2, <1>3, <1>4

\* Registering p and, with Noted, putting the packets ps on the air.
LEMMA Registered ==
    ASSUME IInv, NEW d \in Device, NEW p \in Pair, NEW ps, Register(d, p), Note(d, p, ps)
    PROVE  /\ router' \in [Device -> Routers] /\ recent' \in [Device -> Seq(Pair)]
           /\ DOMAIN aired' = Device
           /\ \A e \in Device : IsWindow(router[e], recent[e])' /\ Kept(e)'
           /\ aired'[d] \subseteq aired[d] \cup ps
           /\ \A e \in Device \ {d} : aired'[e] = aired[e]
  <1>1. /\ router' = [router EXCEPT ![d] = FloodSeen(router[d], p)]
        /\ recent' = [recent EXCEPT ![d] = Pushed(recent[d], p)]
        /\ aired' = [aired EXCEPT ![d] = StillIn(aired[d] \cup ps, Pushed(recent[d], p))]
    BY DEF Register, Note, Pushed
  <1>2. /\ IsWindow(router[d], recent[d])
        /\ router \in [Device -> Routers] /\ recent \in [Device -> Seq(Pair)]
        /\ DOMAIN aired = Device
    BY DEF IInv, TypeOK, Routers, Pair, Number
  <1>3. IsWindow(FloodSeen(router[d], p), Pushed(recent[d], p))
    BY <1>2, WindowMoves
  <1>4. FloodSeen(router[d], p) \in Routers /\ Pushed(recent[d], p) \in Seq(Pair)
    BY <1>3 DEF IsWindow
  <1>5. router' \in [Device -> Routers] /\ recent' \in [Device -> Seq(Pair)]
    BY <1>1, <1>2, <1>4
  <1>6. DOMAIN aired' = Device
        /\ aired'[d] = StillIn(aired[d] \cup ps, Pushed(recent[d], p))
        /\ \A e \in Device \ {d} : aired'[e] = aired[e]
    BY <1>1, <1>2
  <1>7. recent'[d] = Pushed(recent[d], p) /\ router'[d] = FloodSeen(router[d], p)
        /\ \A e \in Device \ {d} : recent'[e] = recent[e] /\ router'[e] = router[e]
    BY <1>1, <1>2
  <1>8. ASSUME NEW e \in Device PROVE IsWindow(router[e], recent[e])'
    <2>1. IsWindow(router[e], recent[e])' <=> IsWindow(router'[e], recent'[e])
      BY DEF IsWindow, SlotAt
    <2>2. CASE e = d  BY <1>3, <1>7, <2>1, <2>2
    <2>3. CASE e # d
      <3>1. IsWindow(router[e], recent[e])
        BY DEF IInv
      <3>2. QED  BY <1>7, <2>1, <2>3, <3>1
    <2>4. QED  BY <2>2, <2>3
  <1>9. ASSUME NEW e \in Device PROVE Kept(e)'
    <2>1. CASE e = d  BY <1>6, <1>7, <2>1 DEF Kept, StillIn
    <2>2. CASE e # d  BY <1>6, <1>7, <2>2 DEF Kept, IInv
    <2>3. QED  BY <2>1, <2>2
  <1>10. aired'[d] \subseteq aired[d] \cup ps
    BY <1>6 DEF StillIn
  <1>11. QED  BY <1>5, <1>6, <1>8, <1>9, <1>10

\* What send_lora_packet leaves when it has sent f.
SentBy(d, f) ==
    /\ next_packet_id' \in [Device -> Number]
    /\ router' \in [Device -> Routers] /\ recent' \in [Device -> Seq(Pair)]
    /\ rx' \in [Device -> Frame \cup {NoFrame}]
    /\ sent' = sent \cup {PacketOf(f)} /\ sent' \subseteq Packet
    /\ DOMAIN aired' = Device
    /\ \A e \in Device : IsWindow(router[e], recent[e])' /\ Kept(e)' /\ Heard(e)'
    /\ aired'[d] \subseteq aired[d] \cup {PacketOf(f)}
    /\ \A e \in Device \ {d} : aired'[e] = aired[e]

LEMMA PacketSent ==
    ASSUME MeshAssumption, IInv, NEW d \in Device, NEW to \in Id \cup {BROADCAST},
           NEW text \in Line, SendLoraPacket(d, to, text)
    PROVE  \E f \in Frame : f.to = to /\ f.text = text /\ SentBy(d, f)
  <1>1. DEFINE p == <<node_id[d], next_packet_id[d]>>
               f == [to |-> to, from |-> node_id[d], id |-> next_packet_id[d],
                     flags |-> 3, relay |-> 0, text |-> text]
  <1>2. node_id[d] \in Id /\ next_packet_id[d] \in Number
        /\ next_packet_id \in [Device -> Number]
    BY DEF IInv, TypeOK, Number
  <1>3. p \in Pair
    BY <1>2 DEF Pair
  <1>4. f \in Frame /\ f.to = to /\ f.text = text
    BY <1>2 DEF Frame, Number, Line
  <1>5. /\ next_packet_id' = [next_packet_id EXCEPT ![d] = PacketIdAfter(d)]
        /\ Register(d, p) /\ Note(d, p, {PacketOf(f)}) /\ Transmit(d, f)
    BY DEF SendLoraPacket
  <1> HIDE DEF p, f
  <1>6. PacketIdAfter(d) \in Number
    BY <1>2 DEF PacketIdAfter, Number, MeshAssumption
  <1>7. next_packet_id' \in [Device -> Number]
    BY <1>2, <1>5, <1>6
  <1>8. /\ rx' \in [Device -> Frame \cup {NoFrame}]
        /\ sent' = sent \cup {PacketOf(f)} /\ sent' \subseteq Packet
        /\ \A e \in Device : Heard(e)'
    BY <1>4, <1>5, Transmitted
  <1>9. /\ router' \in [Device -> Routers] /\ recent' \in [Device -> Seq(Pair)]
        /\ DOMAIN aired' = Device
        /\ \A e \in Device : IsWindow(router[e], recent[e])' /\ Kept(e)'
        /\ aired'[d] \subseteq aired[d] \cup {PacketOf(f)}
        /\ \A e \in Device \ {d} : aired'[e] = aired[e]
    BY <1>3, <1>5, Registered
  <1>10. SentBy(d, f)
    BY <1>7, <1>8, <1>9 DEF SentBy
  <1>11. QED  BY <1>4, <1>10

-----------------------------------------------------------------------------
(* The actions. *)

LEMMA InitEstablishes ==
    ASSUME MeshAssumption, Init
    PROVE  IInv
  <1>1. /\ EmptyRouter \in Routers /\ 0 \in Number /\ BootId \in [Device -> Id]
        /\ MAX_LINES \in Nat /\ MAX_SETS \in Nat /\ MAX_BOOTS \in Nat
    BY Constants, SeenSizeAssumption DEF EmptyRouter, Routers, Slots, MeshAssumption
  <1>2. TypeOK
    BY <1>1 DEF Init, TypeOK, Routers, Pair, Number
  <1>3. ASSUME NEW d \in Device PROVE IsWindow(router[d], recent[d])
    <2>1. router[d] = EmptyRouter /\ recent[d] = <<>>
      BY <1>3 DEF Init
    <2>2. QED  BY <1>1, <2>1, SeenSizeAssumption DEF IsWindow
  <1>4. ASSUME NEW d \in Device PROVE Heard(d) /\ Handling(d) /\ Kept(d) /\ Unaired(d)
    BY <1>4 DEF Init, Heard, Handling, Kept, Unaired
  <1>5. recent \in [Device -> Seq(Pair)] /\ DOMAIN aired = Device /\ PongAnswersText
    BY DEF Init, PongAnswersText
  <1>6. QED  BY <1>2, <1>3, <1>4, <1>5 DEF IInv

\* What is left alone stays as it should be.
LEMMA NothingMoves ==
    ASSUME IInv, UNCHANGED <<device, rx, sent, recent, aired>>,
           lines' \in 0 .. MAX_LINES, UNCHANGED <<sets, boots>>
    PROVE  IInv'
  <1>1. TypeOK'
    BY DEF IInv, device, TypeOK
  <1>2. ASSUME NEW d \in Device PROVE IsWindow(router[d], recent[d])'
    BY DEF IInv, device, IsWindow, SlotAt
  <1>3. ASSUME NEW d \in Device PROVE Heard(d)' /\ Handling(d)'
    BY DEF IInv, device, Heard, Handling
  <1>4. ASSUME NEW d \in Device PROVE Kept(d)' /\ Unaired(d)'
    BY DEF IInv, device, Kept, Unaired
  <1>5. QED  BY <1>1, <1>2, <1>3, <1>4 DEF IInv, PongAnswersText

LEMMA LineTyped ==
    ASSUME MeshAssumption, IInv, NEW d \in Device, NEW t \in Text, UserLine(d, t)
    PROVE  IInv'
  <1>1. /\ pc[d] = "idle" /\ UNCHANGED <<sets, boots>> /\ lines' \in 0 .. MAX_LINES
        /\ \/ /\ t \notin LongText /\ SendLoraPacket(d, BROADCAST, t)
              /\ UNCHANGED <<node_id, lora_rx_buf, should_fwd, pc>>
           \/ UNCHANGED <<device, rx, sent, recent, aired>>
    BY DEF UserLine, IInv, TypeOK, MeshAssumption
  <1>2. CASE UNCHANGED <<device, rx, sent, recent, aired>>
    BY <1>1, <1>2, NothingMoves
  <1>3. CASE /\ t \notin LongText /\ SendLoraPacket(d, BROADCAST, t)
             /\ UNCHANGED <<node_id, lora_rx_buf, should_fwd, pc>>
    <2>1. t \in Line
      BY <1>3 DEF Line
    <2>2. PICK f \in Frame : f.to = BROADCAST /\ f.text = t /\ SentBy(d, f)
      BY <1>3, <2>1, PacketSent
    <2>3. TypeOK'
      BY <1>1, <1>3, <2>2 DEF SentBy, IInv, TypeOK, Routers, Pair, Number
    <2>4. ASSUME NEW e \in Device PROVE Handling(e)' /\ Unaired(e)'
      <3>1. Handling(e) /\ Unaired(e)
        BY DEF IInv
      <3>2. CASE e = d  BY <1>1, <1>3, <3>2 DEF Handling, Unaired
      <3>3. CASE e # d  BY <1>3, <2>2, <3>1, <3>3 DEF SentBy, Handling, Unaired
      <3>4. QED  BY <3>2, <3>3
    <2>5. PongAnswersText'
      <3>1. PacketOf(f).to = BROADCAST
        BY <2>2 DEF PacketOf
      <3>2. QED  BY <2>2, <3>1, MoreSent DEF IInv, SentBy
    <2>6. QED  BY <2>2, <2>3, <2>4, <2>5 DEF IInv, SentBy
  <1>4. QED  BY <1>1, <1>2, <1>3

LEMMA IdSet ==
    ASSUME MeshAssumption, IInv, NEW d \in Device, NEW n \in NewIds, SetNodeId(d, n)
    PROVE  IInv'
  <1>1. /\ n \in Id /\ sets' \in 0 .. MAX_SETS
        /\ node_id' = [node_id EXCEPT ![d] = n]
        /\ UNCHANGED <<next_packet_id, router, lora_rx_buf, should_fwd, pc, rx,
                       lines, boots, sent, recent, aired>>
    BY Constants DEF SetNodeId, IInv, TypeOK, MeshAssumption
  <1>2. TypeOK'
    BY <1>1 DEF IInv, TypeOK
  <1>3. ASSUME NEW e \in Device PROVE IsWindow(router[e], recent[e])'
    BY <1>1 DEF IInv, IsWindow, SlotAt
  <1>4. ASSUME NEW e \in Device PROVE Heard(e)' /\ Handling(e)'
    BY <1>1 DEF IInv, Heard, Handling
  <1>5. ASSUME NEW e \in Device PROVE Kept(e)' /\ Unaired(e)'
    BY <1>1 DEF IInv, Kept, Unaired
  <1>6. QED  BY <1>1, <1>2, <1>3, <1>4, <1>5 DEF IInv, PongAnswersText

LEMMA RadioPolled ==
    ASSUME MeshAssumption, IInv, NEW d \in Device, PollRadio(d)
    PROVE  IInv'
  <1>1. DEFINE h == rx[d]
               fwd == FloodShouldForward(router[d], h, MESH_HEADER_SIZE + 1)
               answer == Answers(d, h)
  <1>2. /\ rx[d] # NoFrame
        /\ Register(d, PairOf(h)) /\ Note(d, PairOf(h), {})
        /\ lora_rx_buf' = [lora_rx_buf EXCEPT ![d] = IF answer \/ fwd THEN h ELSE NoFrame]
        /\ should_fwd' = [should_fwd EXCEPT ![d] = fwd]
        /\ pc' = [pc EXCEPT ![d] = IF answer THEN "reply"
                                   ELSE IF fwd THEN "forward" ELSE "idle"]
        /\ rx' = [rx EXCEPT ![d] = NoFrame]
        /\ UNCHANGED <<node_id, next_packet_id, counts, sent>>
    BY DEF PollRadio, Polled
  <1>3. /\ h \in Frame /\ PacketOf(h) \in sent /\ PairOf(h) \in Pair
        /\ PairOf(PacketOf(h)) = PairOf(h)
    BY <1>2, FrameParts DEF IInv, TypeOK, Heard
  <1>4. /\ fwd \in BOOLEAN /\ answer \in BOOLEAN
        /\ fwd => ~FloodWasSeen(router[d], PairOf(h))
        /\ answer => h.text # Pong
    BY DEF FloodShouldForward, Answers
  <1> HIDE DEF h, fwd, answer
  <1>5. /\ router' \in [Device -> Routers] /\ recent' \in [Device -> Seq(Pair)]
        /\ DOMAIN aired' = Device
        /\ \A e \in Device : IsWindow(router[e], recent[e])' /\ Kept(e)'
        /\ aired'[d] \subseteq aired[d]
        /\ \A e \in Device \ {d} : aired'[e] = aired[e]
    <2>1. aired'[d] \subseteq aired[d] \cup {}
      BY <1>2, <1>3, Registered
    <2>2. QED  BY <1>2, <1>3, <2>1, Registered
  <1>6. /\ lora_rx_buf' \in [Device -> Frame \cup {NoFrame}]
        /\ should_fwd' \in [Device -> BOOLEAN]
        /\ pc' \in [Device -> {"idle", "reply", "forward"}]
        /\ rx' \in [Device -> Frame \cup {NoFrame}]
    BY <1>2, <1>3, <1>4 DEF IInv, TypeOK
  <1>7. TypeOK'
    BY <1>2, <1>5, <1>6 DEF IInv, TypeOK, counts, Routers, Pair, Number
  <1>8. fwd => PacketOf(h) \notin aired[d]
    <2>1. Kept(d) /\ IsWindow(router[d], recent[d])
      BY DEF IInv
    <2>2. fwd => PairOf(h) \notin Range(recent[d])
      BY <1>4, <2>1, UnseenIsFresh
    <2>3. QED  BY <1>3, <2>1, <2>2 DEF Kept
  <1>9. ASSUME NEW e \in Device PROVE Heard(e)' /\ Handling(e)' /\ Unaired(e)'
    <2>1. Heard(e) /\ Handling(e) /\ Unaired(e)
      BY DEF IInv
    <2>2. CASE e # d
      <3>1. /\ rx'[e] = rx[e] /\ pc'[e] = pc[e] /\ lora_rx_buf'[e] = lora_rx_buf[e]
            /\ should_fwd'[e] = should_fwd[e] /\ aired'[e] = aired[e] /\ sent' = sent
        BY <1>2, <1>5, <2>2 DEF IInv, TypeOK
      <3>2. QED  BY <2>1, <3>1 DEF Heard, Handling, Unaired
    <2>3. CASE e = d
      <3>1. /\ rx'[e] = NoFrame /\ should_fwd'[e] = fwd /\ sent' = sent
            /\ lora_rx_buf'[e] = IF answer \/ fwd THEN h ELSE NoFrame
            /\ pc'[e] = IF answer THEN "reply" ELSE IF fwd THEN "forward" ELSE "idle"
        BY <1>2, <2>3 DEF IInv, TypeOK
      <3>2. Heard(e)'
        BY <3>1 DEF Heard
      <3>3. Handling(e)'
        BY <1>3, <1>4, <3>1 DEF Handling
      <3>4. Unaired(e)'
        BY <1>5, <1>8, <2>3, <3>1 DEF Unaired
      <3>5. QED  BY <3>2, <3>3, <3>4
    <2>4. QED  BY <2>2, <2>3
  <1>10. PongAnswersText'
    BY <1>2 DEF IInv, PongAnswersText
  <1>11. QED  BY <1>5, <1>7, <1>9, <1>10 DEF IInv

\* The pong is another packet than the one it answers.
LEMMA Replied ==
    ASSUME MeshAssumption, IInv, NEW d \in Device, Reply(d)
    PROVE  IInv'
  <1>1. DEFINE h == lora_rx_buf[d]
  <1>2. /\ pc[d] = "reply"
        /\ SendLoraPacket(d, h.from, Pong)
        /\ pc' = [pc EXCEPT ![d] = IF should_fwd[d] THEN "forward" ELSE "idle"]
        /\ lora_rx_buf' = [lora_rx_buf EXCEPT ![d] = IF should_fwd[d] THEN h ELSE NoFrame]
        /\ UNCHANGED <<node_id, should_fwd, counts>>
    BY DEF Reply
  <1>3. /\ h \in Frame /\ PacketOf(h) \in sent /\ h.text # Pong
        /\ h.from \in Id /\ PacketOf(h).text = h.text /\ PacketOf(h).from = h.from
    BY <1>2, FrameParts DEF IInv, Handling, PacketOf
  <1> HIDE DEF h
  <1>4. PICK f \in Frame : f.to = h.from /\ f.text = Pong /\ SentBy(d, f)
    BY <1>2, <1>3, Constants, PacketSent
  <1>5. PacketOf(f).text = Pong /\ PacketOf(f).to = h.from
    BY <1>4 DEF PacketOf
  <1>6. /\ lora_rx_buf' \in [Device -> Frame \cup {NoFrame}]
        /\ pc' \in [Device -> {"idle", "reply", "forward"}]
    BY <1>2, <1>3 DEF IInv, TypeOK
  <1>7. TypeOK'
    BY <1>2, <1>4, <1>6 DEF SentBy, IInv, TypeOK, counts, Routers, Pair, Number
  <1>8. ASSUME NEW e \in Device PROVE Handling(e)' /\ Unaired(e)'
    <2>1. Handling(e) /\ Unaired(e)
      BY DEF IInv
    <2>2. CASE e # d
      <3>1. /\ pc'[e] = pc[e] /\ lora_rx_buf'[e] = lora_rx_buf[e]
            /\ should_fwd'[e] = should_fwd[e] /\ aired'[e] = aired[e]
        BY <1>2, <1>4, <2>2 DEF SentBy, IInv, TypeOK
      <3>2. QED  BY <1>4, <2>1, <3>1 DEF SentBy, Handling, Unaired
    <2>3. CASE e = d
      <3>1. /\ should_fwd'[d] = should_fwd[d]
            /\ lora_rx_buf'[d] = IF should_fwd[d] THEN h ELSE NoFrame
            /\ pc'[d] = IF should_fwd[d] THEN "forward" ELSE "idle"
        BY <1>2 DEF IInv, TypeOK
      <3>2. Handling(d)'
        BY <1>3, <1>4, <3>1 DEF SentBy, Handling
      <3>3. should_fwd[d] => PacketOf(h) \notin aired[d]
        BY <1>2 DEF IInv, Unaired, h
      <3>4. Unaired(d)'
        BY <1>3, <1>4, <1>5, <3>1, <3>3 DEF SentBy, Unaired
      <3>5. QED  BY <2>3, <3>2, <3>4
    <2>4. QED  BY <2>2, <2>3
  <1>9. PongAnswersText'
    BY <1>3, <1>4, <1>5, MoreSent DEF IInv, SentBy
  <1>10. QED  BY <1>4, <1>7, <1>8, <1>9 DEF IInv, SentBy

LEMMA Forwarded ==
    ASSUME MeshAssumption, IInv, NEW d \in Device, Forward(d)
    PROVE  IInv'
  <1>1. DEFINE h == lora_rx_buf[d]
               f == FloodPrepareForward(h, node_id[d])
  <1>2. /\ pc[d] = "forward" /\ Transmit(d, f)
        /\ aired' = [aired EXCEPT ![d] = StillIn(aired[d] \cup {PacketOf(f)}, recent[d])]
        /\ lora_rx_buf' = [lora_rx_buf EXCEPT ![d] = NoFrame]
        /\ should_fwd' = [should_fwd EXCEPT ![d] = FALSE]
        /\ pc' = [pc EXCEPT ![d] = "idle"]
        /\ UNCHANGED <<node_id, next_packet_id, router, counts, recent>>
    BY DEF Forward
  <1>3. h \in Frame /\ PacketOf(h) \in sent /\ node_id[d] \in Nat
    BY <1>2, Constants DEF IInv, Handling, TypeOK
  <1>4. f \in Frame /\ PacketOf(f) = PacketOf(h)
    BY <1>3, RelayedFrame
  <1> HIDE DEF h, f
  <1>5. /\ rx' \in [Device -> Frame \cup {NoFrame}]
        /\ sent' = sent \cup {PacketOf(h)} /\ sent' \subseteq Packet
        /\ \A e \in Device : Heard(e)'
    BY <1>2, <1>4, Transmitted
  <1>6. TypeOK'
    BY <1>2, <1>5 DEF IInv, TypeOK, counts
  <1>7. ASSUME NEW e \in Device
        PROVE  /\ IsWindow(router[e], recent[e])'
               /\ Handling(e)' /\ Kept(e)' /\ Unaired(e)'
    <2>1. IsWindow(router[e], recent[e]) /\ Handling(e) /\ Kept(e) /\ Unaired(e)
      BY DEF IInv
    <2>2. IsWindow(router[e], recent[e])'
      BY <1>2, <2>1 DEF IsWindow, SlotAt
    <2>3. CASE e # d
      <3>1. /\ pc'[e] = pc[e] /\ lora_rx_buf'[e] = lora_rx_buf[e]
            /\ should_fwd'[e] = should_fwd[e] /\ aired'[e] = aired[e]
        BY <1>2, <2>3 DEF IInv, TypeOK
      <3>2. Handling(e)' /\ Unaired(e)'
        BY <1>5, <2>1, <3>1 DEF Handling, Unaired
      <3>3. Kept(e)'
        BY <1>2, <2>1, <3>1 DEF Kept
      <3>4. QED  BY <2>2, <3>2, <3>3
    <2>4. CASE e = d
      <3>1. /\ pc'[d] = "idle"
            /\ aired'[d] = StillIn(aired[d] \cup {PacketOf(f)}, recent[d])
        BY <1>2 DEF IInv, TypeOK
      <3>2. QED  BY <1>2, <2>2, <2>4, <3>1 DEF Handling, Kept, Unaired, StillIn
    <2>5. QED  BY <2>3, <2>4
  <1>8. PongAnswersText'
    BY <1>3, <1>5, MoreSent DEF IInv
  <1>9. DOMAIN aired' = Device /\ recent' = recent
    BY <1>2 DEF IInv
  <1>10. QED  BY <1>5, <1>6, <1>7, <1>8, <1>9 DEF IInv

LEMMA Rebooted ==
    ASSUME MeshAssumption, IInv, NEW d \in Device, Reboot(d)
    PROVE  IInv'
  <1>1. /\ EmptyRouter \in Routers /\ 0 \in Number /\ BootId[d] \in Id
        /\ boots' \in 0 .. MAX_BOOTS
    BY Constants, SeenSizeAssumption
       DEF Reboot, IInv, TypeOK, EmptyRouter, Routers, Slots, MeshAssumption
  <1>2. /\ node_id' = [node_id EXCEPT ![d] = BootId[d]]
        /\ next_packet_id' = [next_packet_id EXCEPT ![d] = 0]
        /\ router' = [router EXCEPT ![d] = EmptyRouter]
        /\ rx' = [rx EXCEPT ![d] = NoFrame]
        /\ lora_rx_buf' = [lora_rx_buf EXCEPT ![d] = NoFrame]
        /\ should_fwd' = [should_fwd EXCEPT ![d] = FALSE]
        /\ pc' = [pc EXCEPT ![d] = "idle"]
        /\ recent' = [recent EXCEPT ![d] = <<>>]
        /\ aired' = [aired EXCEPT ![d] = {}]
        /\ UNCHANGED <<lines, sets, sent>>
    BY DEF Reboot
  <1>3. /\ node_id' \in [Device -> Id] /\ next_packet_id' \in [Device -> Number]
        /\ router' \in [Device -> Routers]
    BY <1>1, <1>2 DEF IInv, TypeOK, Routers, Pair, Number
  <1>4. TypeOK'
    BY <1>1, <1>2, <1>3 DEF IInv, TypeOK, Routers, Pair, Number
  <1>5. ASSUME NEW e \in Device
        PROVE  /\ IsWindow(router[e], recent[e])' /\ Heard(e)'
               /\ Handling(e)' /\ Kept(e)' /\ Unaired(e)'
    <2>1. /\ IsWindow(router[e], recent[e]) /\ Heard(e)
          /\ Handling(e) /\ Kept(e) /\ Unaired(e)
      BY DEF IInv
    <2>2. CASE e # d
      <3>1. /\ pc'[e] = pc[e] /\ lora_rx_buf'[e] = lora_rx_buf[e]
            /\ should_fwd'[e] = should_fwd[e] /\ aired'[e] = aired[e]
            /\ router'[e] = router[e] /\ recent'[e] = recent[e]
            /\ rx'[e] = rx[e] /\ sent' = sent
        BY <1>2, <2>2 DEF IInv, TypeOK
      <3>2. IsWindow(router[e], recent[e])'
        BY <2>1, <3>1 DEF IsWindow, SlotAt
      <3>3. Heard(e)' /\ Kept(e)'
        BY <2>1, <3>1 DEF Heard, Kept
      <3>4. Handling(e)' /\ Unaired(e)'
        BY <2>1, <3>1 DEF Handling, Unaired
      <3>5. QED  BY <3>2, <3>3, <3>4
    <2>3. CASE e = d
      <3>1. /\ pc'[d] = "idle" /\ aired'[d] = {} /\ rx'[d] = NoFrame
            /\ router'[d] = EmptyRouter /\ recent'[d] = <<>>
        BY <1>2 DEF IInv, TypeOK
      <3>2. IsWindow(router[d], recent[d])'
        BY <1>1, <3>1, SeenSizeAssumption DEF IsWindow
      <3>3. QED  BY <2>3, <3>1, <3>2 DEF Heard, Handling, Kept, Unaired
    <2>4. QED  BY <2>2, <2>3
  <1>6. recent' \in [Device -> Seq(Pair)] /\ DOMAIN aired' = Device
    BY <1>2 DEF IInv
  <1>7. PongAnswersText'
    BY <1>2 DEF IInv, PongAnswersText
  <1>8. QED  BY <1>4, <1>5, <1>6, <1>7 DEF IInv

LEMMA Inductive == Spec => []IInv
  <1>1. Init => IInv
    BY MeshAssumption, InitEstablishes
  <1>2. IInv /\ [Next]_vars => IInv'
    <2> SUFFICES ASSUME IInv, [Next]_vars PROVE IInv'
      OBVIOUS
    <2>1. ASSUME NEW d \in Device, Loop(d) PROVE IInv'
      BY <2>1, MeshAssumption, RadioPolled, Replied, Forwarded DEF Loop
    <2>2. ASSUME NEW d \in Device, NEW t \in Text, UserLine(d, t) PROVE IInv'
      BY <2>2, MeshAssumption, LineTyped
    <2>3. ASSUME NEW d \in Device, NEW n \in NewIds, SetNodeId(d, n) PROVE IInv'
      BY <2>3, MeshAssumption, IdSet
    <2>4. ASSUME NEW d \in Device, Reboot(d) PROVE IInv'
      BY <2>4, MeshAssumption, Rebooted
    <2>5. CASE UNCHANGED vars
      <3>1. lines' \in 0 .. MAX_LINES /\ UNCHANGED <<device, rx, sent, recent, aired>>
            /\ UNCHANGED <<sets, boots>>
        BY <2>5 DEF vars, counts, IInv, TypeOK
      <3>2. QED  BY <3>1, NothingMoves
    <2>6. QED  BY <2>1, <2>2, <2>3, <2>4, <2>5 DEF Next
  <1>3. QED  BY <1>1, <1>2, PTL DEF Spec

-----------------------------------------------------------------------------
(* The theorems. *)

\* Whatever is lost, relayed and rebooted, every radio and every loop holds a
\* frame of the devices, and every ring pairs of them.
THEOREM MeshTypeCorrect == Spec => []TypeOK
  <1>1. IInv => TypeOK
    BY DEF IInv
  <1>2. QED  BY Inductive, <1>1, PTL

\* A pong is sent to a node only if that node sent a text: pongs are not
\* answered, in any network (main_loop.c:217-221).
THEOREM PongsAnswerTexts == Spec => []PongAnswersText
  <1>1. IInv => PongAnswersText
    BY DEF IInv
  <1>2. QED  BY Inductive, <1>1, PTL

\* No device relays a packet that it has put on the air itself while the packet
\* is among the last SEEN_SIZE it registered: the pong the loop sends between
\* the decision to relay and the relaying does not break this
\* (main_loop.c:192-228, flood_router.c:15-37).
THEOREM NeverEchoes == Spec => NoEcho
  <1>1. ASSUME IInv, NEW d \in Device, Forward(d)
        PROVE  PacketOf(lora_rx_buf[d]) \notin aired[d]
    <2>1. Handling(d) /\ Unaired(d) /\ pc[d] = "forward"
      BY <1>1 DEF IInv, Forward
    <2>2. QED  BY <2>1 DEF Handling, Unaired
  <1>2. IInv => [\A d \in Device :
                    Forward(d) => PacketOf(lora_rx_buf[d]) \notin aired[d]]_vars
    BY <1>1
  <1>3. QED  BY <1>2, Inductive, PTL DEF NoEcho

-----------------------------------------------------------------------------
(* One pair of ids, one packet.  This is not so of devices that share an   *)
(* id, after a reboot, and once a counter wraps.                           *)

DistinctIds == \A d, e \in Device : BootId[d] = BootId[e] => d = e

\* No device has used its last packet id.
NoneSpent == \A d \in Device : next_packet_id[d] < PACKET_IDS - 1

\* What is on the air is from a device that has counted past it.
Ahead ==
    /\ node_id = BootId
    /\ \A f \in sent : \E d \in Device : f.from = BootId[d] /\ f.id < next_packet_id[d]
    /\ \A f, g \in sent : f.from = g.from /\ f.id = g.id => f = g

Original == sets = 0 /\ boots = 0

\* A new packet has an id of its own.
LEMMA NumberedAnew ==
    ASSUME MeshAssumption, DistinctIds, IInv, NoneSpent, Ahead,
           NEW d \in Device, NEW to, NEW text, SendLoraPacket(d, to, text), UNCHANGED node_id
    PROVE  Ahead'
  <1> DEFINE f == [to |-> to, from |-> node_id[d], id |-> next_packet_id[d],
                   flags |-> 3, relay |-> 0, text |-> text]
  <1>1. /\ next_packet_id \in [Device -> Number] /\ PACKET_IDS \in Nat \ {0}
        /\ BootId \in [Device -> Nat] /\ node_id = BootId
    BY DEF IInv, TypeOK, Number, MeshAssumption, Ahead
  <1>2. /\ next_packet_id' = [next_packet_id EXCEPT ![d] = PacketIdAfter(d)]
        /\ sent' = sent \cup {PacketOf(f)}
    BY DEF SendLoraPacket, Transmit
  <1>3. PacketIdAfter(d) = next_packet_id[d] + 1
    <2>1. next_packet_id[d] \in Nat /\ next_packet_id[d] + 1 < PACKET_IDS
      BY <1>1 DEF NoneSpent, Number
    <2>2. QED  BY <1>1, <2>1 DEF PacketIdAfter
  <1>4. PacketOf(f).from = BootId[d] /\ PacketOf(f).id = next_packet_id[d]
    BY <1>1 DEF PacketOf
  <1> HIDE DEF f
  <1>5. \A e \in Device : /\ next_packet_id[e] \in Nat /\ next_packet_id'[e] \in Nat
                          /\ next_packet_id'[e] >= next_packet_id[e]
                          /\ next_packet_id'[d] = next_packet_id[d] + 1
    BY <1>1, <1>2, <1>3 DEF Number
  <1>6. ASSUME NEW g \in sent
        PROVE  /\ \E e \in Device : g.from = BootId[e] /\ g.id < next_packet_id'[e]
               /\ ~(g.from = PacketOf(f).from /\ g.id = PacketOf(f).id)
    <2>1. PICK e \in Device : g.from = BootId[e] /\ g.id < next_packet_id[e]
      BY DEF Ahead
    <2>2. g.id \in Nat
      BY DEF IInv, TypeOK, Packet
    <2>3. g.id < next_packet_id'[e]
      BY <1>5, <2>1, <2>2
    <2>4. ASSUME g.from = PacketOf(f).from, g.id = PacketOf(f).id PROVE FALSE
      <3>1. e = d
        BY <1>4, <2>1, <2>4 DEF DistinctIds
      <3>2. QED  BY <1>4, <1>5, <2>1, <2>4, <3>1
    <2>5. QED  BY <2>1, <2>3, <2>4
  <1>7. \A g, h \in sent' : g.from = h.from /\ g.id = h.id => g = h
    BY <1>2, <1>6 DEF Ahead
  <1>8. ASSUME NEW g \in sent'
        PROVE  \E e \in Device : g.from = BootId[e] /\ g.id < next_packet_id'[e]
    <2>1. CASE g = PacketOf(f)
      <3>1. g.from = BootId[d] /\ g.id < next_packet_id'[d]
        BY <1>4, <1>5, <2>1
      <3>2. QED  BY <3>1
    <2>2. CASE g \in sent  BY <1>6, <2>2
    <2>3. QED  BY <1>2, <2>1, <2>2
  <1>9. QED  BY <1>1, <1>7, <1>8 DEF Ahead

\* Copies are of packets that are on the air already.
LEMMA NothingNew ==
    ASSUME Ahead, sent' \subseteq sent, UNCHANGED <<node_id, next_packet_id>>
    PROVE  Ahead'
  BY DEF Ahead

\* Among devices that have different ids, a pair of sender and packet id names
\* one packet, however it is relayed, until an id is set, a device reboots, or
\* a counter of 2^32 packets is used up (main_loop.c:118, 192-231).
THEOREM PairNamesPacket ==
    ASSUME DistinctIds
    PROVE  Spec /\ []NoneSpent => []PacketIdentity
  <1>1. Init => (Original => Ahead)
    BY DEF Init, Ahead
  <1>2. IInv /\ NoneSpent /\ (Original => Ahead) /\ [Next]_vars => (Original => Ahead)'
    <2> SUFFICES ASSUME IInv, NoneSpent, Original => Ahead, [Next]_vars, Original' PROVE Ahead'
      OBVIOUS
    <2>t. sets \in Nat /\ boots \in Nat /\ sets' = 0 /\ boots' = 0
      BY MeshAssumption DEF MeshAssumption, IInv, TypeOK, Original
    <2>o. CASE Ahead
      <3>1. ASSUME NEW d \in Device, PollRadio(d) PROVE Ahead'
        BY <3>1, <2>o, NothingNew DEF PollRadio
      <3>2. ASSUME NEW d \in Device, Reply(d) PROVE Ahead'
        BY <3>2, MeshAssumption, <2>o, NumberedAnew DEF Reply
      <3>3. ASSUME NEW d \in Device, Forward(d) PROVE Ahead'
        <4>1. /\ lora_rx_buf[d] \in Frame /\ PacketOf(lora_rx_buf[d]) \in sent
              /\ node_id[d] \in Nat
          BY <3>3, MeshAssumption, Constants DEF Forward, IInv, Handling, TypeOK
        <4>2. sent' = sent \cup {PacketOf(lora_rx_buf[d])}
          BY <3>3, <4>1, RelayedFrame DEF Forward, Transmit
        <4>3. QED  BY <3>3, <4>1, <4>2, <2>o, NothingNew DEF Forward
      <3>4. ASSUME NEW d \in Device, NEW t \in Text, UserLine(d, t) PROVE Ahead'
        <4>1. CASE SendLoraPacket(d, BROADCAST, t) /\ UNCHANGED node_id
          BY <4>1, MeshAssumption, <2>o, NumberedAnew
        <4>2. CASE UNCHANGED <<device, rx, sent, recent, aired>>
          BY <4>2, <2>o, NothingNew DEF device
        <4>3. QED  BY <3>4, <4>1, <4>2 DEF UserLine
      <3>5. ASSUME NEW d \in Device, NEW n \in NewIds, SetNodeId(d, n) PROVE Ahead'
        BY <2>t, <3>5 DEF SetNodeId
      <3>6. ASSUME NEW d \in Device, Reboot(d) PROVE Ahead'
        BY <2>t, <3>6 DEF Reboot
      <3>7. CASE UNCHANGED vars
        BY <3>7, <2>o, NothingNew DEF vars, device
      <3>8. QED
        BY <3>1, <3>2, <3>3, <3>4, <3>5, <3>6, <3>7 DEF Next, Loop
    <2>e. ASSUME ~Ahead PROVE FALSE
      <3>1. sets # 0 \/ boots # 0
        BY <2>e DEF Original
      <3>2. sets' >= sets /\ boots' >= boots
        <4>1. ASSUME NEW d \in Device, Loop(d) PROVE UNCHANGED <<sets, boots>>
          BY <4>1 DEF Loop, PollRadio, Reply, Forward, counts
        <4>2. ASSUME NEW d \in Device, NEW t \in Text, UserLine(d, t)
              PROVE  UNCHANGED <<sets, boots>>
          BY <4>2 DEF UserLine
        <4>3. ASSUME NEW d \in Device, NEW n \in NewIds, SetNodeId(d, n)
              PROVE  sets' = sets + 1 /\ boots' = boots
          BY <4>3 DEF SetNodeId
        <4>4. ASSUME NEW d \in Device, Reboot(d)
              PROVE  sets' = sets /\ boots' = boots + 1
          BY <4>4 DEF Reboot
        <4>5. CASE UNCHANGED vars
          BY <2>t, <4>5 DEF vars, counts
        <4>6. QED  BY <2>t, <4>1, <4>2, <4>3, <4>4, <4>5 DEF Next
      <3>3. QED  BY <2>t, <3>1, <3>2
    <2>q. QED  BY <2>o, <2>e
  <1>3. (Original => Ahead) => PacketIdentity
    BY DEF Ahead, Original, PacketIdentity
  <1>4. QED  BY Inductive, <1>1, <1>2, <1>3, PTL DEF Spec
=============================================================================
