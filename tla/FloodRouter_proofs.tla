------------------------ MODULE FloodRouter_proofs --------------------------
(***************************************************************************)
(* For every ring size, every set of node and packet ids and every flags   *)
(* byte: the router is type correct, its ring is the window of the last    *)
(* SEEN_SIZE registrations, it never relays a packet early and never drops *)
(* a fresh one, and it implements SeenWindow.                              *)
(*                                                                         *)
(* RingIsWindow is not inductive: it says that a slot holds p, not which   *)
(* one, so nothing tells when p is overwritten.  RingInv adds the slot:    *)
(* a pair registered a registrations ago sits in slot SlotAt(a), and what  *)
(* sits there was last registered at most a registrations ago.             *)
(***************************************************************************)
EXTENDS FloodRouter, TLAPS

Remembered == \A p \in Pairs :
    since[p] < SEEN_SIZE => router.buf[SlotAt(since[p])] = p

NothingElse == \A a \in Slots :
    LET p == router.buf[SlotAt(a)]
    IN  p # ZeroPair => p \in Pairs /\ since[p] <= a

RingInv == TypeOK /\ Remembered /\ NothingElse

-----------------------------------------------------------------------------
(* The ring's arithmetic. *)

LEMMA NextHead ==
    ASSUME NEW h \in Slots
    PROVE  /\ (h + 1) % SEEN_SIZE \in Slots
           /\ (h + 1) % SEEN_SIZE = IF h + 1 = SEEN_SIZE THEN 0 ELSE h + 1
  BY SeenSizeAssumption DEF Slots

\* Every age below SEEN_SIZE has a slot, and every slot an age.
LEMMA SlotOfAge ==
    ASSUME router.head \in Slots, NEW a \in Slots
    PROVE  SlotAt(a) \in Slots
  BY SeenSizeAssumption DEF Slots, SlotAt

LEMMA AgeOfSlot ==
    ASSUME router.head \in Slots, NEW i \in Slots
    PROVE  \E a \in Slots : SlotAt(a) = i
<1>1. CASE i < router.head
  <2>1. router.head - 1 - i \in Slots /\ SlotAt(router.head - 1 - i) = i
    BY <1>1, SeenSizeAssumption DEF Slots, SlotAt
  <2> QED  BY <2>1
<1>2. CASE ~(i < router.head)
  <2>1. /\ router.head - 1 - i + SEEN_SIZE \in Slots
        /\ SlotAt(router.head - 1 - i + SEEN_SIZE) = i
    BY <1>2, SeenSizeAssumption DEF Slots, SlotAt
  <2> QED  BY <2>1
<1> QED  BY <1>1, <1>2

-----------------------------------------------------------------------------
(* A flags byte stays a byte when a hop is taken from it. *)

LEMMA HopTaken ==
    ASSUME NEW f \in 0 .. 255
    PROVE  LET hop == MeshHopLimit(f)
               left == IF hop > 0 THEN hop - 1 ELSE hop
           IN  /\ (f - hop) + left \in 0 .. 255
               /\ hop # 0 => /\ MeshHopLimit((f - hop) + left) = hop - 1
                             /\ ((f - hop) + left) \div 16 = f \div 16
<1> DEFINE k == f \div 16
           m == f % 16
<1>1. k \in 0 .. 15 /\ m \in 0 .. 15 /\ f = 16 * k + m
  OBVIOUS
<1> HIDE DEF k, m
<1>2. CASE m = 0
  BY <1>1, <1>2 DEF MeshHopLimit, m
<1>3. CASE m # 0
  <2>1. /\ (16 * k + (m - 1)) % 16 = m - 1
        /\ (16 * k + (m - 1)) \div 16 = k
    BY <1>1, <1>3
  <2>2. (f - m) + (m - 1) = 16 * k + (m - 1)
    BY <1>1
  <2>3. /\ (f - m) + (m - 1) \in 0 .. 255
        /\ ((f - m) + (m - 1)) % 16 = m - 1
        /\ ((f - m) + (m - 1)) \div 16 = k
        /\ m > 0
    BY <1>1, <1>3, <2>1, <2>2
  <2> QED  BY <1>3, <2>3 DEF MeshHopLimit, m, k
<1> QED  BY <1>2, <1>3

LEMMA PreparedIsRelayed ==
    ASSUME NEW h \in Header
    PROVE  /\ FloodPrepareForward(h, MyNodeId) \in Relayed
           /\ MeshHopLimit(h.flags) # 0 =>
                LET f == FloodPrepareForward(h, MyNodeId)
                IN  /\ MeshHopLimit(f.flags) = MeshHopLimit(h.flags) - 1
                    /\ f.flags \div 16 = h.flags \div 16
<1>1. h.flags \in 0 .. 255 /\ h.from \in NodeIds /\ h.id \in PacketIds
  <2>1. h.flags \in FlagBytes /\ h.from \in NodeIds /\ h.id \in PacketIds
    BY DEF Header
  <2>2. FlagBytes \subseteq 0 .. 255
    BY IdsAssumption
  <2>3. h.flags \in 0 .. 255
    BY <2>1, <2>2, Zenon
  <2> QED  BY <2>1, <2>3, Zenon
<1>2. MyNodeId % 256 \in 0 .. 255
  BY IdsAssumption
<1> DEFINE hop == MeshHopLimit(h.flags)
           left == IF hop > 0 THEN hop - 1 ELSE hop
           flags == (h.flags - hop) + left
           relay == MyNodeId % 256
<1>3. FloodPrepareForward(h, MyNodeId)
        = [from |-> h.from, id |-> h.id, flags |-> flags, relay |-> relay]
  <2>1. h = [from |-> h.from, id |-> h.id, flags |-> h.flags, relay |-> h.relay]
    BY DEF Header
  <2> DEFINE g == [h EXCEPT !.flags = flags]
  <2>2. g = [from |-> h.from, id |-> h.id, flags |-> flags, relay |-> h.relay]
    BY <2>1
  <2> HIDE DEF g
  <2>3. [g EXCEPT !.relay = relay]
          = [from |-> h.from, id |-> h.id, flags |-> flags, relay |-> relay]
    BY <2>2
  <2>4. FloodPrepareForward(h, MyNodeId) = [g EXCEPT !.relay = relay]
    BY Zenon DEF FloodPrepareForward, g
  <2> QED  BY <2>3, <2>4
<1>4. /\ flags \in 0 .. 255
      /\ hop # 0 => MeshHopLimit(flags) = hop - 1 /\ flags \div 16 = h.flags \div 16
  BY <1>1, HopTaken
<1> HIDE DEF flags, relay, hop
<1>5. relay \in 0 .. 255
  BY <1>2 DEF relay
<1>6. FloodPrepareForward(h, MyNodeId) \in Relayed
  BY <1>1, <1>3, <1>4, <1>5 DEF Relayed
<1>7. FloodPrepareForward(h, MyNodeId).flags = flags
  BY <1>3
<1> QED  BY <1>4, <1>6, <1>7 DEF hop

-----------------------------------------------------------------------------
(* One registration. *)

\* The ring after a registration: the new pair at age 0, the others one older.
LEMMA RegisterShifts ==
    ASSUME TypeOK, NEW p \in Pairs, router' = FloodSeen(router, p)
    PROVE  /\ router' \in [buf : [Slots -> Pairs \cup {ZeroPair}], head : Slots]
           /\ router'.buf[SlotAt(0)'] = p
           /\ \A a \in Slots \ {0} :
                 router'.buf[SlotAt(a)'] = router.buf[SlotAt(a - 1)]
<1> DEFINE h == router.head
           g == (h + 1) % SEEN_SIZE
<1>1. h \in Slots /\ router.buf \in [Slots -> Pairs \cup {ZeroPair}]
  BY DEF TypeOK
<1>2. /\ g \in Slots
      /\ g = IF h + 1 = SEEN_SIZE THEN 0 ELSE h + 1
  BY <1>1, NextHead
<1>3. router' = [buf |-> [router.buf EXCEPT ![h] = p], head |-> g]
  BY DEF FloodSeen
<1> HIDE DEF g, h
<1>4. router'.head = g /\ router'.buf = [router.buf EXCEPT ![h] = p]
  BY <1>3
<1>5. router' \in [buf : [Slots -> Pairs \cup {ZeroPair}], head : Slots]
  BY <1>1, <1>2, <1>3
<1>6. SlotAt(0)' = h
  BY <1>1, <1>2, <1>4, SeenSizeAssumption DEF SlotAt, Slots
<1>7. ASSUME NEW a \in Slots \ {0}
      PROVE  SlotAt(a)' = SlotAt(a - 1) /\ SlotAt(a)' # h /\ SlotAt(a)' \in Slots
  <2>1. a \in Int /\ a - 1 \in Int /\ 0 < a /\ a < SEEN_SIZE
    BY SeenSizeAssumption DEF Slots
  <2>2. SlotAt(a)' = IF a < g THEN g - 1 - a ELSE g - 1 - a + SEEN_SIZE
    BY <1>4 DEF SlotAt
  <2>3. SlotAt(a - 1) = IF a - 1 < h THEN h - 1 - (a - 1)
                                     ELSE h - 1 - (a - 1) + SEEN_SIZE
    BY DEF SlotAt, h
  <2>4. h \in Int /\ 0 <= h /\ h < SEEN_SIZE
    BY <1>1, SeenSizeAssumption DEF Slots
  <2>5. g = IF h + 1 = SEEN_SIZE THEN 0 ELSE h + 1
    BY <1>2
  <2> QED  BY <2>1, <2>2, <2>3, <2>4, <2>5, SeenSizeAssumption DEF Slots
<1> QED  BY <1>1, <1>4, <1>5, <1>6, <1>7

LEMMA RegisterKeepsRing ==
    ASSUME RingInv, NEW p \in Pairs, router' = FloodSeen(router, p), Count(p)
    PROVE  /\ router' \in [buf : [Slots -> Pairs \cup {ZeroPair}], head : Slots]
           /\ since' \in [Pairs -> 0 .. SEEN_SIZE]
           /\ Remembered'
           /\ NothingElse'
<1> USE SeenSizeAssumption
<1>1. TypeOK
  BY DEF RingInv
<1>2. /\ router' \in [buf : [Slots -> Pairs \cup {ZeroPair}], head : Slots]
      /\ router'.buf[SlotAt(0)'] = p
      /\ \A a \in Slots \ {0} :
            router'.buf[SlotAt(a)'] = router.buf[SlotAt(a - 1)]
  BY <1>1, RegisterShifts
<1>3. /\ since \in [Pairs -> 0 .. SEEN_SIZE]
      /\ \A q \in Pairs : since'[q] = IF q = p THEN 0 ELSE Age(since[q])
  BY <1>1 DEF TypeOK, Count
<1>4. since' \in [Pairs -> 0 .. SEEN_SIZE]
  BY <1>3 DEF Count, Age
<1>5. Remembered'
  <2> SUFFICES ASSUME NEW q \in Pairs, since'[q] < SEEN_SIZE
               PROVE  router'.buf[SlotAt(since[q])'] = q
    BY DEF Remembered
  <2>1. CASE q = p
    BY <1>2, <1>3, <2>1
  <2>2. CASE q # p
    <3>1. since[q] < SEEN_SIZE /\ since'[q] = since[q] + 1
      BY <1>3, <2>2 DEF Age
    <3>2. since'[q] \in Slots \ {0} /\ since'[q] - 1 = since[q]
      BY <1>3, <3>1 DEF Slots
    <3>3. router'.buf[SlotAt(since[q])'] = router.buf[SlotAt(since[q])]
      BY <1>2, <3>2
    <3> QED  BY <3>1, <3>3 DEF RingInv, Remembered
  <2> QED  BY <2>1, <2>2
<1>6. NothingElse'
  <2> SUFFICES ASSUME NEW a \in Slots, router'.buf[SlotAt(a)'] # ZeroPair
               PROVE  /\ router'.buf[SlotAt(a)'] \in Pairs
                      /\ since'[router'.buf[SlotAt(a)']] <= a
    BY DEF NothingElse
  <2>1. CASE a = 0
    BY <1>2, <1>3, <2>1 DEF Slots
  <2>2. CASE a # 0
    <3> DEFINE q == router.buf[SlotAt(a - 1)]
    <3>1. router'.buf[SlotAt(a)'] = q
      BY <1>2, <2>2
    <3>2. a - 1 \in Slots
      BY <2>2 DEF Slots
    <3>3. q \in Pairs /\ since[q] <= a - 1
      BY <3>1, <3>2 DEF RingInv, NothingElse
    <3> HIDE DEF q
    <3>4. since'[q] <= a
      BY <1>3, <3>2, <3>3 DEF Age, Slots
    <3> QED  BY <3>1, <3>3, <3>4
  <2> QED  BY <2>1, <2>2
<1> QED  BY <1>2, <1>4, <1>5, <1>6

\* An empty ring remembers nothing.
LEMMA EmptyRing == Init => RingInv
<1> SUFFICES ASSUME Init PROVE RingInv
  OBVIOUS
<1> USE SeenSizeAssumption
<1>1. router.head = 0 /\ router.buf = [i \in Slots |-> ZeroPair]
  BY DEF Init, EmptyRouter
<1>2. TypeOK
  BY DEF Init, TypeOK, EmptyRouter, Slots
<1>3. \A a \in Slots : SlotAt(a) \in Slots
  BY <1>2, SlotOfAge DEF TypeOK
<1>4. Remembered
  BY DEF Init, Remembered
<1> QED  BY <1>1, <1>2, <1>3, <1>4 DEF RingInv, NothingElse

-----------------------------------------------------------------------------
LEMMA RingInvInductive == Spec => []RingInv
<1>1. Init => RingInv
  BY EmptyRing
<1>2. RingInv /\ [Next]_vars => RingInv'
  <2> SUFFICES ASSUME RingInv, [Next]_vars
               PROVE  RingInv'
    OBVIOUS
  <2>1. ASSUME NEW h \in Header, NEW len \in Lengths, Receive(h, len)
        PROVE  RingInv'
    <3>1. PairOf(h) \in Pairs
      BY DEF Header, PairOf, Pairs
    <3>2. out' = <<>> \/ \E f \in Relayed : out' = <<f>>
      BY <2>1, PreparedIsRelayed DEF Receive
    <3>3. router' = FloodSeen(router, PairOf(h)) /\ Count(PairOf(h))
      BY <2>1 DEF Receive
    <3>4. /\ router' \in [buf : [Slots -> Pairs \cup {ZeroPair}], head : Slots]
          /\ since' \in [Pairs -> 0 .. SEEN_SIZE]
          /\ Remembered'
          /\ NothingElse'
      BY <3>1, <3>3, RegisterKeepsRing
    <3> QED  BY <3>2, <3>4 DEF RingInv, TypeOK
  <2>2. ASSUME NEW id \in PacketIds, Originate(id)
        PROVE  RingInv'
    <3>1. <<MyNodeId, id>> \in Pairs
      BY IdsAssumption DEF Pairs
    <3>2. /\ router' \in [buf : [Slots -> Pairs \cup {ZeroPair}], head : Slots]
          /\ since' \in [Pairs -> 0 .. SEEN_SIZE]
          /\ Remembered'
          /\ NothingElse'
      BY <2>2, <3>1, RegisterKeepsRing DEF Originate
    <3>3. out' = <<>>
      BY <2>2 DEF Originate
    <3> QED  BY <3>2, <3>3 DEF RingInv, TypeOK
  <2>3. CASE Reboot
    <3>1. Init'
      BY <2>3 DEF Reboot, Init
    <3> QED  BY <3>1, EmptyRing, PTL
  <2>4. CASE UNCHANGED vars
    BY <2>4 DEF vars, RingInv, TypeOK, Remembered, NothingElse, SlotAt
  <2> QED  BY <2>1, <2>2, <2>3, <2>4 DEF Next
<1> QED  BY <1>1, <1>2, PTL DEF Spec

\* The ring invariant says what the ring reports.
LEMMA RingInvIsWindow == RingInv => RingIsWindow
<1> SUFFICES ASSUME RingInv, NEW p \in Pairs \ {ZeroPair}
             PROVE  FloodWasSeen(router, p) <=> since[p] < SEEN_SIZE
  BY DEF RingIsWindow
<1>1. router.head \in Slots /\ since[p] \in 0 .. SEEN_SIZE
  BY DEF RingInv, TypeOK
<1>2. ASSUME since[p] < SEEN_SIZE
      PROVE  FloodWasSeen(router, p)
  <2>1. since[p] \in Slots
    BY <1>1, <1>2, SeenSizeAssumption DEF Slots
  <2>2. SlotAt(since[p]) \in Slots
    BY <1>1, <2>1, SlotOfAge
  <2>3. router.buf[SlotAt(since[p])] = p
    BY <1>2 DEF RingInv, Remembered
  <2> QED  BY <2>2, <2>3 DEF FloodWasSeen
<1>3. ASSUME FloodWasSeen(router, p)
      PROVE  since[p] < SEEN_SIZE
  <2>1. PICK i \in Slots : router.buf[i] = p
    BY <1>3 DEF FloodWasSeen
  <2>2. PICK a \in Slots : SlotAt(a) = i
    BY <1>1, AgeOfSlot
  <2>3. since[p] <= a
    BY <2>1, <2>2 DEF RingInv, NothingElse
  <2> QED  BY <1>1, <2>3, SeenSizeAssumption DEF Slots
<1> QED  BY <1>2, <1>3

-----------------------------------------------------------------------------
(* The theorems. *)

\* The router is type correct: the head never leaves the ring (the write of
\* flood_seen stays in seen_buf) and a relayed header has a flags and a relay
\* byte.
THEOREM TypeCorrect == Spec => []TypeOK
<1>1. RingInv => TypeOK
  BY DEF RingInv
<1> QED  BY <1>1, RingInvInductive, PTL

\* flood_was_seen answers "registered among the last SEEN_SIZE" for every pair
\* but <<0, 0>>.
THEOREM RingCorrect == Spec => []RingIsWindow
<1> QED  BY RingInvIsWindow, RingInvInductive, PTL

\* A pair flood_should_forward accepts was not registered in the last SEEN_SIZE.
THEOREM NeverEarly == Spec => NoEarlyRepeat
<1>1. ASSUME RingInv, [Next]_vars,
             NEW h \in Header, NEW len \in Lengths,
             Receive(h, len), out' # <<>>
      PROVE  since[PairOf(h)] = SEEN_SIZE
  <2>1. ~FloodWasSeen(router, PairOf(h))
    BY <1>1 DEF Receive, FloodShouldForward
  <2>2. PairOf(h) \in Pairs
    BY DEF Header, PairOf, Pairs
  <2>3. since[PairOf(h)] \in 0 .. SEEN_SIZE
    BY <1>1, <2>2 DEF RingInv, TypeOK
  <2>4. ~(since[PairOf(h)] < SEEN_SIZE)
    <3>1. SUFFICES ASSUME since[PairOf(h)] < SEEN_SIZE
                   PROVE  FALSE
      OBVIOUS
    <3>2. since[PairOf(h)] \in Slots
      BY <2>3, <3>1, SeenSizeAssumption DEF Slots
    <3>3. SlotAt(since[PairOf(h)]) \in Slots
      BY <1>1, <3>2, SlotOfAge DEF RingInv, TypeOK
    <3>4. router.buf[SlotAt(since[PairOf(h)])] = PairOf(h)
      BY <1>1, <2>2, <3>1 DEF RingInv, Remembered
    <3> QED  BY <2>1, <3>3, <3>4 DEF FloodWasSeen
  <2> QED  BY <2>3, <2>4, SeenSizeAssumption
<1>2. RingInv /\ [Next]_vars
      => [\A h \in Header, len \in Lengths :
            Receive(h, len) /\ out' # <<>> => since[PairOf(h)] = SEEN_SIZE]_vars
  BY <1>1
<1> QED  BY <1>2, RingInvInductive, PTL DEF Spec, NoEarlyRepeat

\* A packet with hops left that was not registered in the last SEEN_SIZE is
\* relayed, one hop shorter and with the other flag bits kept.
THEOREM FreshAlwaysRelayed == Spec => FreshIsRelayed
<1> DEFINE Fresh(h, len) == /\ Receive(h, len)
                            /\ PairOf(h) # ZeroPair
                            /\ MeshHopLimit(h.flags) # 0
                            /\ since[PairOf(h)] = SEEN_SIZE
           Taken(h) == /\ out' # <<>>
                       /\ MeshHopLimit(out'[1].flags) = MeshHopLimit(h.flags) - 1
                       /\ out'[1].flags \div 16 = h.flags \div 16
<1>1. ASSUME RingInv, NEW h \in Header, NEW len \in Lengths, Fresh(h, len)
      PROVE  Taken(h)
  <2>1. PairOf(h) \in Pairs \ {ZeroPair}
    BY <1>1 DEF Header, PairOf, Pairs
  <2>2. ~FloodWasSeen(router, PairOf(h))
    BY <1>1, <2>1, RingInvIsWindow, SeenSizeAssumption DEF RingIsWindow
  <2>3. len \in Nat /\ len >= MESH_HEADER_SIZE
    BY <1>1, IdsAssumption DEF Receive, MESH_HEADER_SIZE
  <2>4. out' = <<FloodPrepareForward(h, MyNodeId)>>
    BY <1>1, <2>2, <2>3 DEF Receive, FloodShouldForward
  <2> QED  BY <1>1, <2>4, PreparedIsRelayed
<1>2. RingInv => [\A h \in Header, len \in Lengths :
                     Fresh(h, len) => Taken(h)]_vars
  BY <1>1
<1> QED  BY <1>2, RingInvInductive, PTL DEF FreshIsRelayed

-----------------------------------------------------------------------------
(* The ring implements the window. *)

\* The packet's pair is in the ring if and only if it is in the window.
LEMMA SameKnowledge ==
    ASSUME TypeOK, NEW p
    PROVE  Window!Known(p) <=> FloodWasSeen(router, p)
<1>1. router.head \in Slots
  BY DEF TypeOK
<1>2. \A a \in Slots : SlotAt(a) \in Slots
  BY <1>1, SlotOfAge
<1>3. \A i \in Slots : \E a \in Slots : SlotAt(a) = i
  BY <1>1, AgeOfSlot
<1> QED  BY <1>2, <1>3 DEF Window!Known, Window!Ages, Slots, FloodWasSeen

LEMMA RegisterRefines ==
    ASSUME TypeOK, NEW p \in Pairs, router' = FloodSeen(router, p)
    PROVE  Window!Register(p)
<1>1. /\ router'.buf[SlotAt(0)'] = p
      /\ \A a \in Slots \ {0} :
            router'.buf[SlotAt(a)'] = router.buf[SlotAt(a - 1)]
  BY RegisterShifts
<1>2. \A a \in Slots \ {0} : a - 1 \in Slots
  BY SeenSizeAssumption DEF Slots
<1>3. \A a \in Slots : router'.buf[SlotAt(a)']
                         = IF a = 0 THEN p
                           ELSE [b \in Slots |-> router.buf[SlotAt(b)]][a - 1]
  BY <1>1, <1>2
<1>4. [a \in Slots |-> router.buf[SlotAt(a)]]'
        = [a \in Slots |-> IF a = 0 THEN p
                           ELSE [b \in Slots |-> router.buf[SlotAt(b)]][a - 1]]
  BY <1>3
<1> QED  BY <1>4 DEF Window!Register, Window!Ages, Slots

\* The router of the code does what SeenWindow promises.
THEOREM RouterImplementsWindow == Spec => ImplementsWindow
<1>1. Init => Window!Init
  <2> SUFFICES ASSUME Init PROVE Window!Init
    OBVIOUS
  <2>1. TypeOK
    BY EmptyRing DEF RingInv
  <2>2. \A a \in Slots : SlotAt(a) \in Slots
    BY <2>1, SlotOfAge DEF TypeOK
  <2>3. \A a \in Slots : router.buf[SlotAt(a)] = ZeroPair
    BY <2>2 DEF Init, EmptyRouter
  <2> QED  BY <2>3 DEF Init, Window!Init, Window!Ages, Slots
<1>2. RingInv /\ [Next]_vars
        => [Window!Next]_<<[a \in Slots |-> router.buf[SlotAt(a)]], out>>
  <2> SUFFICES ASSUME RingInv, [Next]_vars
               PROVE  \/ Window!Next
                      \/ UNCHANGED <<[a \in Slots |-> router.buf[SlotAt(a)]], out>>
    OBVIOUS
  <2>0. TypeOK
    BY DEF RingInv
  <2>1. ASSUME NEW h \in Header, NEW len \in Lengths, Receive(h, len)
        PROVE  Window!Relay(h) \/ Window!Ignore(h)
    <3>1. PairOf(h) \in Pairs
      BY DEF Header, PairOf, Pairs
    <3>2. Window!Register(PairOf(h))
      BY <2>0, <2>1, <3>1, RegisterRefines DEF Receive
    <3>3. Window!Known(PairOf(h)) <=> FloodWasSeen(router, PairOf(h))
      BY <2>0, SameKnowledge
    <3>4. len >= MESH_HEADER_SIZE
      BY <2>1, IdsAssumption DEF Receive, MESH_HEADER_SIZE
    <3>5. CASE FloodShouldForward(router, h, len)
      <4>1. out' = <<Hopped(h)>>
        BY <2>1, <3>5 DEF Receive, Hopped
      <4>2. CanHop(h) /\ ~Window!Known(PairOf(h))
        BY <3>3, <3>5 DEF FloodShouldForward, CanHop
      <4> QED  BY <3>2, <4>1, <4>2 DEF Window!Relay
    <3>6. CASE ~FloodShouldForward(router, h, len)
      <4>1. out' = <<>>
        BY <2>1, <3>6 DEF Receive
      <4>2. ~CanHop(h) \/ Window!Known(PairOf(h))
        BY <3>3, <3>4, <3>6 DEF FloodShouldForward, CanHop
      <4> QED  BY <3>2, <4>1, <4>2 DEF Window!Ignore
    <3> QED  BY <3>5, <3>6
  <2>2. ASSUME NEW id \in PacketIds, Originate(id)
        PROVE  \E p \in Pairs : Window!Originate(p)
    <3>1. <<MyNodeId, id>> \in Pairs
      BY IdsAssumption DEF Pairs
    <3>2. Window!Register(<<MyNodeId, id>>)
      BY <2>0, <2>2, <3>1, RegisterRefines DEF Originate
    <3>3. Window!Originate(<<MyNodeId, id>>)
      BY <2>2, <3>2 DEF Originate, Window!Originate
    <3> QED  BY <3>1, <3>3
  <2>3. CASE Reboot
    <3>1. Init'
      BY <2>3 DEF Reboot, Init
    <3>2. Window!Init'
      BY <3>1, <1>1, PTL
    <3>3. Window!Forget
      BY <3>2 DEF Window!Init, Window!Forget
    <3> QED  BY <3>3 DEF Window!Next
  <2>4. CASE UNCHANGED vars
    BY <2>4 DEF vars, SlotAt
  <2> QED  BY <2>1, <2>2, <2>3, <2>4 DEF Next, Window!Next
<1> QED
  BY <1>1, <1>2, RingInvInductive, PTL DEF Spec, ImplementsWindow, Window!Spec
=============================================================================
