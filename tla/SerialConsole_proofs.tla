------------------------ MODULE SerialConsole_proofs -------------------------
(***************************************************************************)
(* The receive ring and the console for every size of the ring and of the  *)
(* line buffer and every set of bytes.  First the ring: between any two of *)
(* the accesses of serial_get_byte an interrupt may push, and still it is  *)
(* the queue of ByteFifo.  RInv says what a get may rely on when it goes   *)
(* on: its slot is not empty, and is not the one an interrupt writes.      *)
(*                                                                         *)
(* Then the console.  What is sent is told from all that entered the ring, *)
(* so the invariant says where the line in the buffer begins (Console) and *)
(* that every byte read is in some line (Lined); Passes ties the bytes the *)
(* loop reads to those that entered the ring.                              *)
(***************************************************************************)
EXTENDS SerialConsole, SequenceTheorems, TLAPS

-----------------------------------------------------------------------------
(* Indices of the ring. *)

LEMMA SuccIs ==
    ASSUME RingAssumption, NEW i \in Slots
    PROVE  /\ Succ(i) \in Slots
           /\ Succ(i) = IF i = RX_RING_SIZE - 1 THEN 0 ELSE i + 1
  <1>1. RX_RING_SIZE \in Nat \ {0} /\ i \in 0 .. RX_RING_SIZE - 1
    BY DEF RingAssumption, Slots
  <1>2. CASE i + 1 < RX_RING_SIZE  BY <1>1, <1>2 DEF Succ, Slots
  <1>3. CASE i + 1 >= RX_RING_SIZE  BY <1>1, <1>3 DEF Succ, Slots
  <1>4. QED  BY <1>1, <1>2, <1>3

\* The slot of the i-th byte in the ring.
Slot(i) == (rx_tail + i - 1) % RX_RING_SIZE

\* What the modulo arithmetic comes to.
Indices ==
    /\ Count = IF rx_tail <= rx_head THEN rx_head - rx_tail
                                     ELSE rx_head - rx_tail + RX_RING_SIZE
    /\ Count \in 0 .. RX_RING_SIZE - 1
    /\ \A i \in 1 .. RX_RING_SIZE :
          /\ Slot(i) \in Slots
          /\ Slot(i) = IF rx_tail + i - 1 < RX_RING_SIZE THEN rx_tail + i - 1
                                             ELSE rx_tail + i - 1 - RX_RING_SIZE

LEMMA Counted == RingTypeOK => Indices
  <1> SUFFICES ASSUME RingTypeOK PROVE Indices
    OBVIOUS
  <1>1. /\ RX_RING_SIZE \in Nat \ {0}
        /\ rx_head \in 0 .. RX_RING_SIZE - 1 /\ rx_tail \in 0 .. RX_RING_SIZE - 1
    BY RingAssumption DEF RingAssumption, RingTypeOK, Slots
  <1>2. Count = IF rx_tail <= rx_head THEN rx_head - rx_tail
                                      ELSE rx_head - rx_tail + RX_RING_SIZE
    <2>1. CASE rx_tail <= rx_head
      <3>1. rx_head - rx_tail \in 0 .. RX_RING_SIZE - 1
        BY <1>1, <2>1
      <3>2. (rx_head - rx_tail + RX_RING_SIZE) % RX_RING_SIZE = rx_head - rx_tail
        BY <1>1, <3>1
      <3>3. QED  BY <2>1, <3>2 DEF Count
    <2>2. CASE ~(rx_tail <= rx_head)
      <3>1. rx_head - rx_tail + RX_RING_SIZE \in 0 .. RX_RING_SIZE - 1
        BY <1>1, <2>2
      <3>2. QED  BY <1>1, <2>2, <3>1 DEF Count
    <2>3. QED  BY <2>1, <2>2
  <1>3. Count \in 0 .. RX_RING_SIZE - 1
    BY <1>1, <1>2
  <1>4. ASSUME NEW i \in 1 .. RX_RING_SIZE
        PROVE  /\ Slot(i) \in Slots
               /\ Slot(i) = IF rx_tail + i - 1 < RX_RING_SIZE THEN rx_tail + i - 1
                                                    ELSE rx_tail + i - 1 - RX_RING_SIZE
    <2>1. CASE rx_tail + i - 1 < RX_RING_SIZE  BY <1>1, <2>1 DEF Slot, Slots
    <2>2. CASE rx_tail + i - 1 >= RX_RING_SIZE  BY <1>1, <2>2 DEF Slot, Slots
    <2>3. QED  BY <1>1, <2>1, <2>2
  <1>5. QED  BY <1>2, <1>3, <1>4 DEF Indices

InOrder ==
    /\ Contents \in Seq(Byte)
    /\ Len(Contents) = Count
    /\ \A i \in 1 .. Count : Contents[i] = rx_ring[Slot(i)]

LEMMA ContentsIs == RingTypeOK => InOrder
  <1> SUFFICES ASSUME RingTypeOK PROVE InOrder
    OBVIOUS
  <1>1. Count \in Nat /\ Count < RX_RING_SIZE /\ RX_RING_SIZE \in Nat
    BY RingAssumption, Counted DEF RingAssumption, Indices
  <1>2. ASSUME NEW i \in 1 .. Count PROVE rx_ring[Slot(i)] \in Byte
    BY <1>1, Counted DEF RingTypeOK, Indices
  <1>3. Contents = [i \in 1 .. Count |-> rx_ring[Slot(i)]]
    BY DEF Contents, Slot
  <1>4. Contents \in [1 .. Count -> Byte]
    BY <1>2, <1>3
  <1>5. QED  BY <1>1, <1>3, <1>4, SeqDef DEF InOrder

\* The same of the next state.
LEMMA NextIndices == RingTypeOK' => Indices' /\ InOrder'
  BY Counted, ContentsIs, PTL

-----------------------------------------------------------------------------
(* The steps of the ring. *)

RInv ==
    /\ RingTypeOK
    /\ get # "idle" => rx_tail # rx_head
    /\ get = "advance" => byte = rx_ring[rx_tail]

LEMMA PushMaps ==
    ASSUME RInv, NEW b \in Byte, serial_push_byte(b)
    PROVE  /\ RInv' /\ out' = out
           /\ \/ /\ rx_head' # rx_head
                 /\ Len(Contents) < RX_RING_SIZE - 1
                 /\ Contents' = Append(Contents, b)
              \/ /\ rx_head' = rx_head
                 /\ Len(Contents) = RX_RING_SIZE - 1
                 /\ Contents' = Contents
  <1>1. /\ RX_RING_SIZE \in Nat \ {0} /\ RingTypeOK
        /\ rx_head \in 0 .. RX_RING_SIZE - 1 /\ rx_tail \in 0 .. RX_RING_SIZE - 1
        /\ UNCHANGED <<rx_tail, get, byte, out>>
    BY RingAssumption DEF RingAssumption, RInv, RingTypeOK, Slots, serial_push_byte
  <1>2. CASE Succ(rx_head) = rx_tail
    <2>1. UNCHANGED ring
      BY <1>1, <1>2 DEF serial_push_byte, ring
    <2>2. Count = RX_RING_SIZE - 1
      BY <1>1, <1>2, RingAssumption, SuccIs, Counted DEF Slots, Indices
    <2>3. Contents' = Contents
      BY <2>1 DEF Contents, Count, ring
    <2>4. QED  BY <1>1, <2>1, <2>2, <2>3, ContentsIs DEF InOrder, RInv, RingTypeOK, ring
  <1>3. CASE Succ(rx_head) # rx_tail
    <2>1. /\ rx_ring' = [rx_ring EXCEPT ![rx_head] = b] /\ rx_head' = Succ(rx_head)
      BY <1>3 DEF serial_push_byte
    <2>2. /\ RingTypeOK' /\ rx_head' # rx_head
          /\ rx_head' = IF rx_head = RX_RING_SIZE - 1 THEN 0 ELSE rx_head + 1
      <3>1. rx_head' \in Slots /\ rx_head' # rx_head
            /\ rx_head' = IF rx_head = RX_RING_SIZE - 1 THEN 0 ELSE rx_head + 1
        BY <1>1, <1>3, <2>1, RingAssumption, SuccIs DEF Slots
      <3>2. QED  BY <1>1, <2>1, <3>1 DEF RingTypeOK
    <2>3. RInv'
      <3>1. get # "idle" => rx_tail # rx_head'
        BY <1>3, <2>1
      <3>2. get = "advance" => rx_ring'[rx_tail] = rx_ring[rx_tail]
        BY <1>1, <2>1 DEF RInv, RingTypeOK
      <3>3. QED  BY <1>1, <2>2, <3>1, <3>2 DEF RInv
    <2>4. Count' = Count + 1 /\ Count < RX_RING_SIZE - 1 /\ Count \in Nat
      <3>1. Count' = IF rx_tail' <= rx_head' THEN rx_head' - rx_tail'
                                             ELSE rx_head' - rx_tail' + RX_RING_SIZE
        BY <2>2, NextIndices DEF Indices
      <3>2. Count = IF rx_tail <= rx_head THEN rx_head - rx_tail
                                          ELSE rx_head - rx_tail + RX_RING_SIZE
        BY <1>1, Counted DEF Indices
      <3>3. QED  BY <1>1, <1>3, <2>1, <2>2, <3>1, <3>2
    <2>5. Slot(Count + 1) = rx_head
      <3>1. Count + 1 \in 1 .. RX_RING_SIZE
        BY <1>1, <2>4
      <3>2. QED  BY <1>1, <3>1, Counted DEF Indices
    <2>6. ASSUME NEW i \in 1 .. Count PROVE Slot(i) \in Slots /\ Slot(i) # rx_head
      <3>1. i \in 1 .. RX_RING_SIZE /\ i < Count + 1 /\ Count + 1 \in 1 .. RX_RING_SIZE
        BY <1>1, <2>4
      <3>2. QED  BY <1>1, <2>5, <3>1, Counted DEF Indices
    <2>7. ASSUME NEW i \in 1 .. Count + 1 PROVE Contents'[i] = Append(Contents, b)[i]
      <3>1. Contents'[i] = rx_ring'[Slot(i)] /\ Slot(i)' = Slot(i)
        BY <1>1, <2>2, <2>4, NextIndices DEF InOrder, Slot
      <3>2. CASE i = Count + 1
        <4>1. rx_ring'[rx_head] = b
          BY <1>1, <2>1 DEF RingTypeOK
        <4>2. QED  BY <1>1, <2>5, <3>1, <3>2, <4>1, ContentsIs, AppendProperties DEF InOrder
      <3>3. CASE i \in 1 .. Count
        <4>1. rx_ring'[Slot(i)] = rx_ring[Slot(i)]
          BY <1>1, <2>1, <2>6, <3>3 DEF RingTypeOK
        <4>2. QED  BY <1>1, <3>1, <3>3, <4>1, ContentsIs, AppendProperties DEF InOrder
      <3>4. i = Count + 1 \/ i \in 1 .. Count
        BY <2>4
      <3>5. QED  BY <3>2, <3>3, <3>4
    <2>8. Contents' = Append(Contents, b)
      <3>1. Contents' \in Seq(Byte) /\ Len(Contents') = Count + 1
        BY <1>1, <2>2, <2>4, NextIndices DEF InOrder
      <3>2. Append(Contents, b) \in Seq(Byte) /\ Len(Append(Contents, b)) = Count + 1
        BY <1>1, ContentsIs, AppendProperties DEF InOrder
      <3>3. QED  BY <2>7, <3>1, <3>2, SeqEqual
    <2>9. QED  BY <1>1, <2>2, <2>3, <2>4, <2>8, ContentsIs DEF InOrder
  <1>4. QED  BY <1>2, <1>3

LEMMA GetKeeps ==
    ASSUME RInv, GetEmpty \/ GetCheck \/ GetRead
    PROVE  RInv' /\ UNCHANGED <<rx_head, rx_tail, rx_ring, out, Contents, Count>>
  <1>1. UNCHANGED <<rx_head, rx_tail, rx_ring, out>>
    BY DEF GetEmpty, GetCheck, GetRead, ring
  <1>2. RInv'
    <2>1. CASE GetEmpty  BY <2>1 DEF GetEmpty, ring, RInv, RingTypeOK
    <2>2. CASE GetCheck  BY <2>2 DEF GetCheck, RInv, RingTypeOK
    <2>3. CASE GetRead
      <3>1. rx_ring[rx_tail] \in Byte
        BY DEF RInv, RingTypeOK
      <3>2. QED  BY <2>3, <3>1 DEF GetRead, RInv, RingTypeOK
    <2>4. QED  BY <2>1, <2>2, <2>3
  <1>3. QED  BY <1>1, <1>2 DEF Contents, Count

LEMMA AdvanceMaps ==
    ASSUME RInv, GetAdvance
    PROVE  /\ RInv' /\ out' = <<byte>>
           /\ Count >= 1 /\ Count' = Count - 1
           /\ Contents # <<>> /\ byte = Contents[1]
           /\ Contents' = Tail(Contents)
  <1>1. /\ RX_RING_SIZE \in Nat \ {0} /\ RingTypeOK
        /\ rx_head \in 0 .. RX_RING_SIZE - 1 /\ rx_tail \in 0 .. RX_RING_SIZE - 1
        /\ rx_tail # rx_head /\ byte = rx_ring[rx_tail]
        /\ UNCHANGED <<rx_ring, rx_head, byte>>
        /\ rx_tail' = Succ(rx_tail) /\ get' = "idle" /\ out' = <<byte>>
    BY RingAssumption DEF RingAssumption, RInv, RingTypeOK, Slots, GetAdvance
  <1>2. /\ rx_tail' \in Slots
        /\ rx_tail' = IF rx_tail = RX_RING_SIZE - 1 THEN 0 ELSE rx_tail + 1
    BY <1>1, RingAssumption, SuccIs DEF Slots
  <1>3. RingTypeOK' /\ RInv'
    BY <1>1, <1>2 DEF RingTypeOK, RInv
  <1>4. Count \in Nat /\ Count >= 1 /\ Count < RX_RING_SIZE /\ Count' = Count - 1
    <2>1. Count' = IF rx_tail' <= rx_head' THEN rx_head' - rx_tail'
                                           ELSE rx_head' - rx_tail' + RX_RING_SIZE
      BY <1>3, NextIndices DEF Indices
    <2>2. Count = IF rx_tail <= rx_head THEN rx_head - rx_tail
                                        ELSE rx_head - rx_tail + RX_RING_SIZE
      BY <1>1, Counted DEF Indices
    <2>3. QED  BY <1>1, <1>2, <2>1, <2>2
  <1>5. Contents # <<>> /\ byte = Contents[1]
    <2>1. Slot(1) = rx_tail
      BY <1>1, Counted DEF Indices
    <2>2. QED  BY <1>1, <1>4, <2>1, ContentsIs, EmptySeq DEF InOrder
  <1>6. ASSUME NEW i \in 1 .. Count' PROVE Contents'[i] = Contents[i + 1]
    <2>1. /\ i \in 1 .. RX_RING_SIZE /\ i + 1 \in 1 .. RX_RING_SIZE /\ i + 1 \in 1 .. Count
          /\ i \in 1 .. RX_RING_SIZE - 1
      BY <1>1, <1>4
    <2>2. Slot(i)' = IF rx_tail' + i - 1 < RX_RING_SIZE THEN rx_tail' + i - 1
                                              ELSE rx_tail' + i - 1 - RX_RING_SIZE
      BY <1>3, <2>1, NextIndices DEF Indices
    <2>3. Slot(i + 1) = IF rx_tail + (i + 1) - 1 < RX_RING_SIZE THEN rx_tail + (i + 1) - 1
                                              ELSE rx_tail + (i + 1) - 1 - RX_RING_SIZE
      BY <1>1, <2>1, Counted DEF Indices
    <2>4. Slot(i)' = Slot(i + 1)
      BY <1>1, <1>2, <2>1, <2>2, <2>3
    <2>5. QED  BY <1>1, <1>3, <2>1, <2>4, NextIndices, ContentsIs DEF InOrder
  <1>7. Contents' = Tail(Contents)
    <2>1. /\ Tail(Contents) \in Seq(Byte) /\ Len(Tail(Contents)) = Count - 1
          /\ \A i \in 1 .. Count - 1 : Tail(Contents)[i] = Contents[i + 1]
      BY <1>1, <1>5, ContentsIs, HeadTailProperties DEF InOrder
    <2>2. Contents' \in Seq(Byte) /\ Len(Contents') = Count - 1
      BY <1>3, <1>4, NextIndices DEF InOrder
    <2>3. QED  BY <1>4, <1>6, <2>1, <2>2, SeqEqual
  <1>8. QED  BY <1>1, <1>3, <1>4, <1>5, <1>7

-----------------------------------------------------------------------------
(* The bytes that entered the ring: those the loop has read, then those    *)
(* that are in the ring.                                                   *)

Passes ==
    /\ RInv
    /\ kept \in Seq(Byte) /\ taken \in Nat
    /\ Len(kept) = taken + Count
    /\ \A i \in 1 .. Count : kept[taken + i] = Contents[i]

LEMMA TypeKeepsPasses ==
    ASSUME Passes, NEW b \in Byte, Type(b)
    PROVE  /\ Passes' /\ taken' = taken
           /\ taken <= Len(kept) /\ taken <= Len(kept')
           /\ \A i \in 1 .. taken : kept'[i] = kept[i]
  <1>1. /\ RInv' /\ taken' = taken
        /\ \/ /\ kept' = Append(kept, b) /\ Contents' = Append(Contents, b)
           \/ /\ kept' = kept /\ Contents' = Contents
    BY PushMaps DEF Passes, Type
  <1>2. /\ Contents \in Seq(Byte) /\ Len(Contents) = Count /\ Count \in Nat
        /\ Contents' \in Seq(Byte) /\ Len(Contents') = Count'
    BY <1>1, RingAssumption, Counted, ContentsIs, NextIndices
       DEF Passes, RInv, Indices, InOrder, RingAssumption
  <1>3. CASE kept' = kept /\ Contents' = Contents
    <2>1. Count' = Count
      BY <1>2, <1>3
    <2>2. QED  BY <1>1, <1>2, <1>3, <2>1 DEF Passes
  <1>4. CASE kept' = Append(kept, b) /\ Contents' = Append(Contents, b)
    <2>1. /\ kept' \in Seq(Byte) /\ Len(kept') = Len(kept) + 1
          /\ \A i \in 1 .. Len(kept) : kept'[i] = kept[i]
          /\ kept'[Len(kept) + 1] = b
      BY <1>4, AppendProperties DEF Passes
    <2>2. /\ Count' = Count + 1
          /\ \A i \in 1 .. Count : Contents'[i] = Contents[i]
          /\ Contents'[Count + 1] = b
      BY <1>2, <1>4, AppendProperties
    <2>3. ASSUME NEW i \in 1 .. Count' PROVE kept'[taken + i] = Contents'[i]
      <3>1. CASE i = Count + 1
        <4>1. taken + i = Len(kept) + 1
          BY <1>2, <3>1 DEF Passes
        <4>2. QED  BY <2>1, <2>2, <3>1, <4>1
      <3>2. CASE i \in 1 .. Count
        <4>1. taken + i \in 1 .. Len(kept)
          BY <1>2, <3>2 DEF Passes
        <4>2. QED  BY <2>1, <2>2, <3>2, <4>1 DEF Passes
      <3>3. i = Count + 1 \/ i \in 1 .. Count
        BY <1>2, <2>2
      <3>4. QED  BY <3>1, <3>2, <3>3
    <2>4. /\ Len(kept') = taken' + Count' /\ taken' \in Nat
          /\ taken <= Len(kept) /\ taken <= Len(kept')
      BY <1>1, <1>2, <2>1, <2>2 DEF Passes
    <2>5. \A i \in 1 .. taken : kept'[i] = kept[i]
      BY <1>2, <2>1, <2>4 DEF Passes
    <2>6. QED  BY <1>1, <2>1, <2>3, <2>4, <2>5 DEF Passes
  <1>5. QED  BY <1>1, <1>3, <1>4

LEMMA GetKeepsPasses ==
    ASSUME Passes, NEW b, Get(b)
    PROVE  /\ Passes' /\ kept' = kept /\ taken' = taken + 1
           /\ b \in Byte /\ kept[taken + 1] = b
           /\ taken + 1 \in 1 .. Len(kept)
  <1>1. /\ GetAdvance /\ byte = b /\ taken' = taken + 1 /\ kept' = kept
    BY DEF Get
  <1>2. /\ RInv' /\ Count >= 1 /\ Count' = Count - 1
        /\ Contents # <<>> /\ byte = Contents[1] /\ Contents' = Tail(Contents)
    BY <1>1, AdvanceMaps DEF Passes
  <1>3. /\ Contents \in Seq(Byte) /\ Len(Contents) = Count /\ Count \in Nat
    BY RingAssumption, Counted, ContentsIs DEF Passes, RInv, Indices, InOrder, RingAssumption
  <1>4. \A i \in 1 .. Count' : Contents'[i] = Contents[i + 1]
    BY <1>2, <1>3, HeadTailProperties
  <1>5. ASSUME NEW i \in 1 .. Count' PROVE kept'[taken' + i] = Contents'[i]
    <2>1. i + 1 \in 1 .. Count /\ taken' + i = taken + (i + 1)
      BY <1>1, <1>2, <1>3 DEF Passes
    <2>2. QED  BY <1>1, <1>4, <2>1 DEF Passes
  <1>6. b \in Byte
    BY <1>1 DEF Passes, RInv, RingTypeOK
  <1>7. /\ kept[taken + 1] = b /\ taken + 1 \in 1 .. Len(kept)
        /\ Len(kept) = taken' + Count' /\ taken' \in Nat
    BY <1>1, <1>2, <1>3 DEF Passes
  <1>8. QED  BY <1>1, <1>2, <1>5, <1>6, <1>7 DEF Passes

-----------------------------------------------------------------------------
(* Lines of a sequence of bytes. *)

\* The line that byte n + 1 of q would end begins after byte s.
Begins(q, n, s) ==
    /\ s \in 0 .. n
    /\ s # 0 => q[s] = "CR"
    /\ \A a \in s + 1 .. n : q[a] # "CR"

\* The line that byte b ends is what lies between s and b.
Between(q, s, b) ==
    /\ LineAt(q, b) \in Seq(Byte)
    /\ Len(LineAt(q, b)) = b - 1 - s
    /\ \A i \in 1 .. b - 1 - s : LineAt(q, b)[i] = q[s + i]

LEMMA LineIs ==
    ASSUME NEW q \in Seq(Byte), NEW b \in 1 .. Len(q), NEW s, Begins(q, b - 1, s)
    PROVE  Between(q, s, b)
  <1> DEFINE before == {a \in 1 .. b - 1 : q[a] = "CR"}
             start == IF before = {} THEN 0
                      ELSE CHOOSE a \in before : \A a2 \in before : a2 <= a
  <1>1. s \in 0 .. b - 1 /\ b \in Nat /\ b <= Len(q) /\ Len(q) \in Nat
    BY DEF Begins
  <1>2. start = s
    <2>1. CASE s = 0
      <3>1. before = {}
        BY <1>1, <2>1 DEF Begins
      <3>2. QED  BY <2>1, <3>1
    <2>2. CASE s # 0
      <3>1. s \in before /\ \A a2 \in before : a2 <= s
        BY <1>1, <2>2 DEF Begins
      <3>2. PICK c : /\ c = CHOOSE a \in before : \A a2 \in before : a2 <= a
                     /\ c \in before /\ \A a2 \in before : a2 <= c
        BY <3>1
      <3>3. c = s
        BY <1>1, <3>1, <3>2
      <3>4. QED  BY <3>1, <3>2, <3>3
    <2>3. QED  BY <2>1, <2>2
  <1>3. LineAt(q, b) = SubSeq(q, s + 1, b - 1)
    <2>1. LineAt(q, b) = SubSeq(q, start + 1, b - 1)
      BY Zenon DEF LineAt
    <2>2. QED  BY <1>2, <2>1, Zenon
  <1>4. \A i \in s + 1 .. b - 1 : q[i] \in Byte
    BY <1>1, ElementOfSeq
  <1>5. /\ SubSeq(q, s + 1, b - 1) \in Seq(Byte)
        /\ Len(SubSeq(q, s + 1, b - 1)) = IF s + 1 <= b - 1 THEN b - 1 - (s + 1) + 1 ELSE 0
        /\ \A i \in 1 .. b - 1 - (s + 1) + 1 : SubSeq(q, s + 1, b - 1)[i] = q[s + 1 + i - 1]
    <2>1. s + 1 \in Int /\ b - 1 \in Int
      BY <1>1
    <2>2. QED  BY <1>4, <2>1, SubSeqProperties
  <1>6. \A i \in 1 .. b - 1 - s : s + 1 + i - 1 = s + i
    BY <1>1
  <1>7. QED  BY <1>1, <1>3, <1>5, <1>6 DEF Between

\* Every position of the first n bytes is in some line.
Lined(q, n) == \A m \in 0 .. n : \E s : Begins(q, m, s)

\* What SentAreTheTextLines and LastNodeIdCounts speak of.
IsText(q, e) == IsTextLine(LineAt(q, e)) /\ Len(LineAt(q, e)) <= MAX_TEXT
IsNumber(q, e) == IsNodeCommand(LineAt(q, e)) /\ IsDigit(LineAt(q, e)[2])
Texts(q, n) == {[text |-> LineAt(q, b), at |-> b] : b \in {e \in Ends(q, n) : IsText(q, e)}}
Numbered(q, n) == {b \in Ends(q, n) : IsNumber(q, b)}

\* Bytes that come later change no line.
LEMMA EarlierLines ==
    ASSUME NEW p \in Seq(Byte), NEW q \in Seq(Byte), NEW n \in Nat,
           n <= Len(p), n <= Len(q), \A i \in 1 .. n : q[i] = p[i], Lined(p, n)
    PROVE  /\ Lined(q, n)
           /\ \A b \in 1 .. n : LineAt(q, b) = LineAt(p, b)
           /\ Texts(q, n) = Texts(p, n) /\ Numbered(q, n) = Numbered(p, n)
  <1>1. ASSUME NEW m \in 0 .. n, NEW s, Begins(p, m, s) PROVE Begins(q, m, s)
    BY <1>1 DEF Begins
  <1>2. ASSUME NEW b \in 1 .. n PROVE LineAt(q, b) = LineAt(p, b)
    <2>1. PICK s : Begins(p, b - 1, s)
      BY DEF Lined
    <2>2. b - 1 \in 0 .. n /\ b \in 1 .. Len(p) /\ b \in 1 .. Len(q) /\ s \in 0 .. b - 1
      BY <2>1 DEF Begins
    <2>3. Between(p, s, b)
      BY <2>1, <2>2, LineIs
    <2>4. Between(q, s, b)
      BY <1>1, <2>1, <2>2, LineIs
    <2>5. ASSUME NEW i \in 1 .. b - 1 - s PROVE q[s + i] = p[s + i]
      <3>1. s + i \in 1 .. n
        BY <2>2
      <3>2. QED  BY <3>1
    <2>6. QED  BY <2>3, <2>4, <2>5, SeqEqual DEF Between
  <1>3. Ends(q, n) = Ends(p, n) /\ Ends(p, n) \subseteq 1 .. n
    BY DEF Ends
  <1>4. \A e \in Ends(p, n) : IsText(q, e) = IsText(p, e) /\ IsNumber(q, e) = IsNumber(p, e)
    BY <1>2, <1>3 DEF IsText, IsNumber
  <1>5. Texts(q, n) = Texts(p, n)
    BY <1>2, <1>3, <1>4 DEF Texts
  <1>6. Numbered(q, n) = Numbered(p, n)
    BY <1>3, <1>4 DEF Numbered
  <1>7. Lined(q, n)
    BY <1>1 DEF Lined
  <1>8. QED  BY <1>2, <1>5, <1>6, <1>7

\* One byte more.
LEMMA OneMore ==
    ASSUME NEW q \in Seq(Byte), NEW n \in Nat, n + 1 <= Len(q), Lined(q, n)
    PROVE  /\ Lined(q, n + 1)
           /\ Texts(q, n + 1) = Texts(q, n) \cup
                 (IF q[n + 1] = "CR" /\ IsText(q, n + 1)
                    THEN {[text |-> LineAt(q, n + 1), at |-> n + 1]} ELSE {})
           /\ Numbered(q, n + 1) = Numbered(q, n) \cup
                 (IF q[n + 1] = "CR" /\ IsNumber(q, n + 1) THEN {n + 1} ELSE {})
  <1>1. Lined(q, n + 1)
    <2> SUFFICES ASSUME NEW m \in 0 .. n + 1 PROVE \E s : Begins(q, m, s)
      BY DEF Lined
    <2>1. CASE m \in 0 .. n  BY <2>1 DEF Lined
    <2>2. CASE m = n + 1 /\ q[n + 1] = "CR"
      <3>1. Begins(q, n + 1, n + 1)
        BY <2>2 DEF Begins
      <3>2. QED  BY <2>2, <3>1
    <2>3. CASE m = n + 1 /\ q[n + 1] # "CR"
      <3>1. PICK s : Begins(q, n, s)
        BY DEF Lined
      <3>2. Begins(q, n + 1, s)
        BY <2>3, <3>1 DEF Begins
      <3>3. QED  BY <2>3, <3>2
    <2>4. QED  BY <2>1, <2>2, <2>3
  <1>2. Ends(q, n + 1) = Ends(q, n) \cup (IF q[n + 1] = "CR" THEN {n + 1} ELSE {})
    BY DEF Ends
  <1>3. CASE q[n + 1] = "CR"
    <2>1. Ends(q, n + 1) = Ends(q, n) \cup {n + 1}
      BY <1>2, <1>3
    <2>2. QED  BY <1>1, <1>3, <2>1 DEF Texts, Numbered
  <1>4. CASE q[n + 1] # "CR"
    <2>1. Ends(q, n + 1) = Ends(q, n)
      BY <1>2, <1>4
    <2>2. QED  BY <1>1, <1>4, <2>1 DEF Texts, Numbered
  <1>5. QED  BY <1>3, <1>4

-----------------------------------------------------------------------------
(* The console. *)

\* line_buf holds what was read since byte s, as far as it has room.
Holds(s) ==
    /\ Len(line_buf) = IF taken - s < LINE_BUF_SIZE THEN taken - s ELSE LINE_BUF_SIZE - 1
    /\ \A i \in 1 .. Len(line_buf) : line_buf[i] = kept[s + i]

\* The device runs with the id of the last numbered line.
NodeOf(last) ==
    IF last = {} THEN node_id = BootId
    ELSE \E b \in last : /\ \A c \in last : c <= b
                         /\ node_id = Digit(LineAt(kept, b)[2])

Console ==
    /\ pc \in {"poll", "send"}
    /\ line_buf \in Seq(Byte) /\ Len(line_buf) < LINE_BUF_SIZE
    /\ pc = "poll" => \E s : Begins(kept, taken, s) /\ Holds(s)
    /\ pc = "send" => taken >= 1 /\ kept[taken] = "CR"

Done ==
    /\ sent = Texts(kept, taken)
    /\ NodeOf(Numbered(kept, taken))

CInv == Passes /\ Lined(kept, taken) /\ Console /\ Done

LEMMA Sizes ==
    /\ MAX_TEXT \in Nat /\ LINE_BUF_SIZE \in Nat /\ MAX_TEXT + 2 <= LINE_BUF_SIZE
    /\ 3 <= LINE_BUF_SIZE
  BY ConsoleAssumption DEF ConsoleAssumption

\* A line that the buffer does not hold whole is longer than any text, and is
\* told by its first two bytes all the same.
LEMMA BufferOfLine ==
    ASSUME NEW l \in Seq(Byte), NEW w \in Seq(Byte),
           Len(l) = IF Len(w) < LINE_BUF_SIZE THEN Len(w) ELSE LINE_BUF_SIZE - 1,
           \A i \in 1 .. Len(l) : l[i] = w[i]
    PROVE  /\ Len(w) <= MAX_TEXT \/ Len(l) <= MAX_TEXT => l = w
           /\ IsNodeCommand(l) <=> IsNodeCommand(w)
           /\ IsNodeCommand(l) => l[2] = w[2]
           /\ l = <<>> <=> w = <<>>
  <1>1. Len(l) \in Nat /\ Len(w) \in Nat
    OBVIOUS
  <1>2. Len(w) <= MAX_TEXT \/ Len(l) <= MAX_TEXT => l = w
    <2>1. Len(w) <= MAX_TEXT \/ Len(l) <= MAX_TEXT => Len(l) = Len(w)
      BY <1>1, Sizes
    <2>2. QED  BY <2>1, SeqEqual
  <1>3. /\ Len(l) >= 2 <=> Len(w) >= 2
        /\ Len(l) = 0 <=> Len(w) = 0
    BY <1>1, Sizes
  <1>4. Len(l) >= 2 => l[1] = w[1] /\ l[2] = w[2]
    BY <1>1
  <1>5. QED  BY <1>2, <1>3, <1>4, EmptySeq DEF IsNodeCommand

\* At a line end the buffer is that of the line.
LEMMA AtLineEnd ==
    ASSUME CInv, NEW s, Begins(kept, taken, s), Holds(s),
           taken + 1 \in 1 .. Len(kept)
    PROVE  /\ LineAt(kept, taken + 1) \in Seq(Byte)
           /\ Len(line_buf) = IF Len(LineAt(kept, taken + 1)) < LINE_BUF_SIZE
                                THEN Len(LineAt(kept, taken + 1)) ELSE LINE_BUF_SIZE - 1
           /\ \A i \in 1 .. Len(line_buf) : line_buf[i] = LineAt(kept, taken + 1)[i]
  <1>1. /\ kept \in Seq(Byte) /\ taken \in Nat /\ s \in 0 .. taken
        /\ (taken + 1) - 1 = taken
    BY DEF CInv, Passes, Begins
  <1>2. Between(kept, s, taken + 1)
    BY <1>1, LineIs
  <1>3. /\ Len(LineAt(kept, taken + 1)) = taken - s
        /\ \A i \in 1 .. taken - s : LineAt(kept, taken + 1)[i] = kept[s + i]
    BY <1>1, <1>2 DEF Between
  <1>4. \A i \in 1 .. Len(line_buf) : i \in 1 .. taken - s
    BY <1>1, Sizes DEF Holds
  <1>5. QED  BY <1>2, <1>3, <1>4 DEF Between, Holds

\* What a step of the loop that reads the byte b does to the histories.
LEMMA ReadKeeps ==
    ASSUME CInv, NEW b, Get(b)
    PROVE  /\ Passes' /\ Lined(kept, taken)' /\ kept' = kept /\ taken' = taken + 1
           /\ b \in Byte /\ kept[taken + 1] = b /\ taken + 1 \in 1 .. Len(kept)
           /\ taken \in Nat /\ kept \in Seq(Byte)
           /\ Texts(kept, taken)' = Texts(kept, taken) \cup
                 (IF b = "CR" /\ IsText(kept, taken + 1)
                    THEN {[text |-> LineAt(kept, taken + 1), at |-> taken + 1]} ELSE {})
           /\ Numbered(kept, taken)' = Numbered(kept, taken) \cup
                 (IF b = "CR" /\ IsNumber(kept, taken + 1) THEN {taken + 1} ELSE {})
  <1>1. /\ Passes' /\ kept' = kept /\ taken' = taken + 1
        /\ b \in Byte /\ kept[taken + 1] = b /\ taken + 1 \in 1 .. Len(kept)
    BY GetKeepsPasses DEF CInv
  <1>2. taken \in Nat /\ kept \in Seq(Byte) /\ taken + 1 <= Len(kept)
    BY <1>1 DEF CInv, Passes
  <1>3. /\ Lined(kept, taken + 1)
        /\ Texts(kept, taken + 1) = Texts(kept, taken) \cup
              (IF kept[taken + 1] = "CR" /\ IsText(kept, taken + 1)
                 THEN {[text |-> LineAt(kept, taken + 1), at |-> taken + 1]} ELSE {})
        /\ Numbered(kept, taken + 1) = Numbered(kept, taken) \cup
              (IF kept[taken + 1] = "CR" /\ IsNumber(kept, taken + 1) THEN {taken + 1} ELSE {})
    BY <1>2, OneMore DEF CInv
  <1>4. /\ Lined(kept, taken)' = Lined(kept, taken + 1)
        /\ Texts(kept, taken)' = Texts(kept, taken + 1)
        /\ Numbered(kept, taken)' = Numbered(kept, taken + 1)
    BY <1>1 DEF Lined, Texts, Numbered, Ends, Begins, IsText, IsNumber
  <1>5. QED  BY <1>1, <1>2, <1>3, <1>4

\* The console after a byte that ends no line.
LEMMA CollectKeeps ==
    ASSUME CInv, Collect
    PROVE  CInv'
  <1>1. PICK b \in Byte \ {"CR"} :
           Get(b) /\ line_buf' = IF Room THEN Append(line_buf, b) ELSE line_buf
    BY DEF Collect
  <1>2. /\ Passes' /\ Lined(kept, taken)' /\ kept' = kept /\ taken' = taken + 1
        /\ kept[taken + 1] = b /\ taken \in Nat /\ kept \in Seq(Byte)
        /\ Texts(kept, taken)' = Texts(kept, taken)
        /\ Numbered(kept, taken)' = Numbered(kept, taken)
    BY <1>1, ReadKeeps
  <1>3. UNCHANGED <<node_id, pc, sent>> /\ pc = "poll"
    BY <1>1 DEF Collect, Get
  <1>4. PICK s : Begins(kept, taken, s) /\ Holds(s)
    BY <1>3 DEF CInv, Console
  <1>5. Begins(kept, taken, s)'
    BY <1>1, <1>2, <1>4 DEF Begins
  <1>6. /\ Holds(s)'
        /\ line_buf' \in Seq(Byte) /\ Len(line_buf') < LINE_BUF_SIZE
    <2>1. line_buf \in Seq(Byte) /\ s \in 0 .. taken /\ Len(line_buf) \in Nat
      BY <1>4 DEF CInv, Console, Begins
    <2>2. CASE Room
      <3>1. /\ line_buf' \in Seq(Byte) /\ Len(line_buf') = Len(line_buf) + 1
            /\ \A i \in 1 .. Len(line_buf) : line_buf'[i] = line_buf[i]
            /\ line_buf'[Len(line_buf) + 1] = b
        BY <1>1, <2>1, <2>2, AppendProperties
      <3>2. Len(line_buf) = taken - s /\ Len(line_buf) < LINE_BUF_SIZE - 1
        BY <1>2, <1>4, <2>1, <2>2, Sizes DEF Room, Holds
      <3>3. \A i \in 1 .. Len(line_buf') : line_buf'[i] = kept[s + i]
        <4>1. s + (Len(line_buf) + 1) = taken + 1
          BY <1>2, <2>1, <3>2
        <4>2. line_buf'[Len(line_buf) + 1] = kept[s + (Len(line_buf) + 1)]
          BY <1>2, <3>1, <4>1
        <4>3. \A i \in 1 .. Len(line_buf') : i \in 1 .. Len(line_buf) \/ i = Len(line_buf) + 1
          BY <2>1, <3>1
        <4>4. QED  BY <1>4, <3>1, <4>2, <4>3 DEF Holds
      <3>4. QED  BY <1>2, <2>1, <3>1, <3>2, <3>3, Sizes DEF Holds
    <2>3. CASE ~Room
      <3>1. line_buf' = line_buf /\ taken - s >= LINE_BUF_SIZE - 1
            /\ Len(line_buf) = LINE_BUF_SIZE - 1
        BY <1>1, <1>2, <1>4, <2>1, <2>3, Sizes DEF Room, Holds
      <3>2. QED  BY <1>2, <1>4, <2>1, <3>1, Sizes DEF Holds
    <2>4. QED  BY <2>2, <2>3
  <1>7. Console'
    BY <1>3, <1>5, <1>6 DEF Console
  <1>8. Done'
    BY <1>2, <1>3 DEF CInv, Done, NodeOf
  <1>9. QED  BY <1>2, <1>7, <1>8 DEF CInv

\* The id after a line end.
LEMMA NodeAfter ==
    ASSUME CInv, Get("CR"),
           IF IsNumber(kept, taken + 1) THEN node_id' = Digit(LineAt(kept, taken + 1)[2])
                                        ELSE node_id' = node_id
    PROVE  NodeOf(Numbered(kept, taken))'
  <1>1. /\ kept' = kept /\ taken' = taken + 1 /\ taken \in Nat
        /\ Numbered(kept, taken)' = Numbered(kept, taken) \cup
              (IF IsNumber(kept, taken + 1) THEN {taken + 1} ELSE {})
    BY ReadKeeps
  <1>2. CASE IsNumber(kept, taken + 1)
    <2>1. Numbered(kept, taken)' = Numbered(kept, taken) \cup {taken + 1}
      BY <1>1, <1>2
    <2>2. \A c \in Numbered(kept, taken)' : c <= taken + 1
      BY <1>1, <2>1 DEF Numbered, Ends
    <2>3. node_id' = Digit(LineAt(kept', taken + 1)[2])
      BY <1>1, <1>2
    <2>4. QED  BY <2>1, <2>2, <2>3 DEF NodeOf
  <1>3. CASE ~IsNumber(kept, taken + 1)
    <2>1. Numbered(kept, taken)' = Numbered(kept, taken) /\ node_id' = node_id
      BY <1>1, <1>3
    <2>2. QED  BY <1>1, <2>1 DEF CInv, Done, NodeOf
  <1>4. QED  BY <1>2, <1>3

\* The buffer is emptied for the next line.
LEMMA FreshLine ==
    ASSUME CInv, Get("CR"), line_buf' = <<>>, pc' = "poll"
    PROVE  Console'
  <1>1. /\ kept' = kept /\ taken' = taken + 1 /\ taken \in Nat /\ kept[taken + 1] = "CR"
    BY ReadKeeps
  <1>2. PICK s \in Nat : s = taken + 1
    BY <1>1
  <1>3. Begins(kept, taken, s)'
    BY <1>1, <1>2 DEF Begins
  <1>4. Holds(s)'
    BY <1>1, <1>2, Sizes DEF Holds
  <1>5. QED  BY <1>3, <1>4, Sizes DEF Console

\* A line end, whatever the line is.
LEMMA LineEndKeeps ==
    ASSUME CInv, EmptyLine \/ NodeCommand \/ Report \/ SendLine
    PROVE  CInv'
  <1> DEFINE l == LineAt(kept, taken + 1)
  <1>1. Get("CR") /\ pc = "poll"
    BY DEF EmptyLine, NodeCommand, Report, SendLine, Get
  <1>2. /\ Passes' /\ Lined(kept, taken)' /\ kept' = kept /\ taken' = taken + 1
        /\ taken \in Nat /\ taken + 1 \in 1 .. Len(kept) /\ kept[taken + 1] = "CR"
        /\ Texts(kept, taken)' = Texts(kept, taken) \cup
              (IF IsText(kept, taken + 1) THEN {[text |-> l, at |-> taken + 1]} ELSE {})
    BY <1>1, ReadKeeps
  <1>3. PICK s : Begins(kept, taken, s) /\ Holds(s)
    BY <1>1 DEF CInv, Console
  <1>4. /\ Len(l) <= MAX_TEXT \/ Len(line_buf) <= MAX_TEXT => line_buf = l
        /\ IsNodeCommand(line_buf) <=> IsNodeCommand(l)
        /\ IsNodeCommand(line_buf) => line_buf[2] = l[2]
        /\ line_buf = <<>> <=> l = <<>>
    <2>1. /\ l \in Seq(Byte) /\ line_buf \in Seq(Byte)
          /\ Len(line_buf) = IF Len(l) < LINE_BUF_SIZE THEN Len(l) ELSE LINE_BUF_SIZE - 1
          /\ \A i \in 1 .. Len(line_buf) : line_buf[i] = l[i]
      BY <1>2, <1>3, AtLineEnd DEF CInv, Console
    <2> HIDE DEF l
    <2>2. QED  BY <2>1, BufferOfLine
  <1>5. CASE EmptyLine
    <2>1. /\ line_buf = <<>> /\ UNCHANGED <<line_buf, node_id, pc, sent>>
      BY <1>5 DEF EmptyLine
    <2>2. ~IsText(kept, taken + 1) /\ ~IsNumber(kept, taken + 1)
      BY <1>4, <2>1 DEF IsText, IsNumber, IsTextLine, IsNodeCommand
    <2>3. Console'
      BY <1>1, <2>1, FreshLine
    <2>4. NodeOf(Numbered(kept, taken))'
      BY <1>1, <2>1, <2>2, NodeAfter
    <2>5. QED  BY <1>2, <2>1, <2>2, <2>3, <2>4 DEF CInv, Done
  <1>6. CASE NodeCommand
    <2>1. /\ IsNodeCommand(line_buf) /\ line_buf' = <<>> /\ UNCHANGED <<pc, sent>>
          /\ node_id' = IF IsDigit(line_buf[2]) THEN Digit(line_buf[2]) ELSE node_id
      BY <1>6 DEF NodeCommand
    <2>2. ~IsText(kept, taken + 1) /\ (IsNumber(kept, taken + 1) <=> IsDigit(line_buf[2]))
      BY <1>4, <2>1 DEF IsText, IsNumber, IsTextLine
    <2>3. Console'
      BY <1>1, <2>1, FreshLine
    <2>4. NodeOf(Numbered(kept, taken))'
      BY <1>1, <1>4, <2>1, <2>2, NodeAfter
    <2>5. QED  BY <1>2, <2>1, <2>2, <2>3, <2>4 DEF CInv, Done
  <1>7. CASE Report
    <2>1. line_buf \in Reports /\ line_buf' = <<>> /\ UNCHANGED <<node_id, pc, sent>>
      BY <1>7 DEF Report
    <2>2. ~IsNodeCommand(line_buf)
      BY <2>1, ConsoleAssumption DEF ConsoleAssumption, IsNodeCommand
    <2>3. ~IsText(kept, taken + 1) /\ ~IsNumber(kept, taken + 1)
      BY <1>4, <2>1, <2>2 DEF IsText, IsNumber, IsTextLine
    <2>4. Console'
      BY <1>1, <2>1, FreshLine
    <2>5. NodeOf(Numbered(kept, taken))'
      BY <1>1, <2>1, <2>3, NodeAfter
    <2>6. QED  BY <1>2, <2>1, <2>3, <2>4, <2>5 DEF CInv, Done
  <1>8. CASE SendLine
    <2>1. IsTextLine(line_buf) /\ UNCHANGED node_id
      BY <1>8 DEF SendLine
    <2>2. ~IsNumber(kept, taken + 1)
      BY <1>4, <2>1 DEF IsNumber, IsTextLine
    <2>3. NodeOf(Numbered(kept, taken))'
      BY <1>1, <2>1, <2>2, NodeAfter
    <2>4. CASE Len(line_buf) <= MAX_TEXT
      <3>1. /\ sent' = sent \cup {[text |-> line_buf, at |-> taken + 1]}
            /\ pc' = "send" /\ line_buf' = line_buf
        BY <1>2, <1>8, <2>4, Sizes DEF SendLine, CInv, Console
      <3>2. IsText(kept, taken + 1) /\ line_buf = l
        BY <1>4, <2>1, <2>4 DEF IsText
      <3>3. Console'
        BY <1>2, <3>1 DEF CInv, Console
      <3>4. QED  BY <1>2, <2>3, <3>1, <3>2, <3>3 DEF CInv, Done
    <2>5. CASE ~(Len(line_buf) <= MAX_TEXT)
      <3>1. line_buf' = <<>> /\ UNCHANGED <<pc, sent>>
        BY <1>8, <2>5 DEF SendLine
      <3>2. ~IsText(kept, taken + 1)
        BY <1>4, <2>5 DEF IsText
      <3>3. Console'
        BY <1>1, <3>1, FreshLine
      <3>4. QED  BY <1>2, <2>3, <3>1, <3>2, <3>3 DEF CInv, Done
    <2>6. QED  BY <2>4, <2>5
  <1>9. QED  BY <1>5, <1>6, <1>7, <1>8

\* The steps that read no byte.
LEMMA OthersKeep ==
    ASSUME CInv, (\E b \in Byte : Type(b)) \/ Getting \/ Sent
    PROVE  CInv'
  <1>1. CASE \E b \in Byte : Type(b)
    <2>1. PICK b \in Byte : Type(b)
      BY <1>1
    <2>2. /\ Passes' /\ taken' = taken /\ taken <= Len(kept) /\ taken <= Len(kept')
          /\ \A i \in 1 .. taken : kept'[i] = kept[i]
          /\ taken \in Nat /\ kept \in Seq(Byte) /\ kept' \in Seq(Byte)
      BY <2>1, TypeKeepsPasses DEF CInv, Passes
    <2>3. UNCHANGED <<line_buf, node_id, pc, sent>>
      BY <2>1 DEF Type
    <2>4. /\ Lined(kept', taken)
          /\ \A b2 \in 1 .. taken : LineAt(kept', b2) = LineAt(kept, b2)
          /\ Texts(kept', taken) = Texts(kept, taken)
          /\ Numbered(kept', taken) = Numbered(kept, taken)
      BY <2>2, EarlierLines DEF CInv
    <2>5. Lined(kept, taken)'
      BY <2>2, <2>4 DEF Lined, Begins
    <2>6. Done'
      <3>1. Texts(kept, taken)' = Texts(kept', taken) /\ Numbered(kept, taken)' = Numbered(kept', taken)
        BY <2>2 DEF Texts, Numbered, Ends, IsText, IsNumber
      <3>2. Numbered(kept, taken) \subseteq 1 .. taken
        BY DEF Numbered, Ends
      <3>3. QED  BY <2>2, <2>3, <2>4, <3>1, <3>2 DEF CInv, Done, NodeOf
    <2>7. Console'
      <3>1. ASSUME NEW s, Begins(kept, taken, s), Holds(s) PROVE Begins(kept, taken, s)' /\ Holds(s)'
        <4>1. s \in 0 .. taken
          BY <3>1 DEF Begins
        <4>2. Begins(kept, taken, s)'
          BY <2>2, <3>1, <4>1 DEF Begins
        <4>3. \A i \in 1 .. Len(line_buf) : s + i \in 1 .. taken
          BY <2>2, <3>1, <4>1, Sizes DEF Holds
        <4>4. QED  BY <2>2, <2>3, <3>1, <4>2, <4>3 DEF Holds
      <3>2. QED  BY <2>2, <2>3, <3>1 DEF CInv, Console
    <2>8. QED  BY <2>2, <2>5, <2>6, <2>7 DEF CInv
  <1>2. CASE Getting \/ Sent
    <2>1. UNCHANGED <<node_id, kept, taken, sent>>
      BY <1>2 DEF Getting, Sent
    <2>2. RInv' /\ UNCHANGED <<Contents, Count>>
      <3>1. CASE Getting  BY <3>1, GetKeeps DEF Getting, CInv, Passes
      <3>2. CASE Sent
        BY <3>2 DEF Sent, ring, CInv, Passes, RInv, RingTypeOK, Contents, Count
      <3>3. QED  BY <1>2, <3>1, <3>2
    <2>3. Passes' /\ Lined(kept, taken)' /\ Done'
      BY <2>1, <2>2 DEF CInv, Passes, Lined, Begins, Done, NodeOf, Texts, Numbered, Ends,
                        IsText, IsNumber
    <2>4. Console'
      <3>1. CASE Getting
        BY <2>1, <3>1 DEF Getting, CInv, Console, Begins, Holds
      <3>2. CASE Sent
        <4>1. pc' = "poll" /\ line_buf' = <<>> /\ taken \in Nat /\ taken >= 1 /\ kept[taken] = "CR"
          BY <3>2 DEF Sent, CInv, Passes, Console
        <4>2. Begins(kept, taken, taken)' /\ Holds(taken)'
          BY <2>1, <4>1, Sizes DEF Begins, Holds
        <4>3. QED  BY <2>1, <4>1, <4>2, Sizes DEF Console
      <3>3. QED  BY <1>2, <3>1, <3>2
    <2>5. QED  BY <2>3, <2>4 DEF CInv
  <1>3. QED  BY <1>1, <1>2

-----------------------------------------------------------------------------
LEMMA InitConsole == Init => CInv
  <1> SUFFICES ASSUME Init PROVE CInv
    OBVIOUS
  <1>1. RInv /\ rx_head = 0 /\ rx_tail = 0
    BY RingAssumption DEF Init, RingInit, RInv, RingTypeOK, Slots, RingAssumption
  <1>2. Count = 0
    BY <1>1, Counted DEF RInv, Indices
  <1>3. kept = <<>> /\ taken = 0 /\ line_buf = <<>> /\ node_id = BootId /\ pc = "poll" /\ sent = {}
    BY DEF Init
  <1>4. Passes
    BY <1>1, <1>2, <1>3 DEF Passes
  <1>5. Begins(kept, taken, 0) /\ Holds(0) /\ Lined(kept, taken)
    BY <1>3, Sizes DEF Begins, Holds, Lined
  <1>6. Console
    BY <1>3, <1>5, Sizes DEF Console
  <1>7. Ends(kept, taken) = {}
    BY <1>3 DEF Ends
  <1>8. Done
    BY <1>3, <1>7 DEF Done, Texts, Numbered, NodeOf
  <1>9. QED  BY <1>4, <1>5, <1>6, <1>8 DEF CInv

LEMMA StepConsole == CInv /\ [Next]_vars => CInv'
  <1> SUFFICES ASSUME CInv, [Next]_vars PROVE CInv'
    OBVIOUS
  <1>1. CASE Next
    BY <1>1, CollectKeeps, LineEndKeeps, OthersKeep DEF Next, Poll
  <1>2. CASE UNCHANGED vars
    <2>1. RInv' /\ UNCHANGED <<Contents, Count, line_buf, node_id, pc, kept, taken, sent>>
      BY <1>2 DEF vars, ring, CInv, Passes, RInv, RingTypeOK, Contents, Count
    <2>2. Passes' /\ Lined(kept, taken)' /\ Done'
      BY <2>1 DEF CInv, Passes, Lined, Begins, Done, NodeOf, Texts, Numbered, Ends,
                  IsText, IsNumber
    <2>3. Console'
      BY <2>1 DEF CInv, Console, Begins, Holds
    <2>4. QED  BY <2>2, <2>3 DEF CInv
  <1>3. QED  BY <1>1, <1>2

LEMMA ConsoleInductive == FairSpec => []CInv
  BY InitConsole, StepConsole, PTL DEF FairSpec

\* What the code makes of a line, and what the documents say of it.
LEMMA Lines ==
    ASSUME NEW l
    PROVE  /\ IsTextLine(l) <=> l # <<>> /\ ~IsCommand(l) /\ ~IsDisputed(l)
           /\ (IsNodeCommand(l) /\ IsDigit(l[2])) <=>
                SetsNodeId(l) \/ (IsDisputed(l) /\ IsDigit(l[2]))
  BY DEF IsTextLine, IsCommand, IsDisputed, IsNodeCommand, SetsNodeId

\* Disputed lines apart, the texts that are sent are the lines that entered the
\* ring and are no command, each once, whole and unchanged, for every size of ring
\* and line buffer, whatever is typed and whenever the interrupt comes
\* (main_loop.c:136-183).
THEOREM TextLinesAreSent == FairSpec => []SentAreTheTextLines
  <1>1. CInv => SentAreTheTextLines
    <2> SUFFICES ASSUME CInv PROVE SentAreTheTextLines
      OBVIOUS
    <2>1. sent = Texts(kept, taken)
      BY DEF CInv, Done
    <2>2. \A e \in Ends(kept, taken) :
             IsText(kept, e) <=> LET l == LineAt(kept, e)
                                 IN  Fits(l) /\ ~IsCommand(l) /\ ~IsDisputed(l)
      BY Lines DEF IsText, Fits
    <2>3. \A e \in sent : ~IsDisputed(e.text)
      BY <2>1, Lines DEF Texts, IsText
    <2>4. QED  BY <2>1, <2>2, <2>3 DEF Texts, SentAreTheTextLines
  <1>2. QED  BY ConsoleInductive, <1>1, PTL

\* A device runs with the id of the last line N1 .. N9 that it read; only a
\* longer line that begins like one can change it (main_loop.c:143-150).
THEOREM LastIdCounts == FairSpec => []LastNodeIdCounts
  <1>1. CInv => LastNodeIdCounts
    <2> SUFFICES ASSUME CInv PROVE LastNodeIdCounts
      OBVIOUS
    <2>1. NodeOf(Numbered(kept, taken))
      BY DEF CInv, Done
    <2> DEFINE ids    == {b \in Ends(kept, taken) : SetsNodeId(LineAt(kept, b))}
               longer == {b \in Ends(kept, taken) :
                            LET l == LineAt(kept, b) IN IsDisputed(l) /\ IsDigit(l[2])}
    <2>2. Numbered(kept, taken) = ids \cup longer
      <3>1. ASSUME NEW b \in Ends(kept, taken)
            PROVE  IsNumber(kept, b) <=> b \in ids \cup longer
        <4> DEFINE l == LineAt(kept, b)
        <4>1. b \in ids \cup longer <=> SetsNodeId(l) \/ (IsDisputed(l) /\ IsDigit(l[2]))
          OBVIOUS
        <4>2. IsNumber(kept, b) <=> IsNodeCommand(l) /\ IsDigit(l[2])
          BY DEF IsNumber
        <4> HIDE DEF l
        <4>3. QED  BY <4>1, <4>2, Lines
      <3>2. ids \cup longer \subseteq Ends(kept, taken)
        OBVIOUS
      <3> HIDE DEF ids, longer
      <3>3. QED  BY <3>1, <3>2 DEF Numbered
    <2>3. ids \cup longer = {} => node_id = BootId
      BY <2>1, <2>2 DEF NodeOf
    <2>4. ASSUME NEW b \in ids, \A c \in ids \cup longer : c <= b
          PROVE  node_id = Digit(LineAt(kept, b)[2])
      <3>1. PICK m \in ids \cup longer :
                /\ \A c \in ids \cup longer : c <= m
                /\ node_id = Digit(LineAt(kept, m)[2])
        BY <2>1, <2>2, <2>4 DEF NodeOf
      <3>2. m \in Nat /\ b \in Nat /\ m <= b /\ b <= m
        BY <2>4, <3>1 DEF Ends
      <3>3. m = b
        BY <3>2
      <3>4. QED  BY <3>1, <3>3
    <2>5. QED  BY <2>3, <2>4 DEF LastNodeIdCounts
  <1>2. QED  BY ConsoleInductive, <1>1, PTL

\* The line never outgrows its buffer, every byte that entered the ring is read,
\* or still in the ring, in its order, and no text is longer than a packet takes
\* (serial_io.c:18-32, main_loop.c:136-183).
THEOREM ConsoleTypeCorrect == FairSpec => []TypeOK
  <1>1. CInv => TypeOK
    <2> SUFFICES ASSUME CInv PROVE TypeOK
      OBVIOUS
    <2>1. /\ RingTypeOK /\ kept \in Seq(Byte) /\ taken \in Nat /\ Len(kept) = taken + Count
          /\ Count \in Nat /\ Contents \in Seq(Byte) /\ Len(Contents) = Count
      BY RingAssumption, Counted, ContentsIs
         DEF CInv, Passes, RInv, Indices, InOrder, RingAssumption
    <2>2. kept = SubSeq(kept, 1, taken) \o Contents
      <3>1. \A i \in 1 .. taken : kept[i] \in Byte
        BY <2>1
      <3>2. /\ SubSeq(kept, 1, taken) \in Seq(Byte) /\ Len(SubSeq(kept, 1, taken)) = taken
            /\ \A i \in 1 .. taken : SubSeq(kept, 1, taken)[i] = kept[i]
        BY <2>1, <3>1, SubSeqProperties
      <3> DEFINE whole == SubSeq(kept, 1, taken) \o Contents
      <3>3. /\ whole \in Seq(Byte) /\ Len(whole) = taken + Count
            /\ \A i \in 1 .. taken + Count :
                  whole[i] = IF i <= taken THEN kept[i] ELSE Contents[i - taken]
        BY <2>1, <3>2, ConcatProperties
      <3>4. ASSUME NEW i \in 1 .. taken + Count, ~(i <= taken) PROVE Contents[i - taken] = kept[i]
        <4>1. i - taken \in 1 .. Count /\ taken + (i - taken) = i
          BY <2>1, <3>4
        <4>2. QED  BY <4>1 DEF CInv, Passes
      <3> HIDE DEF whole
      <3>5. \A i \in 1 .. Len(kept) : kept[i] = whole[i]
        BY <2>1, <3>3, <3>4
      <3>6. kept = whole
        BY <2>1, <3>3, <3>5, SeqEqual
      <3>7. QED  BY <3>6 DEF whole
    <2>3. node_id \in {BootId} \cup 1 .. 9
      <3>1. ASSUME NEW c, IsDigit(c) PROVE Digit(c) \in 1 .. 9
        BY <3>1 DEF IsDigit, Digit
      <3>2. QED  BY <3>1 DEF CInv, Done, NodeOf, Numbered, IsNumber
    <2>4. \A e \in sent : Len(e.text) <= MAX_TEXT /\ e.at <= taken
      BY <2>1 DEF CInv, Done, Texts, IsText, Ends
    <2>5. taken \in 0 .. Len(kept)
      BY <2>1
    <2>6. QED  BY <2>1, <2>2, <2>3, <2>4, <2>5 DEF CInv, Console, TypeOK
  <1>2. QED  BY ConsoleInductive, <1>1, PTL

\* The ring between interrupt and main loop is the bounded queue of ByteFifo:
\* nothing lost but what is dropped when it is full, nothing twice, nothing out
\* of order, for every size and wherever the interrupt falls into
\* serial_get_byte (serial_io.c:18-32).
THEOREM RingIsFifo == FairSpec => Fifo!Spec
  <1>1. Init => Fifo!Init
    <2> SUFFICES ASSUME Init PROVE Fifo!Init
      OBVIOUS
    <2>1. RingTypeOK /\ rx_head = 0 /\ rx_tail = 0 /\ out = <<>>
      BY InitConsole DEF CInv, Passes, RInv, Init, RingInit
    <2>2. Contents \in Seq(Byte) /\ Len(Contents) = 0
      BY <2>1, Counted, ContentsIs DEF Indices, InOrder
    <2>3. QED  BY <2>1, <2>2, EmptySeq DEF Fifo!Init
  <1>2. CInv /\ [Next]_vars => [Fifo!Next]_<<Contents, out>>
    <2> SUFFICES ASSUME CInv, [Next]_vars PROVE [Fifo!Next]_<<Contents, out>>
      OBVIOUS
    <2>r. RInv
      BY DEF CInv, Passes
    <2>1. CASE \E b \in Byte : Type(b)
      <3>1. PICK b \in Byte : Type(b)
        BY <2>1
      <3>2. /\ out' = out
            /\ \/ Len(Contents) < RX_RING_SIZE - 1 /\ Contents' = Append(Contents, b)
               \/ Len(Contents) = RX_RING_SIZE - 1 /\ Contents' = Contents
        BY <2>r, <3>1, PushMaps DEF Type
      <3>3. Fifo!Push(b) \/ Fifo!Drop(b)
        BY <3>2 DEF Fifo!Push, Fifo!Drop
      <3>4. QED  BY <3>3 DEF Fifo!Next
    <2>2. CASE \E b : Get(b)
      <3>1. GetAdvance
        BY <2>2 DEF Get
      <3>2. /\ Contents # <<>> /\ byte = Contents[1]
            /\ out' = <<byte>> /\ Contents' = Tail(Contents)
        BY <2>r, <3>1, AdvanceMaps
      <3>3. Head(Contents) = Contents[1]
        OBVIOUS
      <3>4. Fifo!Pop
        BY <3>2, <3>3 DEF Fifo!Pop
      <3>5. QED  BY <3>4 DEF Fifo!Next
    <2>3. CASE Getting
      BY <2>r, <2>3, GetKeeps DEF Getting
    <2>4. CASE Sent \/ UNCHANGED vars
      BY <2>4 DEF Sent, vars, ring, Contents, Count
    <2>5. QED
      BY <2>1, <2>2, <2>3, <2>4
         DEF Next, Poll, Collect, EmptyLine, NodeCommand, Report, SendLine
  <1>3. QED  BY ConsoleInductive, <1>1, <1>2, PTL DEF FairSpec, Fifo!Spec
=============================================================================
