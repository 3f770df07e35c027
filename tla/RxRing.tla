------------------------------- MODULE RxRing -------------------------------
(***************************************************************************)
(* The receive ring of Core/serial_io.c: serial_push_byte runs in the      *)
(* USART1 interrupt and preempts serial_get_byte of the main loop between  *)
(* any two of its accesses to the shared variables, without a lock.  The   *)
(* interrupt is not preempted by the main loop, so a push is one step; a   *)
(* get is split where it reads or writes rx_tail, rx_head and rx_ring.     *)
(* Module SerialConsole has the main loop that calls it.                   *)
(***************************************************************************)
EXTENDS Integers, Sequences

CONSTANTS RX_RING_SIZE, Byte, ZeroByte

ASSUME RingAssumption == RX_RING_SIZE \in Nat \ {0} /\ ZeroByte \in Byte

VARIABLES rx_ring, rx_head, rx_tail,
          get,      \* "idle", or where serial_get_byte is: "read", "advance"
          byte,     \* *out of the call in progress
          out       \* history: the byte returned last, as a sequence

ring == <<rx_ring, rx_head, rx_tail, get, byte, out>>

Slots == 0 .. RX_RING_SIZE - 1

Succ(i) == (i + 1) % RX_RING_SIZE

RingInit ==
    /\ rx_ring = [i \in Slots |-> ZeroByte]
    /\ rx_head = 0 /\ rx_tail = 0
    /\ get = "idle" /\ byte = ZeroByte /\ out = <<>>

\* Mutation: the last free slot is used, so that full looks like empty.
PushIntoLastSlot(b) ==
    /\ rx_ring' = [rx_ring EXCEPT ![rx_head] = b]
    /\ rx_head' = Succ(rx_head)
    /\ UNCHANGED <<rx_tail, get, byte, out>>

\* The byte is dropped when it would make the ring look empty.
serial_push_byte(b) ==
    /\ IF Succ(rx_head) # rx_tail
         THEN /\ rx_ring' = [rx_ring EXCEPT ![rx_head] = b]
              /\ rx_head' = Succ(rx_head)
         ELSE UNCHANGED <<rx_ring, rx_head>>
    /\ UNCHANGED <<rx_tail, get, byte, out>>

\* rx_tail == rx_head: nothing to return.
GetEmpty ==
    /\ get = "idle" /\ rx_tail = rx_head
    /\ UNCHANGED ring

GetCheck ==
    /\ get = "idle" /\ rx_tail # rx_head
    /\ get' = "read"
    /\ UNCHANGED <<rx_ring, rx_head, rx_tail, byte, out>>

GetRead ==
    /\ get = "read"
    /\ byte' = rx_ring[rx_tail]
    /\ get' = "advance"
    /\ UNCHANGED <<rx_ring, rx_head, rx_tail, out>>

GetAdvance ==
    /\ get = "advance"
    /\ rx_tail' = Succ(rx_tail)
    /\ out' = <<byte>>
    /\ get' = "idle"
    /\ UNCHANGED <<rx_ring, rx_head, byte>>

serial_get_byte == GetEmpty \/ GetCheck \/ GetRead \/ GetAdvance

-----------------------------------------------------------------------------
\* The bytes between the tail and the head, oldest first.
Count == (rx_head - rx_tail + RX_RING_SIZE) % RX_RING_SIZE
Contents == [i \in 1 .. Count |-> rx_ring[(rx_tail + i - 1) % RX_RING_SIZE]]

RingTypeOK ==
    /\ rx_ring \in [Slots -> Byte]
    /\ rx_head \in Slots /\ rx_tail \in Slots
    /\ get \in {"idle", "read", "advance"}
    /\ byte \in Byte
    /\ out \in {<<>>} \cup {<<b>> : b \in Byte}

Fifo == INSTANCE ByteFifo WITH queue <- Contents, Capacity <- RX_RING_SIZE - 1

\* The ring is a queue of RX_RING_SIZE - 1 bytes: nothing lost but what is
\* dropped when it is full, nothing twice, nothing out of order, and every
\* byte taken in is delivered.
ImplementsFifo == Fifo!FairSpec
=============================================================================
