---------------------------- MODULE RadioDriver -----------------------------
(***************************************************************************)
(* Radio/radio_stm32wl.c after boot: stm32wl_radio_tx and                  *)
(* stm32wl_radio_rx_poll, called by the main loop one at a time, against   *)
(* the radio and its interrupt.  A call is split at every HAL command      *)
(* between which the radio can act: a frame may complete as long as the    *)
(* radio is in RX, also after the driver masked the interrupt.             *)
(*                                                                         *)
(* The radio is external: an SX1262 in continuous RX writes each frame to  *)
(* its 256-byte buffer after the previous one, from the RX base on since   *)
(* the last SET_RX, and reports length and start of the latest frame.      *)
(* Frames are numbered in the order they complete; a cell of the buffer    *)
(* holds the number of the frame it belongs to, 0 for bytes of a           *)
(* transmission or none.  The interrupt line is level triggered: as long   *)
(* as the radio has an unmasked flag up the NVIC sees it pending, and an   *)
(* enabled pending interrupt runs before the next step of the main loop.   *)
(* The commands whose result the code tests may fail, and SET_STANDBY and  *)
(* SET_RX, whose result it ignores; one that fails has no effect on the    *)
(* radio.  The other commands whose result is ignored                      *)
(* (CLR_IRQSTATUS, SET_PACKETPARAMS, the power amplifier) are assumed to   *)
(* succeed, as are those of the interrupt handler.                         *)
(***************************************************************************)
EXTENDS Integers, RfCtrl

CONSTANTS BUF_SIZE,     \* bytes of the radio's buffer (256)
          RX_BASE,      \* RxBase (128); TxBase is 0
          FrameLens,    \* lengths of the frames on the air
          TxLens,       \* lengths of the frames sent
          Signal,       \* Signal[n]: RSSI and SNR bytes of frame n
          Failing,      \* the sets of HAL commands that may fail together
          MAX_FRAMES,   \* bound: frames that complete
          MAX_TX,       \* bound: calls of tx
          MAX_LATE      \* bound: frames that complete during one call; a LoRa
                        \* frame takes longer than the commands of a call

Commands == {"SetStandby", "WriteBuffer", "SetTx", "SetRx", "RxBufferStatus",
             "ReadBuffer", "PacketStatus"}

ASSUME RadioAssumption ==
    /\ BUF_SIZE \in Nat /\ RX_BASE \in 0 .. BUF_SIZE - 1
    /\ FrameLens \subseteq 0 .. BUF_SIZE - 1
    /\ TxLens \subseteq 1 .. BUF_SIZE
    /\ Failing \subseteq SUBSET Commands /\ {} \in Failing
    /\ MAX_FRAMES \in Nat /\ MAX_TX \in Nat /\ MAX_LATE \in Nat
    /\ Signal \in [1 .. MAX_FRAMES -> [rssi : 0 .. 255, snr : 0 .. 255]]

VARIABLES
    \* the radio
    mode,           \* "RX", "STANDBY" or "TX"
    irq,            \* its interrupt flags
    mem,            \* its buffer
    rxptr,          \* where it writes the next frame
    status,         \* the latest frame
    \* the board and the driver
    rf,             \* the pins of the antenna switch
    nvic,           \* whether SUBGHZ_Radio_IRQn is enabled
    rx_pending,
    last,           \* last_rssi and last_snr
    \* the call in progress
    pc, len, tx_ok,
    got,            \* what the poll has read so far
    \* histories and bounds
    sent_now,       \* the radio finished the transmission this call waits for
    returned,       \* the latest frame rx_poll returned
    failures,       \* the commands that failed since SET_RX last took effect
    late, txs

radio  == <<mode, irq, mem, rxptr, status>>
call   == <<len, tx_ok, got>>
hist   == <<sent_now, returned>>
rest   == <<hist, failures, late, txs>>
vars   == <<radio, rf, nvic, rx_pending, last, pc, call, rest>>

Cells   == 0 .. BUF_SIZE - 1
Numbers == 0 .. MAX_FRAMES
NoFrame == [n |-> 0, start |-> RX_BASE, len |-> 0]
Nothing == [n |-> 0, start |-> RX_BASE, intact |-> TRUE]

\* The driver returned from stm32wl_radio_init: listening, interrupt enabled.
Init ==
    /\ mode = "RX" /\ irq = {} /\ rxptr = RX_BASE /\ status = NoFrame
    /\ mem = [c \in Cells |-> 0]
    /\ rf = RF_RX /\ nvic = TRUE
    /\ rx_pending = FALSE /\ last = [rssi |-> 0, snr |-> 0]
    /\ pc = "idle" /\ len = 0 /\ tx_ok = FALSE /\ got = Nothing
    /\ sent_now = FALSE /\ returned = 0 /\ failures = {} /\ late = 0 /\ txs = 0

-----------------------------------------------------------------------------
(* The radio. *)

\* The l cells from s on, around the end of the buffer.
Span(s, l) == {(s + i) % BUF_SIZE : i \in 0 .. l - 1}

Fill(cells, n) == mem' = [c \in Cells |-> IF c \in cells THEN n ELSE mem[c]]

FrameArrives(l) ==
    /\ mode = "RX" /\ HearsAir(rf)
    /\ status.n < MAX_FRAMES
    /\ pc = "idle" \/ late < MAX_LATE
    /\ late' = IF pc = "idle" THEN late ELSE late + 1
    /\ Fill(Span(rxptr, l), status.n + 1)
    /\ status' = [n |-> status.n + 1, start |-> rxptr, len |-> l]
    /\ rxptr' = (rxptr + l) % BUF_SIZE
    /\ irq' = irq \cup {"RX_DONE"}
    /\ UNCHANGED <<mode, rf, nvic, rx_pending, last, pc, call, hist, failures,
                   txs>>

\* The fallback mode after a transmission or its timeout is STDBY_RC.
TxDone ==
    /\ mode = "TX"
    /\ mode' = "STANDBY"
    /\ irq' = irq \cup {"TX_DONE"}
    /\ sent_now' = (sent_now \/ pc = "tx_wait")
    /\ UNCHANGED <<mem, rxptr, status, rf, nvic, rx_pending, last, pc, call,
                   returned, failures, late, txs>>

TxTimeout ==
    /\ mode = "TX"
    /\ mode' = "STANDBY"
    /\ irq' = irq \cup {"TIMEOUT"}
    /\ UNCHANGED <<mem, rxptr, status, rf, nvic, rx_pending, last, pc, call,
                   rest>>

-----------------------------------------------------------------------------
(* The interrupt. *)

IsrPending == nvic /\ irq # {}

\* HAL_SUBGHZ_IRQHandler reads and clears the flags and calls back; only the
\* RX callback has an effect (tx_done_flag is set but never read).
SUBGHZ_Radio_IRQHandler ==
    /\ IsrPending
    /\ irq' = {}
    /\ rx_pending' = (rx_pending \/ "RX_DONE" \in irq)
    /\ UNCHANGED <<mode, mem, rxptr, status, rf, nvic, pc, call, rest, last>>

-----------------------------------------------------------------------------
(* The driver.  Each step runs with no enabled interrupt pending. *)

At(label) == pc = label /\ ~IsrPending

\* A command fails.
Fails(command) ==
    /\ failures' = failures \cup {command}
    /\ failures' \in Failing

\* Leave a call: NVIC_ClearPendingIRQ (without effect while the line is up)
\* and HAL_NVIC_EnableIRQ.
Return ==
    /\ nvic' = TRUE
    /\ pc' = "idle"
    /\ late' = 0

\* Mutation: both halves of the buffer start at the same place.
SharedBase == RX_BASE
\* RADIO_SET_BUFFERBASEADDRESS: where the bytes of a transmission go.
TX_BASE == 0

\* Antenna to the receiver, RADIO_SET_RX in continuous mode: its result is
\* ignored, the call goes on either way.
SetRx ==
    /\ rf' = RF_RX
    /\ \/ /\ mode' = "RX"
          /\ rxptr' = RX_BASE
          /\ failures' = {}
       \/ /\ Fails("SetRx")
          /\ UNCHANGED <<mode, rxptr>>

\* RADIO_SET_STANDBY, with the same disregard for its result.
SetStandby(failed) == mode' = IF failed THEN mode ELSE "STANDBY"
StandbyFailed(failed) == IF failed THEN {"SetStandby"} ELSE {}

\* stm32wl_radio_tx; lengths over 256 are refused before anything happens.
Tx(l) ==
    /\ At("idle") /\ txs < MAX_TX
    /\ nvic' = FALSE
    /\ len' = l
    /\ tx_ok' = FALSE
    /\ sent_now' = FALSE
    /\ txs' = txs + 1
    /\ pc' = "tx_setup"
    /\ UNCHANGED <<radio, rf, rx_pending, last, got, returned, failures, late>>

\* SET_STANDBY, power amplifier, switch off, CLR_IRQSTATUS, SET_PACKETPARAMS,
\* WriteBuffer.  With the switch off no frame completes, so one step does.
TxSetup ==
    /\ At("tx_setup")
    /\ rf' = RF_OFF
    /\ irq' = {}
    /\ \E failed \in BOOLEAN :
          /\ SetStandby(failed)
          /\ \/ /\ Fill(Span(TX_BASE, len), 0)
                /\ failures' = failures \cup StandbyFailed(failed)
                /\ pc' = "tx_go"
                /\ UNCHANGED <<nvic, late>>
             \/ /\ failures' = failures \cup StandbyFailed(failed) \cup {"WriteBuffer"}
                /\ Return
                /\ UNCHANGED mem
    /\ failures' \in Failing
    /\ UNCHANGED <<rxptr, status, rx_pending, last, call, hist, txs>>

\* Mutation: the error path of SET_TX leaves the interrupt masked.
TxGoStaysMasked ==
    /\ At("tx_go")
    /\ \/ /\ rf' = RF_TX
          /\ mode' = "TX"
          /\ pc' = "tx_wait"
          /\ UNCHANGED failures
       \/ /\ Fails("SetTx")
          /\ rf' = RF_RX
          /\ pc' = "idle"
          /\ UNCHANGED mode
    /\ UNCHANGED <<irq, mem, rxptr, status, nvic, rx_pending, last, call, hist, late,
                   txs>>

\* rf_ctrl_set_tx and SET_TX.
TxGo ==
    /\ At("tx_go")
    /\ \/ /\ rf' = RF_TX
          /\ mode' = "TX"
          /\ pc' = "tx_wait"
          /\ UNCHANGED <<nvic, failures, late>>
       \/ /\ Fails("SetTx")
          /\ rf' = RF_RX
          /\ Return
          /\ UNCHANGED mode
    /\ UNCHANGED <<irq, mem, rxptr, status, rx_pending, last, call, hist, txs>>

\* Mutation: the end of a transmission counts as a success.
AnyFlagOk(flags) == flags # {}
TX_OK(flags) == "TX_DONE" \in flags

\* Mutation: no deadline.
TxWaitForever ==
    /\ At("tx_wait")
    /\ irq \cap {"TX_DONE", "TIMEOUT"} # {}
    /\ tx_ok' = TX_OK(irq)
    /\ pc' = "tx_end"
    /\ UNCHANGED <<radio, rf, nvic, rx_pending, last, len, got, rest>>

\* Poll GET_IRQSTATUS for TX_DONE or TIMEOUT, at most 4 s by the system tick.
\* The time is left open: the deadline may come first.
TxWait ==
    /\ At("tx_wait")
    /\ \/ /\ irq \cap {"TX_DONE", "TIMEOUT"} # {}
          /\ tx_ok' = TX_OK(irq)
       \/ UNCHANGED tx_ok
    /\ pc' = "tx_end"
    /\ UNCHANGED <<radio, rf, nvic, rx_pending, last, len, got, rest>>

\* "Return to RX": SET_STANDBY, switch off, CLR_IRQSTATUS, SET_PACKETPARAMS.
TxEnd ==
    /\ At("tx_end")
    /\ \E failed \in BOOLEAN :
          /\ SetStandby(failed)
          /\ failures' = failures \cup StandbyFailed(failed)
    /\ failures' \in Failing
    /\ rf' = RF_OFF
    /\ irq' = {}
    /\ pc' = "tx_rx"
    /\ UNCHANGED <<mem, rxptr, status, nvic, rx_pending, last, call, hist, late, txs>>

\* Mutation: the antenna goes back to the receiver, the radio does not.
TxRxInStandby ==
    /\ At("tx_rx")
    /\ rf' = RF_RX
    /\ failures' = {}
    /\ pc' = "tx_return"
    /\ UNCHANGED <<radio, nvic, rx_pending, last, call, hist, late, txs>>

\* Antenna to the receiver and SET_RX.
TxRx ==
    /\ At("tx_rx")
    /\ SetRx
    /\ pc' = "tx_return"
    /\ UNCHANGED <<irq, mem, status, nvic, rx_pending, last, call, hist, late, txs>>

\* Mutation: a frame announced before the transmission is forgotten.
TxReturnForgets ==
    /\ At("tx_return")
    /\ Return
    /\ rx_pending' = FALSE
    /\ UNCHANGED <<radio, rf, last, call, hist, failures, txs>>

TxReturn ==
    /\ At("tx_return")
    /\ Return
    /\ UNCHANGED <<radio, rf, rx_pending, last, call, hist, failures, txs>>

\* stm32wl_radio_rx_poll, with a frame announced; without one it returns 0.
RxPoll ==
    /\ At("idle") /\ rx_pending
    /\ nvic' = FALSE
    /\ rx_pending' = FALSE
    /\ pc' = "rx_status"
    /\ UNCHANGED <<radio, rf, call, rest, last>>

\* GET_RXBUFFERSTATUS, the length check, and the frame it is about.
RxStatus ==
    /\ At("rx_status")
    /\ \/ /\ len' = status.len
          /\ got' = [n |-> status.n, start |-> status.start, intact |-> FALSE]
          /\ pc' = IF status.len = 0 THEN "rx_restart" ELSE "rx_read"
          /\ UNCHANGED <<nvic, failures, late>>
       \/ /\ Fails("RxBufferStatus")
          /\ Return
          /\ UNCHANGED <<len, got>>
    /\ UNCHANGED <<radio, rf, rx_pending, last, tx_ok, hist, txs>>

\* The l bytes that are read at g.start are those of frame g.n.
InPlace(g, l) == \A c \in Span(g.start, l) : mem[c] = g.n

\* Mutation: a failed read is reported as a length of -1.
RxReadMinusOne ==
    /\ At("rx_read")
    /\ \/ /\ got' = [got EXCEPT !.intact = InPlace(got, len)]
          /\ pc' = "rx_clear"
          /\ UNCHANGED <<len, failures>>
       \/ /\ Fails("ReadBuffer")
          /\ len' = -1
          /\ pc' = "rx_restart"
          /\ UNCHANGED got
    /\ UNCHANGED <<radio, rf, nvic, rx_pending, last, tx_ok, hist, late,
                   txs>>

\* ReadBuffer: the bytes are the frame's if nothing wrote over its cells.
RxRead ==
    /\ At("rx_read")
    /\ \/ /\ got' = [got EXCEPT !.intact = InPlace(got, len)]
          /\ pc' = "rx_clear"
          /\ UNCHANGED <<len, failures>>
       \/ /\ Fails("ReadBuffer")
          /\ len' = 0
          /\ pc' = "rx_restart"
          /\ UNCHANGED got
    /\ UNCHANGED <<radio, rf, nvic, rx_pending, last, tx_ok, hist, late,
                   txs>>

\* Mutation: the flags are left up.
RxClearNothing ==
    /\ At("rx_clear")
    /\ pc' = "rx_signal"
    /\ UNCHANGED <<radio, rf, nvic, rx_pending, last, call, rest>>

\* CLR_IRQSTATUS: also the flag of a frame that completed since RxPoll.
RxClear ==
    /\ At("rx_clear")
    /\ irq' = {}
    /\ pc' = "rx_signal"
    /\ UNCHANGED <<mode, mem, rxptr, status, rf, nvic, rx_pending, last, call,
                   rest>>

\* (int8_t) of a byte, and division as in C.
Int8(b) == IF b < 128 THEN b ELSE b - 256
TruncDiv(a, d) == IF a >= 0 THEN a \div d ELSE -((-a) \div d)

Rssi(b) == TruncDiv(-Int8(b), 2)

\* Mutation: the sign of the SNR is lost.
SnrUnsigned(b) == b \div 4
Snr(b) == TruncDiv(Int8(b), 4)

\* GET_PACKETSTATUS, about the latest frame.
RxSignal ==
    /\ At("rx_signal")
    /\ \/ /\ last' = [rssi |-> Rssi(Signal[status.n].rssi),
                      snr  |-> Snr(Signal[status.n].snr)]
          /\ UNCHANGED failures
       \/ /\ Fails("PacketStatus")
          /\ UNCHANGED last
    /\ pc' = "rx_restart"
    /\ UNCHANGED <<radio, rf, nvic, rx_pending, call, hist, late, txs>>

RxRestart ==
    /\ At("rx_restart")
    /\ SetRx
    /\ pc' = "rx_return"
    /\ UNCHANGED <<irq, mem, status, nvic, rx_pending, last, call, hist, late, txs>>

\* len = 0 is the return value of the paths that give no frame.
RxReturn ==
    /\ At("rx_return")
    /\ Return
    /\ returned' = IF len > 0 THEN got.n ELSE returned
    /\ UNCHANGED <<radio, rf, rx_pending, last, call, sent_now, failures,
                   txs>>

-----------------------------------------------------------------------------
TxSteps == TxSetup \/ TxGo \/ TxWait \/ TxEnd \/ TxRx \/ TxReturn
RxSteps == RxPoll \/ RxStatus \/ RxRead \/ RxClear \/ RxSignal
               \/ RxRestart \/ RxReturn
Driver  == TxSteps \/ RxSteps

Next == \/ \E l \in FrameLens : FrameArrives(l)
        \/ TxDone \/ TxTimeout
        \/ SUBGHZ_Radio_IRQHandler
        \/ \E l \in TxLens : Tx(l)
        \/ Driver

Spec == Init /\ [][Next]_vars

\* The processor runs: a started call goes on, the main loop polls again and
\* again, a pending interrupt is served.  Nothing is assumed of the radio: it
\* need not finish a transmission, nor receive anything.
FairSpec == Spec /\ WF_vars(Driver) /\ WF_vars(SUBGHZ_Radio_IRQHandler)

-----------------------------------------------------------------------------
TypeOK ==
    /\ mode \in {"RX", "STANDBY", "TX"}
    /\ irq \subseteq {"RX_DONE", "TX_DONE", "TIMEOUT"}
    /\ mem \in [Cells -> Numbers]
    /\ rxptr \in Cells
    /\ status \in [n : Numbers, start : Cells, len : FrameLens \cup {0}]
    /\ rf \in Pins
    /\ nvic \in BOOLEAN /\ rx_pending \in BOOLEAN
    /\ last \in [rssi : -128 .. 127, snr : -128 .. 127]
    /\ pc \in {"idle", "tx_setup", "tx_go", "tx_wait", "tx_end", "tx_rx",
               "tx_return", "rx_status", "rx_read", "rx_clear", "rx_signal", "rx_restart",
               "rx_return"}
    /\ len \in TxLens \cup FrameLens \cup {0} /\ tx_ok \in BOOLEAN
    /\ got \in [n : Numbers, start : Cells, intact : BOOLEAN]
    /\ sent_now \in BOOLEAN /\ returned \in Numbers
    /\ failures \in Failing
    /\ late \in 0 .. MAX_LATE /\ txs \in 0 .. MAX_TX

\* The interrupt handler and a call never use the radio's SPI at once, and
\* between two calls the interrupt is enabled: no return path forgets it.
NoReentry ==
    /\ pc # "idle" => ~nvic
    /\ pc = "idle" => nvic

\* Between two calls the node can hear, the radio in RX with the antenna on the
\* receiver, whatever the calls before them met, with three exceptions: a
\* WriteBuffer or SET_TX that failed ends tx without a SET_RX, and a SET_RX that
\* fails is not noticed.  The node is then deaf until a SET_RX takes effect.
Listening ==
    /\ pc = "idle"
    /\ failures \cap {"WriteBuffer", "SetTx", "SetRx"} = {}
    => mode = "RX" /\ HearsAir(rf)

\* The radio transmits and receives only with the antenna switched for it, if
\* SET_STANDBY takes effect before the antenna is switched off.
AntennaFollows ==
    "SetStandby" \notin failures =>
        /\ mode = "TX" => ReachesAir(rf)
        /\ mode = "RX" => HearsAir(rf)

\* An earlier transmission may still be on the air: the call that gave it timed
\* out and both its SET_STANDBY and its SET_RX failed.
StillSending == {"SetStandby", "SetRx"} \subseteq failures

\* tx takes its transmission for sent only if the radio sent this very frame:
\* a TX_DONE flag left by an earlier transmission is never taken for this
\* one's, unless the radio could not be stopped (StillSending).
TxTrueMeansSent == pc = "tx_end" /\ tx_ok /\ ~StillSending => sent_now

\* rx_poll never returns a frame twice, nor an older one after a newer one, if
\* CLR_IRQSTATUS succeeds: the flag it leaves up would announce the frame again.
NoReplay == [][RxReturn /\ len > 0 => got.n > returned]_vars

\* A returned frame that was received at the start of the RX half is not mixed
\* with earlier frames or with what was sent before the loop came to poll it,
\* as long as what is sent fits in the other half and no newer frame completed
\* over it during the poll.
IntactFromBase ==
    /\ pc = "rx_return" /\ len > 0
    /\ got.start = RX_BASE
    /\ got.n = status.n
    => got.intact

\* What the loop prints of a frame is the signal of this frame, as long as the
\* read succeeds and no newer frame completed: -RSSI/2 dBm and SNR/4 dB, to the
\* unit.  The RSSI only for strong frames: a byte of 128 and more, that is
\* below -64 dBm, changes its sign in the cast (radio_stm32wl.c:443).
SignalOfFrame ==
    /\ pc = "rx_restart" /\ len > 0
    /\ got.n = status.n
    /\ "PacketStatus" \notin failures
    => LET raw == Signal[got.n]
       IN  /\ raw.rssi < 128 => 2 * last.rssi + raw.rssi \in 0 .. 1
           /\ 4 * last.snr - Int8(raw.snr) \in -3 .. 3

\* Where a completed frame's flag is dropped with nobody told: after the
\* interrupt is masked and before CLR_IRQSTATUS.
Blind == {"tx_setup", "rx_status", "rx_read", "rx_clear"}

\* Any other frame is returned, or a newer one is, however it falls between
\* the commands of a call: no frame waits for the next one to be noticed.  The
\* exceptions are an empty frame, which hides the one before it, and a poll
\* that failed to read.
FrameIsReturned ==
    \A n \in 1 .. MAX_FRAMES :
        ("RX_DONE" \in irq /\ status.n = n /\ pc \notin Blind)
            ~> \/ returned >= n
               \/ status.len = 0
               \/ failures \cap {"RxBufferStatus", "ReadBuffer"} # {}

\* Every call comes back, also when the radio never reports the end of a
\* transmission.
CallsReturn == pc # "idle" ~> pc = "idle"

\* What Radio/lora_meshtastic.h says of lora_rx_poll: a frame it returns is the
\* packet that was received.
ReturnsThePacket == pc = "rx_return" /\ len > 0 => got.intact
=============================================================================
