------------------------- MODULE RadioDriver_proofs --------------------------
(***************************************************************************)
(* The control of stm32wl_radio_tx and stm32wl_radio_rx_poll for every     *)
(* buffer, every set of frame lengths and every set of failing commands:   *)
(* when the interrupt is masked, where the antenna points, when the node   *)
(* can hear, and what a true result of tx means, each under the failures   *)
(* it names; then the types, and that                                      *)
(* a returned frame and its signal are those of the frame, and that no     *)
(* frame is returned twice.  The liveness properties are left to TLC.      *)
(*                                                                         *)
(* None of the properties is inductive.  Control says where in a call      *)
(* the radio can be transmitting, Fresh that the flags tx looks at are of  *)
(* this transmission, Hearing what the driver undoes before it returns.    *)
(***************************************************************************)
EXTENDS RadioDriver, TLAPS

Labels == {"idle", "tx_setup", "tx_go", "tx_wait", "tx_end", "tx_rx",
           "tx_return", "rx_status", "rx_read", "rx_clear", "rx_signal", "rx_restart",
           "rx_return"}

\* Only a call of tx that has given SET_TX finds the radio transmitting, as long
\* as it can be stopped.
Control ==
    /\ pc \in Labels
    /\ mode \in {"RX", "STANDBY", "TX"}
    /\ mode = "TX" => \/ pc \in {"tx_wait", "tx_end"}
                      \/ pc = "tx_rx" /\ "SetStandby" \in failures
                      \/ StillSending
    /\ pc \in {"tx_go", "tx_rx"} => mode = "STANDBY" \/ "SetStandby" \in failures

\* tx begins with no TX_DONE and a result of false; a TX_DONE it finds later is
\* the one of its own transmission.
Fresh ==
    /\ pc = "tx_go" /\ ~StillSending => "TX_DONE" \notin irq
    /\ pc = "tx_wait" /\ "TX_DONE" \in irq /\ ~StillSending => sent_now
    /\ pc \in {"tx_setup", "tx_go", "tx_wait"} => tx_ok = FALSE

\* Outside the part of tx that takes the radio out of RX the node can hear,
\* unless a transmission failed or a SET_RX was lost.
Hearing ==
    /\ pc \notin {"tx_setup", "tx_go", "tx_wait", "tx_end", "tx_rx"}
    /\ failures \cap {"WriteBuffer", "SetTx", "SetRx"} = {}
    => mode = "RX" /\ HearsAir(rf)

IInv == Control /\ NoReentry /\ AntennaFollows /\ Fresh /\ TxTrueMeansSent /\ Hearing

-----------------------------------------------------------------------------
LEMMA InitEstablishes == Init => IInv
  BY DEF Init, IInv, Control, Labels, NoReentry, AntennaFollows, Fresh,
         TxTrueMeansSent, StillSending, Hearing, HearsAir, ReachesAir

\* Steps of the radio and of its interrupt.
LEMMA RadioSteps ==
    ASSUME IInv,
           \/ \E l \in FrameLens : FrameArrives(l)
           \/ TxDone \/ TxTimeout \/ SUBGHZ_Radio_IRQHandler
    PROVE  IInv'
  <1> USE DEF IInv, Control, Labels, NoReentry, AntennaFollows, Fresh,
              TxTrueMeansSent, StillSending, Hearing, HearsAir, ReachesAir
  <1>1. CASE \E l \in FrameLens : FrameArrives(l)
    <2>1. PICK l \in FrameLens : FrameArrives(l)
      BY <1>1
    <2>2. /\ UNCHANGED <<mode, rf, nvic, rx_pending, pc, call, hist, failures>>
          /\ irq' = irq \cup {"RX_DONE"} /\ mode = "RX"
      BY <2>1 DEF FrameArrives
    <2>3. QED  BY <2>2 DEF call, hist
  <1>2. CASE TxDone  BY <1>2 DEF TxDone, call
  <1>3. CASE TxTimeout  BY <1>3 DEF TxTimeout, rest, hist, call
  <1>4. CASE SUBGHZ_Radio_IRQHandler
    BY <1>4 DEF SUBGHZ_Radio_IRQHandler, IsrPending, rest, hist, call
  <1>5. QED  BY <1>1, <1>2, <1>3, <1>4

\* Steps of stm32wl_radio_tx.
LEMMA TxKeeps ==
    ASSUME IInv, (\E l \in TxLens : Tx(l)) \/ TxSteps
    PROVE  IInv'
  <1> USE DEF IInv, Control, Labels, NoReentry, AntennaFollows, Fresh,
              TxTrueMeansSent, StillSending, Hearing, HearsAir, ReachesAir, At, Return, radio, call, hist, rest
  <1>1. CASE \E l \in TxLens : Tx(l)  BY <1>1 DEF Tx
  <1>2. CASE TxSetup
    <2>1. PICK failed \in BOOLEAN :
             /\ SetStandby(failed)
             /\ \/ failures' = failures \cup StandbyFailed(failed)
                \/ failures' = failures \cup StandbyFailed(failed) \cup {"WriteBuffer"}
      BY <1>2 DEF TxSetup
    <2>2. /\ pc = "tx_setup" /\ irq' = {} /\ rf' = RF_OFF /\ tx_ok' = tx_ok
          /\ \/ pc' = "tx_go" /\ nvic' = nvic
             \/ pc' = "idle" /\ nvic' = TRUE /\ "WriteBuffer" \in failures'
      BY <1>2 DEF TxSetup
    <2>3. QED  BY <2>1, <2>2 DEF SetStandby, StandbyFailed
  <1>3. CASE TxGo
    BY <1>3 DEF TxGo, Fails
  <1>4. CASE TxWait
    <2>1. /\ pc = "tx_wait" /\ pc' = "tx_end"
          /\ UNCHANGED <<mode, irq, rf, nvic, sent_now, failures>>
      BY <1>4 DEF TxWait
    <2>2. tx_ok' /\ ~StillSending => sent_now'
      <3>1. CASE tx_ok' = ("TX_DONE" \in irq)  BY <2>1, <3>1
      <3>2. CASE tx_ok' = tx_ok  BY <2>1, <3>2
      <3>3. QED  BY <1>4, <3>1, <3>2 DEF TxWait, TX_OK
    <2>3. QED  BY <2>1, <2>2
  <1>5. CASE TxEnd
    <2>1. PICK failed \in BOOLEAN :
             SetStandby(failed) /\ failures' = failures \cup StandbyFailed(failed)
      BY <1>5 DEF TxEnd
    <2>2. QED  BY <1>5, <2>1 DEF TxEnd, SetStandby, StandbyFailed
  <1>6. CASE TxRx  BY <1>6 DEF TxRx, SetRx, Fails
  <1>7. CASE TxReturn  BY <1>7 DEF TxReturn
  <1>8. QED  BY <1>1, <1>2, <1>3, <1>4, <1>5, <1>6, <1>7 DEF TxSteps

\* Steps of stm32wl_radio_rx_poll.
LEMMA RxKeeps ==
    ASSUME IInv, RxSteps
    PROVE  IInv'
  <1> USE DEF IInv, Control, Labels, NoReentry, AntennaFollows, Fresh,
              TxTrueMeansSent, StillSending, Hearing, HearsAir, ReachesAir, At, Return, radio, call, hist, rest
  <1>1. CASE RxPoll  BY <1>1 DEF RxPoll
  <1>2. CASE RxStatus  BY <1>2 DEF RxStatus, Fails
  <1>3. CASE RxRead  BY <1>3 DEF RxRead, Fails
  <1>4. CASE RxClear  BY <1>4 DEF RxClear
  <1>5. CASE RxSignal  BY <1>5 DEF RxSignal, Fails
  <1>6. CASE RxRestart  BY <1>6 DEF RxRestart, SetRx, Fails
  <1>7. CASE RxReturn  BY <1>7 DEF RxReturn
  <1>8. QED  BY <1>1, <1>2, <1>3, <1>4, <1>5, <1>6, <1>7 DEF RxSteps

LEMMA Inductive == Spec => []IInv
  <1>1. IInv /\ [Next]_vars => IInv'
    <2> SUFFICES ASSUME IInv, [Next]_vars PROVE IInv'
      OBVIOUS
    <2>1. CASE Next
      BY <2>1, RadioSteps, TxKeeps, RxKeeps DEF Next, Driver
    <2>2. CASE UNCHANGED vars
      BY <2>2 DEF vars, radio, call, hist, rest, IInv, Control, NoReentry,
                  AntennaFollows, Fresh, TxTrueMeansSent, StillSending, Hearing, HearsAir, ReachesAir
    <2>3. QED  BY <2>1, <2>2
  <1>2. QED  BY InitEstablishes, <1>1, PTL DEF Spec

-----------------------------------------------------------------------------
\* The interrupt handler never runs inside a call, and every return path of
\* tx and rx_poll enables it again (radio_stm32wl.c:334, 398-401, 451-454).
THEOREM NeverReentered == Spec => []NoReentry
  <1>1. IInv => NoReentry  BY DEF IInv
  <1>2. QED  BY Inductive, <1>1, PTL

\* tx takes its transmission for sent only if the radio did send it in this call
\* (radio_stm32wl.c:361-388), however late the TX_DONE of an earlier one is, as
\* long as the radio obeys SET_STANDBY or SET_RX.
THEOREM TrueMeansSent == Spec => []TxTrueMeansSent
  <1>1. IInv => TxTrueMeansSent  BY DEF IInv
  <1>2. QED  BY Inductive, <1>1, PTL

\* The antenna is on the transmitter when the radio transmits and on the
\* receiver when it receives, as long as SET_STANDBY, which comes before the
\* switch is thrown, succeeds (radio_stm32wl.c:337-343, 388-395).
THEOREM AntennaCorrect == Spec => []AntennaFollows
  <1>1. IInv => AntennaFollows  BY DEF IInv
  <1>2. QED  BY Inductive, <1>1, PTL

\* Between calls the node listens, whatever failed in them and however often,
\* unless that was WriteBuffer, SET_TX or SET_RX (radio_stm32wl.c:357-371, 396,
\* 423, 431, 449): a failed SET_STANDBY, a late or missing end of a transmission
\* and the failed reads of rx_poll all end in RX.
THEOREM ListensBetweenCalls == Spec => []Listening
  <1>1. IInv => Listening  BY DEF IInv, Hearing, Listening
  <1>2. QED  BY Inductive, <1>1, PTL
-----------------------------------------------------------------------------
(* Types, and what the buffer holds. *)

LEMMA Modulo ==
    ASSUME NEW n \in Nat \ {0}, NEW a \in Nat
    PROVE  a % n \in 0 .. n - 1 /\ (a < n => a % n = a)
  OBVIOUS

LEMMA SpanFacts ==
    ASSUME RadioAssumption, NEW s \in Cells, NEW l \in Nat
    PROVE  /\ Span(s, l) \subseteq Cells
           /\ s + l <= BUF_SIZE => Span(s, l) = {c \in Cells : s <= c /\ c < s + l}
  <1>1. BUF_SIZE \in Nat \ {0} /\ s \in 0 .. BUF_SIZE - 1
    BY DEF RadioAssumption, Cells
  <1>2. ASSUME NEW i \in 0 .. l - 1
        PROVE  /\ (s + i) % BUF_SIZE \in Cells
               /\ s + i < BUF_SIZE => (s + i) % BUF_SIZE = s + i
    <2>1. s + i \in Nat
      BY <1>1
    <2>2. QED  BY <1>1, <2>1, Modulo DEF Cells
  <1>3. Span(s, l) \subseteq Cells
    BY <1>2 DEF Span
  <1>4. ASSUME s + l <= BUF_SIZE
        PROVE  Span(s, l) = {c \in Cells : s <= c /\ c < s + l}
    <2>1. ASSUME NEW c \in Span(s, l) PROVE c \in Cells /\ s <= c /\ c < s + l
      <3>1. PICK i \in 0 .. l - 1 : c = (s + i) % BUF_SIZE
        BY DEF Span
      <3>2. s + i < BUF_SIZE
        BY <1>1, <1>4
      <3>3. c = s + i
        BY <1>2, <3>1, <3>2
      <3>4. QED  BY <1>1, <1>3, <3>3
    <2>2. ASSUME NEW c \in Cells, s <= c, c < s + l PROVE c \in Span(s, l)
      <3>1. c - s \in 0 .. l - 1 /\ s + (c - s) = c /\ c < BUF_SIZE
        BY <1>1, <2>2 DEF Cells
      <3>2. (s + (c - s)) % BUF_SIZE = c
        BY <1>2, <3>1
      <3>3. QED  BY <3>1, <3>2 DEF Span
    <2>3. QED  BY <2>1, <2>2
  <1>5. QED  BY <1>3, <1>4

LEMMA SignalRange ==
    ASSUME NEW b \in 0 .. 255
    PROVE  /\ Rssi(b) \in -128 .. 127 /\ Snr(b) \in -128 .. 127
           /\ b < 128 => 2 * Rssi(b) + b \in 0 .. 1
           /\ 4 * Snr(b) - Int8(b) \in -3 .. 3
  BY DEF Rssi, Snr, TruncDiv, Int8

\* A frame was received before anything announces or reads one.
Announced ==
    /\ "RX_DONE" \in irq => status.n >= 1
    /\ rx_pending => status.n >= 1
    /\ pc \in {"rx_status", "rx_read", "rx_clear", "rx_signal"} => status.n >= 1

TInv == TypeOK /\ Announced

\* What is sent, received and reported stays in the buffer and the ranges of
\* the driver's variables.
LEMMA RadioTypes ==
    ASSUME RadioAssumption, SwapAssumption, TInv,
           \/ \E l \in FrameLens : FrameArrives(l)
           \/ TxDone \/ TxTimeout \/ SUBGHZ_Radio_IRQHandler
    PROVE  TInv'
  <1>1. CASE \E l \in FrameLens : FrameArrives(l)
    <2>1. PICK l \in FrameLens : FrameArrives(l)
      BY <1>1
    <2>2. /\ BUF_SIZE \in Nat \ {0} /\ l \in Nat /\ rxptr \in Nat
          /\ MAX_FRAMES \in Nat /\ status.n \in 0 .. MAX_FRAMES
      BY DEF RadioAssumption, TInv, TypeOK, Cells, Numbers
    <2>3. (rxptr + l) % BUF_SIZE \in Cells
      BY <2>2, Modulo DEF Cells
    <2>4. /\ status.n + 1 \in Numbers /\ status.n + 1 >= 1
          /\ status' = [n |-> status.n + 1, start |-> rxptr, len |-> l]
      BY <2>1, <2>2 DEF FrameArrives, Numbers
    <2>5. status' \in [n : Numbers, start : Cells, len : FrameLens \cup {0}] /\ status'.n >= 1
      BY <2>4 DEF TInv, TypeOK
    <2>6. mem' \in [Cells -> Numbers]
      BY <2>1, <2>4 DEF FrameArrives, Fill, TInv, TypeOK
    <2>7. late' \in 0 .. MAX_LATE
      BY <2>1 DEF FrameArrives, TInv, TypeOK, RadioAssumption
    <2>8. /\ UNCHANGED <<mode, rf, nvic, rx_pending, last, pc, len, tx_ok, got,
                         sent_now, returned, failures, txs>>
          /\ rxptr' = (rxptr + l) % BUF_SIZE /\ irq' = irq \cup {"RX_DONE"}
      BY <2>1 DEF FrameArrives, call, hist
    <2>9. QED  BY <2>3, <2>5, <2>6, <2>7, <2>8 DEF TInv, TypeOK, Announced
  <1>2. CASE TxDone  BY <1>2 DEF TxDone, TInv, TypeOK, Announced, call
  <1>3. CASE TxTimeout  BY <1>3 DEF TxTimeout, TInv, TypeOK, Announced, call, rest, hist
  <1>4. CASE SUBGHZ_Radio_IRQHandler
    BY <1>4 DEF SUBGHZ_Radio_IRQHandler, TInv, TypeOK, Announced, call, rest, hist
  <1>5. QED  BY <1>1, <1>2, <1>3, <1>4

LEMMA TxTypes ==
    ASSUME RadioAssumption, SwapAssumption, TInv,
           (\E l \in TxLens : Tx(l)) \/ TxSteps
    PROVE  TInv'
  <1> USE DEF TInv, Announced, At, Return, radio, call, hist, rest
  <1>r. RF_OFF \in Pins /\ RF_RX \in Pins /\ RF_TX \in Pins
    BY DEF RF_OFF, RF_RX, RF_TX, Pins, SwapAssumption
  <1>b. RX_BASE \in Cells /\ 0 \in 0 .. MAX_LATE /\ 0 \in Numbers
    BY DEF RadioAssumption, Cells, Numbers
  <1>1. CASE \E l \in TxLens : Tx(l)
    <2>1. PICK l \in TxLens : Tx(l)
      BY <1>1
    <2>2. txs' \in 0 .. MAX_TX
      BY <2>1 DEF Tx, TypeOK, RadioAssumption
    <2>3. QED  BY <2>1, <2>2 DEF Tx, TypeOK
  <1>2. CASE TxSetup
    <2>1. mem' \in [Cells -> Numbers]
      BY <1>2, <1>b DEF TxSetup, Fill, TypeOK
    <2>2. failures' \in Failing
      BY <1>2 DEF TxSetup
    <2>3. /\ rf' \in Pins /\ mode' \in {"STANDBY", mode} /\ irq' = {} /\ nvic' \in BOOLEAN
          /\ pc' \in {"tx_go", "idle"} /\ late' \in 0 .. MAX_LATE
          /\ UNCHANGED <<rxptr, status, rx_pending, last, call, hist, txs>>
      BY <1>2, <1>r, <1>b DEF TxSetup, SetStandby, TypeOK
    <2>4. QED  BY <2>1, <2>2, <2>3 DEF TypeOK
  <1>3. CASE TxGo
    <2>1. failures' \in Failing
      BY <1>3 DEF TxGo, Fails, TypeOK
    <2>2. /\ rf' \in Pins /\ mode' \in {"RX", "STANDBY", "TX"} /\ nvic' \in BOOLEAN
          /\ pc' \in {"tx_wait", "idle"} /\ late' \in 0 .. MAX_LATE
          /\ UNCHANGED <<irq, mem, rxptr, status, rx_pending, last, call, hist, txs>>
      BY <1>3, <1>r, <1>b DEF TxGo, TypeOK
    <2>3. QED  BY <2>1, <2>2 DEF TypeOK
  <1>4. CASE TxWait
    <2>1. tx_ok' \in BOOLEAN
      <3>1. TX_OK(irq) \in BOOLEAN
        BY DEF TX_OK
      <3>2. tx_ok' = TX_OK(irq) \/ tx_ok' = tx_ok
        BY <1>4, Zenon DEF TxWait
      <3>3. QED  BY <3>1, <3>2, Zenon DEF TypeOK
    <2>2. QED  BY <1>4, <2>1 DEF TxWait, TypeOK
  <1>5. CASE TxEnd
    <2>1. failures' \in Failing /\ mode' \in {"STANDBY", mode} /\ rf' \in Pins /\ irq' = {}
      BY <1>5, <1>r DEF TxEnd, SetStandby
    <2>2. QED  BY <1>5, <2>1 DEF TxEnd, TypeOK
  <1>6. CASE TxRx
    <2>1. /\ failures' \in Failing /\ mode' \in {"RX", mode} /\ rf' \in Pins
          /\ rxptr' \in {RX_BASE, rxptr}
      BY <1>6, <1>r, <1>b DEF TxRx, SetRx, Fails, RadioAssumption
    <2>2. QED  BY <1>6, <1>b, <2>1 DEF TxRx, TypeOK
  <1>7. CASE TxReturn  BY <1>7, <1>b DEF TxReturn, TypeOK
  <1>8. QED  BY <1>1, <1>2, <1>3, <1>4, <1>5, <1>6, <1>7 DEF TxSteps

LEMMA RxTypes ==
    ASSUME RadioAssumption, SwapAssumption, TInv, RxSteps
    PROVE  TInv'
  <1> USE DEF TInv, Announced, At, Return, radio, call, hist, rest
  <1>r. RF_RX \in Pins
    BY DEF RF_RX, Pins, SwapAssumption
  <1>b. RX_BASE \in Cells /\ 0 \in 0 .. MAX_LATE
    BY DEF RadioAssumption, Cells
  <1>1. CASE RxPoll
    <2>1. /\ status.n >= 1 /\ UNCHANGED <<radio, rf, last, call, rest>>
          /\ nvic' = FALSE /\ rx_pending' = FALSE /\ pc' = "rx_status"
      BY <1>1, Zenon DEF RxPoll
    <2>2. TypeOK'
      BY <2>1 DEF TypeOK
    <2>3. QED  BY <2>1, <2>2
  <1>2. CASE RxStatus
    <2>1. failures' \in Failing
      BY <1>2 DEF RxStatus, Fails, TypeOK
    <2>2. got' \in [n : Numbers, start : Cells, intact : BOOLEAN]
      <3>1. [n |-> status.n, start |-> status.start, intact |-> FALSE]
                \in [n : Numbers, start : Cells, intact : BOOLEAN]
        BY DEF TypeOK
      <3>2. QED  BY <1>2, <3>1 DEF RxStatus, TypeOK
    <2>3. len' \in TxLens \cup FrameLens \cup {0}
      BY <1>2 DEF RxStatus, TypeOK
    <2>4. /\ pc = "rx_status" /\ nvic' \in BOOLEAN /\ late' \in 0 .. MAX_LATE
          /\ pc' \in {"rx_restart", "rx_read", "idle"}
          /\ UNCHANGED <<radio, rf, rx_pending, last, tx_ok, hist, txs>>
      BY <1>2, <1>b DEF RxStatus, TypeOK
    <2>5. QED  BY <2>1, <2>2, <2>3, <2>4 DEF TypeOK
  <1>3. CASE RxRead
    <2>1. failures' \in Failing
      BY <1>3 DEF RxRead, Fails, TypeOK
    <2>2. InPlace(got, len) \in BOOLEAN
      BY Zenon DEF InPlace
    <2>3. got' \in [n : Numbers, start : Cells, intact : BOOLEAN]
      <3>1. ASSUME NEW ok \in BOOLEAN
            PROVE  [got EXCEPT !.intact = ok] \in [n : Numbers, start : Cells, intact : BOOLEAN]
        BY DEF TypeOK
      <3>2. got' = got \/ got' = [got EXCEPT !.intact = InPlace(got, len)]
        BY <1>3, Zenon DEF RxRead
      <3>3. [got EXCEPT !.intact = InPlace(got, len)]
                \in [n : Numbers, start : Cells, intact : BOOLEAN]
        BY <2>2, <3>1
      <3>4. QED  BY <3>2, <3>3 DEF TypeOK
    <2>4. QED  BY <1>3, <2>1, <2>3 DEF RxRead, TypeOK
  <1>4. CASE RxClear  BY <1>4 DEF RxClear, TypeOK
  <1>5. CASE RxSignal
    <2>1. failures' \in Failing
      BY <1>5 DEF RxSignal, Fails, TypeOK
    <2>2. status.n \in 1 .. MAX_FRAMES
      BY <1>5 DEF RxSignal, TypeOK, Numbers, RadioAssumption
    <2>3. Signal[status.n].rssi \in 0 .. 255 /\ Signal[status.n].snr \in 0 .. 255
      BY <2>2 DEF RadioAssumption
    <2>4. last' \in [rssi : -128 .. 127, snr : -128 .. 127]
      <3>1. CASE last' = [rssi |-> Rssi(Signal[status.n].rssi),
                          snr  |-> Snr(Signal[status.n].snr)]
        <4>1. /\ Rssi(Signal[status.n].rssi) \in -128 .. 127
              /\ Snr(Signal[status.n].snr) \in -128 .. 127
          BY <2>3, SignalRange
        <4>2. QED  BY <3>1, <4>1
      <3>2. CASE last' = last  BY <3>2 DEF TypeOK
      <3>3. QED  BY <1>5, <3>1, <3>2 DEF RxSignal
    <2>5. QED  BY <1>5, <2>1, <2>4 DEF RxSignal, TypeOK
  <1>6. CASE RxRestart
    <2>1. /\ failures' \in Failing /\ mode' \in {"RX", mode} /\ rf' \in Pins
          /\ rxptr' \in {RX_BASE, rxptr}
      BY <1>6, <1>r, <1>b DEF RxRestart, SetRx, Fails, RadioAssumption
    <2>2. QED  BY <1>6, <1>b, <2>1 DEF RxRestart, TypeOK
  <1>7. CASE RxReturn  BY <1>7, <1>b DEF RxReturn, TypeOK
  <1>8. QED  BY <1>1, <1>2, <1>3, <1>4, <1>5, <1>6, <1>7 DEF RxSteps

LEMMA InitTypes == Init => TInv
  <1> SUFFICES ASSUME Init PROVE TInv
    OBVIOUS
  <1>1. /\ RX_BASE \in Cells /\ 0 \in Numbers /\ 0 \in 0 .. MAX_LATE /\ 0 \in 0 .. MAX_TX
        /\ RF_RX \in Pins
    BY RadioAssumption, SwapAssumption
       DEF RadioAssumption, SwapAssumption, Numbers, Cells, RF_RX, Pins
  <1>2. /\ status \in [n : Numbers, start : Cells, len : FrameLens \cup {0}]
        /\ got \in [n : Numbers, start : Cells, intact : BOOLEAN]
    BY <1>1 DEF Init, NoFrame, Nothing
  <1>3. mem \in [Cells -> Numbers] /\ last \in [rssi : -128 .. 127, snr : -128 .. 127]
    BY <1>1 DEF Init
  <1>4. failures \in Failing
    BY RadioAssumption DEF RadioAssumption, Init
  <1>5. QED  BY <1>1, <1>2, <1>3, <1>4 DEF Init, TInv, TypeOK, Announced

LEMMA StepTypes == TInv /\ [Next]_vars => TInv'
  <1> SUFFICES ASSUME TInv, [Next]_vars PROVE TInv'
    OBVIOUS
  <1>1. CASE Next
    BY <1>1, RadioAssumption, SwapAssumption, RadioTypes, TxTypes, RxTypes
       DEF Next, Driver
  <1>2. CASE UNCHANGED vars
    BY <1>2 DEF vars, radio, call, hist, rest, TInv, TypeOK, Announced
  <1>3. QED  BY <1>1, <1>2

\* The driver's variables and the radio's registers keep their types for every
\* buffer size and every set of frames; the radio's write pointer and all spans
\* stay in the buffer (radio_stm32wl.c:329-454).
THEOREM DriverTypeCorrect == Spec => []TypeOK
  <1>1. TInv => TypeOK  BY DEF TInv
  <1>2. QED  BY InitTypes, StepTypes, <1>1, PTL DEF Spec

-----------------------------------------------------------------------------
(* What rx_poll returns.  What is sent and what is received each fit in    *)
(* their half of the buffer.                                               *)

Halves == /\ \A l \in FrameLens : RX_BASE + l <= BUF_SIZE
          /\ \A l \in TxLens : l <= RX_BASE

\* The latest frame is whole if it begins at the RX base; the poll works on it
\* until a newer one completes.
Stored ==
    status.start = RX_BASE
        => \A c \in Cells : RX_BASE <= c /\ c < RX_BASE + status.len => mem[c] = status.n

Reading ==
    /\ got.n <= status.n
    /\ pc = "tx_setup" => len \in TxLens
    /\ pc = "rx_read" /\ got.n = status.n => got.start = status.start /\ len = status.len

Whole ==
    /\ pc \in {"rx_clear", "rx_signal", "rx_restart", "rx_return"} /\ len > 0
    /\ got.start = RX_BASE /\ got.n = status.n
    => got.intact

SignalOf(n) == [rssi |-> Rssi(Signal[n].rssi), snr |-> Snr(Signal[n].snr)]

Heard ==
    /\ pc = "rx_restart" /\ len > 0 /\ got.n = status.n /\ "PacketStatus" \notin failures
    => last = SignalOf(got.n) /\ got.n >= 1

BInv == Stored /\ Reading /\ Whole /\ Heard

LEMMA ArrivalKeeps ==
    ASSUME RadioAssumption, Halves, TInv, BInv,
           NEW l \in FrameLens, FrameArrives(l)
    PROVE  BInv'
  <1>1. /\ BUF_SIZE \in Nat /\ RX_BASE \in Cells /\ l \in Nat /\ RX_BASE + l <= BUF_SIZE
        /\ status.n \in Nat /\ got.n \in Nat /\ got.n <= status.n
    BY DEF RadioAssumption, Halves, TInv, TypeOK, Cells, Numbers, BInv, Reading
  <1>2. /\ UNCHANGED <<pc, len, got, failures, last>>
        /\ status' = [n |-> status.n + 1, start |-> rxptr, len |-> l]
        /\ mem' = [c \in Cells |-> IF c \in Span(rxptr, l) THEN status.n + 1 ELSE mem[c]]
    BY DEF FrameArrives, Fill, call
  <1>3. Stored'
    <2> SUFFICES ASSUME rxptr = RX_BASE, NEW c \in Cells,
                        RX_BASE <= c, c < RX_BASE + l
                 PROVE  mem'[c] = status.n + 1
      BY <1>2 DEF Stored
    <2>1. Span(RX_BASE, l) = {d \in Cells : RX_BASE <= d /\ d < RX_BASE + l}
      BY <1>1, SpanFacts
    <2>2. QED  BY <1>2, <2>1
  <1>4. status'.n = status.n + 1 /\ got'.n # status'.n
    BY <1>1, <1>2
  <1>5. Reading' /\ Whole' /\ Heard'
    BY <1>1, <1>2, <1>4 DEF BInv, Reading, Whole, Heard
  <1>6. QED  BY <1>3, <1>5 DEF BInv

LEMMA TxKeepsBuffer ==
    ASSUME RadioAssumption, Halves, TInv, BInv,
           (\E l \in TxLens : Tx(l)) \/ TxSteps
    PROVE  BInv'
  <1> USE DEF At, Return, radio, call, hist, rest
  <1>1. CASE \E l \in TxLens : Tx(l)
    <2>1. PICK l \in TxLens : Tx(l)
      BY <1>1
    <2>2. /\ UNCHANGED <<mem, status, got>>
          /\ pc' = "tx_setup" /\ len' \in TxLens
      BY <2>1 DEF Tx
    <2>3. QED  BY <2>2 DEF BInv, Stored, Reading, Whole, Heard
  <1>2. CASE TxSetup
    <2>1. /\ UNCHANGED <<status, len, got>> /\ pc' \in {"tx_go", "idle"}
          /\ pc = "tx_setup"
      BY <1>2 DEF TxSetup
    <2>2. /\ BUF_SIZE \in Nat /\ 0 \in Cells /\ RX_BASE \in Cells /\ len \in Nat
          /\ 0 + len <= BUF_SIZE /\ len <= RX_BASE
      <3>1. len \in TxLens
        BY <2>1 DEF BInv, Reading
      <3>2. len \in 1 .. BUF_SIZE /\ len <= RX_BASE
        BY <3>1 DEF RadioAssumption, Halves
      <3>3. BUF_SIZE \in Nat /\ RX_BASE \in 0 .. BUF_SIZE - 1
        BY DEF RadioAssumption
      <3>4. QED  BY <3>2, <3>3 DEF Cells
    <2>3. ASSUME NEW c \in Cells, RX_BASE <= c PROVE mem'[c] = mem[c]
      <3>1. c \notin Span(0, len)
        BY <2>2, <2>3, SpanFacts DEF Cells
      <3>2. CASE UNCHANGED mem  BY <3>2
      <3>3. CASE Fill(Span(TX_BASE, len), 0)  BY <3>1, <3>3 DEF Fill, TX_BASE
      <3>4. QED  BY <1>2, <3>2, <3>3 DEF TxSetup
    <2>4. Stored'
      BY <2>1, <2>3 DEF BInv, Stored
    <2>5. QED  BY <2>1, <2>4 DEF BInv, Reading, Whole, Heard
  <1>3. CASE TxGo \/ TxWait \/ TxEnd \/ TxRx \/ TxReturn
    <2>1. /\ UNCHANGED <<mem, status, len, got>>
          /\ pc' \in {"tx_wait", "tx_end", "tx_rx", "tx_return", "idle"}
      BY <1>3 DEF TxGo, TxWait, TxEnd, TxRx, TxReturn
    <2>2. QED  BY <2>1 DEF BInv, Stored, Reading, Whole, Heard
  <1>4. QED  BY <1>1, <1>2, <1>3 DEF TxSteps

LEMMA RxKeepsBuffer ==
    ASSUME RadioAssumption, Halves, TInv, BInv, RxSteps
    PROVE  BInv'
  <1> USE DEF At, Return, radio, call, hist, rest
  <1>1. UNCHANGED <<mem, status>>
    BY DEF RxSteps, RxPoll, RxStatus, RxRead, RxClear, RxSignal, RxRestart, RxReturn
  <1>2. Stored'
    BY <1>1 DEF BInv, Stored
  <1>3. CASE RxPoll \/ RxReturn
    <2>1. UNCHANGED <<len, got>> /\ pc' \in {"rx_status", "idle"}
      BY <1>3 DEF RxPoll, RxReturn
    <2>2. QED  BY <1>1, <1>2, <2>1 DEF BInv, Reading, Whole, Heard
  <1>4. CASE RxStatus
    <2>1. CASE /\ len' = status.len
               /\ got' = [n |-> status.n, start |-> status.start, intact |-> FALSE]
               /\ pc' = IF status.len = 0 THEN "rx_restart" ELSE "rx_read"
      <3>1. got'.n = status.n /\ got'.start = status.start /\ status.n \in Nat
        BY <2>1 DEF TInv, TypeOK, Numbers
      <3>2. pc' = "rx_read" \/ (pc' = "rx_restart" /\ len' = 0)
        BY <2>1
      <3>3. QED  BY <1>1, <1>2, <2>1, <3>1, <3>2 DEF BInv, Reading, Whole, Heard
    <2>2. CASE UNCHANGED <<len, got>> /\ pc' = "idle"
      BY <1>1, <1>2, <2>2 DEF BInv, Reading, Whole, Heard
    <2>3. QED  BY <1>4, <2>1, <2>2 DEF RxStatus
  <1>5. CASE RxRead
    <2>1. CASE got' = [got EXCEPT !.intact = InPlace(got, len)] /\ len' = len /\ pc' = "rx_clear"
      <3>1. got'.n = got.n /\ got'.start = got.start /\ got'.intact = InPlace(got, len)
        BY <2>1 DEF TInv, TypeOK
      <3>2. ASSUME got.start = RX_BASE, got.n = status.n, len > 0 PROVE InPlace(got, len)
        <4>1. status.start = RX_BASE /\ len = status.len
          BY <1>5, <3>2 DEF RxRead, BInv, Reading
        <4>2. /\ len \in FrameLens /\ len \in Nat /\ BUF_SIZE \in Nat
              /\ RX_BASE \in Cells /\ RX_BASE + len <= BUF_SIZE
          BY <3>2, <4>1 DEF TInv, TypeOK, RadioAssumption, Halves, Cells
        <4>3. Span(RX_BASE, len) = {c \in Cells : RX_BASE <= c /\ c < RX_BASE + len}
          BY <4>2, SpanFacts
        <4>4. QED  BY <3>2, <4>1, <4>3 DEF BInv, Stored, InPlace
      <3>3. Whole'
        BY <1>1, <2>1, <3>1, <3>2 DEF Whole
      <3>4. QED  BY <1>1, <1>2, <2>1, <3>1, <3>3 DEF BInv, Reading, Heard
    <2>2. CASE UNCHANGED got /\ len' = 0 /\ pc' = "rx_restart"
      BY <1>1, <1>2, <2>2 DEF BInv, Reading, Whole, Heard
    <2>3. QED  BY <1>5, <2>1, <2>2 DEF RxRead
  <1>6. CASE RxClear
    <2>1. UNCHANGED <<len, got>> /\ pc = "rx_clear" /\ pc' = "rx_signal"
      BY <1>6 DEF RxClear
    <2>2. QED  BY <1>1, <1>2, <2>1 DEF BInv, Reading, Whole, Heard
  <1>7. CASE RxSignal
    <2>1. UNCHANGED <<len, got>> /\ pc = "rx_signal" /\ pc' = "rx_restart" /\ status.n >= 1
      BY <1>7 DEF RxSignal, TInv, Announced
    <2>2. last' = SignalOf(status.n) \/ "PacketStatus" \in failures'
      BY <1>7 DEF RxSignal, Fails, SignalOf
    <2>3. SignalOf(status.n)' = SignalOf(status.n)
      BY <1>1 DEF SignalOf
    <2>4. Heard'
      BY <1>1, <2>1, <2>2, <2>3 DEF Heard
    <2>5. QED  BY <1>1, <1>2, <2>1, <2>4 DEF BInv, Reading, Whole
  <1>8. CASE RxRestart
    <2>1. UNCHANGED <<len, got>> /\ pc = "rx_restart" /\ pc' = "rx_return"
      BY <1>8 DEF RxRestart
    <2>2. QED  BY <1>1, <1>2, <2>1 DEF BInv, Reading, Whole, Heard
  <1>9. QED  BY <1>3, <1>4, <1>5, <1>6, <1>7, <1>8 DEF RxSteps

LEMMA BufferInductive ==
    ASSUME Halves
    PROVE  Spec => [](TInv /\ BInv)
  <1>1. Init => BInv
    BY RadioAssumption DEF RadioAssumption, Init, BInv, Stored, Reading, Whole, Heard,
                           NoFrame, Nothing, Cells
  <1>2. BInv /\ TInv /\ [Next]_vars => BInv'
    <2> SUFFICES ASSUME BInv, TInv, [Next]_vars PROVE BInv'
      OBVIOUS
    <2>1. CASE Next
      <3>1. CASE TxDone \/ TxTimeout \/ SUBGHZ_Radio_IRQHandler
        <4>1. UNCHANGED <<mem, status, pc, len, got, last, failures>>
          BY <3>1 DEF TxDone, TxTimeout, SUBGHZ_Radio_IRQHandler, call, rest
        <4>2. QED
          BY <4>1 DEF BInv, Stored, Reading, Whole, Heard, SignalOf
      <3>2. QED
        BY <2>1, <3>1, RadioAssumption, ArrivalKeeps, TxKeepsBuffer, RxKeepsBuffer
           DEF Next, Driver
    <2>2. CASE UNCHANGED vars
      BY <2>2 DEF vars, radio, call, rest, BInv, Stored, Reading, Whole, Heard, SignalOf
    <2>3. QED  BY <2>1, <2>2
  <1>3. QED  BY <1>1, <1>2, InitTypes, StepTypes, PTL DEF Spec

\* With frames and transmissions that each fit in their half of the buffer, a
\* returned frame that begins at the RX base is the one that was received, for
\* every size of the buffer (radio_stm32wl.c:171-174, 357, 428).
THEOREM ReturnsIntact ==
    ASSUME Halves PROVE Spec => []IntactFromBase
  <1>1. BInv => IntactFromBase  BY DEF BInv, Whole, IntactFromBase
  <1>2. QED  BY BufferInductive, <1>1, PTL

\* RSSI and SNR are those of the returned frame, for every byte the radio may
\* report (radio_stm32wl.c:441-445).
THEOREM SignalCorrect ==
    ASSUME Halves PROVE Spec => []SignalOfFrame
  <1>1. TInv /\ BInv => SignalOfFrame
    <2> SUFFICES ASSUME TInv, BInv, pc = "rx_restart", len > 0, got.n = status.n,
                        "PacketStatus" \notin failures
                 PROVE  /\ Signal[got.n].rssi < 128
                              => 2 * last.rssi + Signal[got.n].rssi \in 0 .. 1
                        /\ 4 * last.snr - Int8(Signal[got.n].snr) \in -3 .. 3
      BY DEF SignalOfFrame
    <2>1. last = SignalOf(got.n) /\ got.n \in 1 .. MAX_FRAMES
      BY RadioAssumption DEF BInv, Heard, TInv, TypeOK, Numbers, RadioAssumption
    <2>2. Signal[got.n].rssi \in 0 .. 255 /\ Signal[got.n].snr \in 0 .. 255
      <3>1. Signal \in [1 .. MAX_FRAMES -> [rssi : 0 .. 255, snr : 0 .. 255]]
        BY Zenon, RadioAssumption DEF RadioAssumption
      <3>2. Signal[got.n] \in [rssi : 0 .. 255, snr : 0 .. 255]
        BY Zenon, <2>1, <3>1
      <3>3. QED  BY <3>2
    <2>3. last.rssi = Rssi(Signal[got.n].rssi) /\ last.snr = Snr(Signal[got.n].snr)
      BY <2>1 DEF SignalOf
    <2>4. QED  BY <2>2, <2>3, SignalRange
  <1>2. QED  BY BufferInductive, <1>1, PTL
-----------------------------------------------------------------------------
(* What rx_poll never returns twice.                                       *)

\* Whatever announces a frame, the flag or rx_pending, announces one that was
\* not returned yet; a poll that has its frame leaves the flag to newer ones.
Unreturned ==
    /\ returned <= status.n
    /\ rx_pending => returned < status.n
    /\ "RX_DONE" \in irq => returned < status.n
    /\ pc = "rx_status" => returned < status.n

Polled ==
    /\ pc \in {"rx_read", "rx_clear", "rx_signal", "rx_restart", "rx_return"} /\ len > 0
          => returned < got.n /\ got.n <= status.n
    /\ pc \in {"rx_signal", "rx_restart", "rx_return"} /\ len > 0 /\ "RX_DONE" \in irq
          => got.n < status.n
    /\ pc \in {"rx_status", "rx_read", "rx_clear", "rx_signal", "rx_restart", "rx_return"}
          => ~rx_pending

Once == Unreturned /\ Polled

\* The types of the numbers that are compared.
LEMMA NumbersAreNat == TInv => status.n \in Nat /\ got.n \in Nat /\ returned \in Nat
  BY RadioAssumption DEF RadioAssumption, TInv, TypeOK, Numbers

LEMMA RadioKeepsOnce ==
    ASSUME TInv, NoReentry, Once,
           \/ \E l \in FrameLens : FrameArrives(l)
           \/ TxDone \/ TxTimeout \/ SUBGHZ_Radio_IRQHandler
    PROVE  Once'
  <1> USE NumbersAreNat DEF Once, Unreturned, Polled
  <1>1. CASE \E l \in FrameLens : FrameArrives(l)
    <2>1. /\ UNCHANGED <<pc, len, got, returned, rx_pending>>
          /\ status'.n = status.n + 1
      BY <1>1 DEF FrameArrives, call, hist
    <2>2. QED  BY <2>1
  <1>2. CASE TxDone \/ TxTimeout
    <2>1. /\ UNCHANGED <<pc, len, got, returned, rx_pending, status>>
          /\ "RX_DONE" \in irq' => "RX_DONE" \in irq
      BY <1>2 DEF TxDone, TxTimeout, call, rest, hist
    <2>2. QED  BY <2>1
  <1>3. CASE SUBGHZ_Radio_IRQHandler
    <2>1. /\ UNCHANGED <<pc, len, got, returned, status>>
          /\ irq' = {} /\ nvic
          /\ rx_pending' => rx_pending \/ "RX_DONE" \in irq
      BY <1>3 DEF SUBGHZ_Radio_IRQHandler, IsrPending, call, rest, hist
    <2>2. pc = "idle"
      BY <2>1 DEF NoReentry
    <2>3. QED  BY <2>1, <2>2
  <1>4. QED  BY <1>1, <1>2, <1>3

LEMMA TxKeepsOnce ==
    ASSUME TInv, Once, (\E l \in TxLens : Tx(l)) \/ TxSteps
    PROVE  Once'
  <1>1. /\ UNCHANGED <<status, got, returned, rx_pending>>
        /\ pc' \in {"idle", "tx_setup", "tx_go", "tx_wait", "tx_end", "tx_rx",
                   "tx_return"}
        /\ "RX_DONE" \in irq' => "RX_DONE" \in irq
    <2> USE DEF radio, call, hist, rest, Return
    <2>1. CASE \E l \in TxLens : Tx(l)  BY <2>1 DEF Tx
    <2>2. CASE TxSetup  BY <2>2 DEF TxSetup
    <2>3. CASE TxGo \/ TxWait  BY <2>3 DEF TxGo, TxWait
    <2>4. CASE TxEnd \/ TxRx \/ TxReturn  BY <2>4 DEF TxEnd, TxRx, TxReturn
    <2>5. QED  BY <2>1, <2>2, <2>3, <2>4 DEF TxSteps
  <1>2. QED  BY <1>1, NumbersAreNat DEF Once, Unreturned, Polled

LEMMA RxKeepsOnce ==
    ASSUME TInv, Once, RxSteps
    PROVE  Once'
  <1> USE NumbersAreNat DEF Once, Unreturned, Polled, At, Return, radio, call, hist, rest
  <1>1. CASE RxPoll
    <2>1. /\ UNCHANGED <<status, irq, returned>>
          /\ rx_pending /\ ~rx_pending' /\ pc' = "rx_status"
      BY <1>1 DEF RxPoll
    <2>2. QED  BY <2>1
  <1>2. CASE RxStatus
    <2>1. /\ UNCHANGED <<status, irq, returned, rx_pending>> /\ pc = "rx_status"
          /\ \/ pc' = "idle"
             \/ pc' = "rx_restart" /\ len' = 0
             \/ pc' = "rx_read" /\ got'.n = status.n
      BY <1>2 DEF RxStatus
    <2>2. QED  BY <2>1
  <1>3. CASE RxRead
    <2>1. /\ UNCHANGED <<status, irq, returned, rx_pending>> /\ pc = "rx_read"
          /\ \/ pc' = "rx_clear" /\ len' = len /\ got'.n = got.n
             \/ pc' = "rx_restart" /\ len' = 0
      BY <1>3 DEF RxRead, TInv, TypeOK
    <2>2. QED  BY <2>1
  <1>4. CASE RxClear  BY <1>4 DEF RxClear
  <1>5. CASE RxSignal \/ RxRestart
    <2>1. /\ UNCHANGED <<status, irq, returned, rx_pending, len, got>>
          /\ pc \in {"rx_signal", "rx_restart"} /\ pc' \in {"rx_restart", "rx_return"}
      BY <1>5 DEF RxSignal, RxRestart
    <2>2. QED  BY <2>1
  <1>6. CASE RxReturn
    <2>1. /\ UNCHANGED <<status, irq, rx_pending>> /\ pc = "rx_return" /\ pc' = "idle"
          /\ returned' = IF len > 0 THEN got.n ELSE returned
      BY <1>6 DEF RxReturn
    <2>2. CASE len > 0  BY <2>1, <2>2
    <2>3. CASE ~(len > 0)  BY <2>1, <2>3
    <2>4. QED  BY <2>2, <2>3
  <1>7. QED  BY <1>1, <1>2, <1>3, <1>4, <1>5, <1>6 DEF RxSteps

\* rx_poll never returns a frame twice, nor an older one after a newer one,
\* whichever frames complete between its commands and whichever of them fail
\* (radio_stm32wl.c:394-454).
THEOREM NeverReplayed == Spec => NoReplay
  <1>1. Init => Once
    BY DEF Init, NoFrame, Once, Unreturned, Polled
  <1>2. TInv /\ IInv /\ Once /\ [Next]_vars => Once'
    <2> SUFFICES ASSUME TInv, NoReentry, Once, [Next]_vars PROVE Once'
      BY DEF IInv
    <2>1. CASE Next
      BY <2>1, RadioKeepsOnce, TxKeepsOnce, RxKeepsOnce DEF Next, Driver
    <2>2. CASE UNCHANGED vars
      BY <2>2 DEF vars, radio, call, hist, rest, Once, Unreturned, Polled
    <2>3. QED  BY <2>1, <2>2
  <1>3. TInv /\ Once /\ [Next]_vars => [RxReturn /\ len > 0 => got.n > returned]_vars
    <2>1. ASSUME TInv, Once, RxReturn, len > 0 PROVE got.n > returned
      BY <2>1, NumbersAreNat DEF RxReturn, At, Once, Polled
    <2>2. QED  BY <2>1
  <1>4. QED  BY InitTypes, StepTypes, Inductive, <1>1, <1>2, <1>3, PTL DEF Spec, NoReplay
=============================================================================
