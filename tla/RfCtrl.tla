------------------------------ MODULE RfCtrl ---------------------------------
(***************************************************************************)
(* Radio/rf_ctrl.c: the two pins of the antenna switch.  A setter writes   *)
(* one after the other, with no command to the radio between the two, so   *)
(* it is one assignment here.                                              *)
(***************************************************************************)
CONSTANT WIO_E5_RF_SWAP     \* the board's switch is wired the other way round

ASSUME SwapAssumption == WIO_E5_RF_SWAP \in BOOLEAN

Pins == [PA4 : BOOLEAN, PA5 : BOOLEAN]

RF_OFF == [PA4 |-> FALSE, PA5 |-> FALSE]
RF_RX  == [PA4 |-> ~WIO_E5_RF_SWAP, PA5 |-> WIO_E5_RF_SWAP]
RF_TX  == [PA4 |-> WIO_E5_RF_SWAP, PA5 |-> ~WIO_E5_RF_SWAP]

\* External: the receiver is connected, or the transmitter.
HearsAir(pins)    == pins = RF_RX
ReachesAir(pins)  == pins = RF_TX
=============================================================================
