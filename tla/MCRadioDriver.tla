--------------------------- MODULE MCRadioDriver ----------------------------
(***************************************************************************)
(* A buffer of eight cells with the RX base in the middle.  AirLens and    *)
(* TxHalf fit in one half, as frames up to 128 bytes do; TxLong does not,  *)
(* like the 147 bytes of the longest text (16 + 4 + 127).                  *)
(***************************************************************************)
EXTENDS RadioDriver, FiniteSets

AirLens   == {0, 3}
TxHalf    == {4}
OneLen    == {3}
TxLong    == {6}
NoFailure == {{}}

\* Any two commands, so that a transmission may go on after its call returned.
AnyTwo    == {f \in SUBSET Commands : Cardinality(f) <= 2}

\* A strong frame, a weak one with negative SNR, and an odd value.
ThreeSignals == <<[rssi |-> 100, snr |-> 40], [rssi |-> 200, snr |-> 250],
                  [rssi |-> 61, snr |-> 3]>>
OneSignal    == <<[rssi |-> 100, snr |-> 40]>>
=============================================================================
