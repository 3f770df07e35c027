----------------------------- MODULE LoraConfig ------------------------------
(***************************************************************************)
(* Radio/lora_meshtastic.c and the part of Radio/radio_stm32wl.c that      *)
(* programs it: lora_init with the set-up of the whole radio, and          *)
(* lora_set_region_preset, down to the registers.  The calls are made by   *)
(* the main loop only and nothing looks at the parameters in between, so a *)
(* call is one step, with the HAL commands that fail in it.  A command     *)
(* that fails leaves what it would have set as it was.  The antenna is     *)
(* switched to the receiver at the end of stm32wl_radio_init and stays     *)
(* there (RadioDriver).                                                    *)
(* Frequencies are in kHz: all of the code's are multiples of it.          *)
(***************************************************************************)
EXTENDS Integers, FiniteSets

CONSTANTS AskedRegions,     \* the regions the calls ask for
          Faults,           \* the HAL commands that may fail in a change
          MAX_INIT_FAULTS   \* bound: commands that fail in stm32wl_radio_init

Regions == {"EU_868", "US_915", "EU_433", "LORA_24"}
Presets == {"SHORT_FAST", "SHORT_SLOW", "MEDIUM_FAST", "MEDIUM_SLOW",
            "LONG_FAST", "LONG_SLOW", "VERY_LONG_SLOW"}

\* What radio_apply_lora_params programs before the oscillator is chosen, and
\* after it.  A reset of the radio loses all of it.
Early == {"SetRegulator"}
Later == {"Calibrate", "CalibrateImage", "SetFallback", "SetPacketType",
          "SetRfFrequency", "SetModulation", "SetPacket", "WriteSync",
          "SetBufferBase", "SetRfSwitch", "SetPa", "TxClamp", "WriteOcp",
          "SetTxParams", "CfgDioIrq"}
Settings == Early \cup Later

Oscillator == {"ClrError", "SetTcxo", "GetError"}
InitCommands == (Settings \ {"TxClamp"}) \cup {"ReadClamp", "WriteClamp"}
                    \cup Oscillator \cup {"SetStandby", "ClrIrq", "SetRx"}

ASSUME FaultsAssumption ==
    /\ Faults \subseteq {"SetStandby", "SetRfFrequency", "SetModulation",
                         "SetPacket", "WriteSync", "SetRx"}
    /\ MAX_INIT_FAULTS \in Nat /\ AskedRegions \subseteq Regions

region_freq_default ==
    [EU_868 |-> 869525, US_915 |-> 906875, EU_433 |-> 433875, LORA_24 |-> 2403000]

\* Mutation: Long Fast takes the narrow channel too.
NarrowLongFast(p) ==
    IF p \in {"LONG_FAST", "LONG_SLOW", "VERY_LONG_SLOW"} THEN 125000 ELSE 250000
Bandwidth(p) == IF p \in {"LONG_SLOW", "VERY_LONG_SLOW"} THEN 125000 ELSE 250000

Spreading == [SHORT_FAST |-> 7, SHORT_SLOW |-> 8, MEDIUM_FAST |-> 9, MEDIUM_SLOW |-> 10,
              LONG_FAST |-> 11, LONG_SLOW |-> 12, VERY_LONG_SLOW |-> 12]

modem_presets ==
    [p \in Presets |-> [sf |-> Spreading[p],
                        bw |-> Bandwidth(p),
                        cr |-> IF p \in {"LONG_SLOW", "VERY_LONG_SLOW"} THEN 8 ELSE 5]]

-----------------------------------------------------------------------------
(* The conversions to the radio's registers. *)

REGISTER_MAX == 65535   \* a 16-bit half of the frequency register
Register == 0 .. REGISTER_MAX

\* freq_to_rf_reg: f * 2^25 / 32 MHz, as its two 16-bit halves.
freq_to_rf_reg(khz) ==
    <<(2 * khz) \div 125, (((2 * khz) % 125) * 65536) \div 125>>

\* The upper limit of each bandwidth register value in turn.
BwLimits == <<7810, 10420, 15630, 20830, 31250, 41670, 62500, 125000, 250000>>
BwParams == <<0, 8, 1, 9, 2, 10, 3, 4, 5, 6>>
bw_to_param(bw) ==
    LET wide == {i \in 1 .. 9 : bw <= BwLimits[i]}
    IN  BwParams[IF wide = {} THEN 10
                 ELSE CHOOSE i \in wide : \A j \in wide : i <= j]

\* Mutation: the denominator itself.
cr_unconverted(cr) == cr
cr_to_param(cr) == IF cr <= 5 THEN 1 ELSE IF cr <= 7 THEN cr - 4 ELSE 4

\* Mutation: < for <=.
LdroWide(sf, bw) == sf >= 11 /\ bw < 125000
\* LowDataRateOptimize of set_lora.
Ldro(sf, bw) == sf >= 11 /\ bw <= 125000
\* The same, written once more in radio_apply_lora_params.
LdroAtInit(sf, bw) == sf >= 11 /\ bw <= 125000

\* External: what the radio makes of the bandwidth register, in Hz.
RadioBw == <<15630, 31250, 62500, 125000, 250000, 500000>>

Modulated(m, ldro) == [sf   |-> m.sf,
                       bw   |-> bw_to_param(m.bw),
                       cr   |-> cr_to_param(m.cr),
                       ldro |-> ldro]
Modulation(m) == Modulated(m, Ldro(m.sf, m.bw))

-----------------------------------------------------------------------------
VARIABLES s_params, s_inited,
          board_tcxo,   \* the board: a TCXO on DIO3, or a plain crystal
          radio,        \* frequency, modulation, oscillator, what is programmed
          mode,         \* "RESET", "STANDBY" or "RX"
          call,         \* history: what the last call was asked and returned
          preset,       \* history: the preset of s_params, "none" before one is set
          init_failed   \* history: the commands that failed in lora_init

vars == <<s_params, s_inited, board_tcxo, radio, mode, call, preset, init_failed>>

Params(khz, m) == [freq |-> khz, sf |-> m.sf, bw |-> m.bw, cr |-> m.cr]
Default == [sf |-> 11, bw |-> 250000, cr |-> 5]
DEFAULT_FREQ == 868100

\* What radio_apply_lora_params sets, the driver's own default.
InitModulation == Modulated(Default, LdroAtInit(Default.sf, Default.bw))

NoModulation == [sf |-> 0, bw |-> 0, cr |-> 0, ldro |-> FALSE]

\* The radio after LL_RCC_RF_EnableReset.
Reset == [freq |-> <<0, 0>>, mod |-> NoModulation, tcxo |-> FALSE, set |-> {}]

\* The static variables of the C program are zero.
Init ==
    /\ s_params = [freq |-> 0, sf |-> 0, bw |-> 0, cr |-> 0]
    /\ s_inited = FALSE
    /\ board_tcxo \in BOOLEAN
    /\ radio = Reset
    /\ mode = "RESET"
    /\ call = "none"
    /\ preset = "none"
    /\ init_failed = {}

\* External: SET_TCXOMODE raises the XOSC error on a board without one.
RaisesXosc(bad) == ~board_tcxo /\ "SetTcxo" \notin bad

\* Mutation: the error flag is read without having been cleared.
XoscUncleared(bad, stale) == (RaisesXosc(bad) \/ stale) /\ "GetError" \notin bad
\* The XOSC error flag the driver reads; stale: it was up before.
XoscError(bad, stale) ==
    /\ RaisesXosc(bad) \/ (stale /\ "ClrError" \in bad)
    /\ "GetError" \notin bad

\* Mutation: the reset of the fallback is not followed by the early settings.
NothingAgain == {}
\* What is programmed again after the reset of the fallback.
Again == Early

\* The settings that reach the radio.  RADIO_SET_REGULATORMODE in bad: the
\* last one fails.  A failed read of the clamp writes an undefined value.
Programmed(bad, fallback) ==
    {s \in Later \cup (IF fallback THEN Again ELSE Early) :
        IF s = "TxClamp" THEN {"ReadClamp", "WriteClamp"} \cap bad = {}
                         ELSE s \notin bad}

\* radio_apply_lora_params on a radio that was just reset.
Applied(bad, fallback) ==
    LET set == Programmed(bad, fallback)
    IN  [freq |-> IF "SetRfFrequency" \in set THEN freq_to_rf_reg(DEFAULT_FREQ)
                                              ELSE Reset.freq,
         mod  |-> IF "SetModulation" \in set THEN InitModulation ELSE Reset.mod,
         tcxo |-> ~fallback /\ "SetTcxo" \notin bad,
         set  |-> set]

\* stm32wl_radio_init returns true whatever failed; the driver listens on its
\* own default channel, whatever s_params says.
LoraInit(bad) ==
    /\ \E stale \in BOOLEAN : radio' = Applied(bad, XoscError(bad, stale))
    /\ mode' = IF "SetRx" \in bad THEN "STANDBY" ELSE "RX"
    /\ s_params' = Params(region_freq_default["EU_868"], Default)
    /\ s_inited' = TRUE
    /\ call' = "init"
    /\ init_failed' = bad
    /\ UNCHANGED <<board_tcxo, preset>>

LoraInitAgain ==
    /\ s_inited
    /\ call' = "init"
    /\ UNCHANGED <<s_params, s_inited, board_tcxo, radio, mode, preset, init_failed>>

\* Radio mode after SET_STANDBY and SET_RX; a failure of these is ignored.
AfterStandby(m, bad) == IF "SetStandby" \in bad THEN m ELSE "STANDBY"
AfterSetRx(m, bad) == IF "SetRx" \in bad THEN m ELSE "RX"

\* Mutation: a failure of the first half is not noticed.
SetFreqUnchecked(khz, bad) ==
    [ok |-> TRUE,
     freq |-> IF "SetRfFrequency" \in bad THEN radio.freq ELSE freq_to_rf_reg(khz),
     mode |-> AfterSetRx(AfterStandby(mode, bad), bad)]

\* stm32wl_radio_set_freq: result, frequency register, and the mode it leaves.
SetFreq(khz, bad) ==
    IF "SetRfFrequency" \in bad
      THEN [ok |-> FALSE, freq |-> radio.freq, mode |-> AfterStandby(mode, bad)]
      ELSE [ok |-> TRUE, freq |-> freq_to_rf_reg(khz),
            mode |-> AfterSetRx(AfterStandby(mode, bad), bad)]

\* stm32wl_radio_set_lora, from the mode set_freq left.
SetLora(m, from, bad) ==
    LET modOk  == "SetModulation" \notin bad
        packOk == "SetPacket" \notin bad
    IN  [ok   |-> modOk /\ packOk,
         mod  |-> IF modOk THEN Modulation(m) ELSE radio.mod,
         set  |-> IF ~modOk THEN {}
                  ELSE {"SetModulation"} \cup IF packOk THEN {"SetPacket", "WriteSync"} \ bad
                                             ELSE {},
         mode |-> IF modOk /\ packOk THEN AfterSetRx(AfterStandby(from, bad), bad)
                  ELSE AfterStandby(from, bad)]

\* An enum value out of its range is refused before anything happens.
LoraSetInvalid ==
    /\ s_inited
    /\ call' = "failed"
    /\ UNCHANGED <<s_params, s_inited, board_tcxo, radio, mode, preset, init_failed>>

LoraSetRegionPreset(r, p, bad) ==
    /\ s_inited
    /\ LET khz  == region_freq_default[r]
           m    == modem_presets[p]
           freq == SetFreq(khz, bad)
           lora == SetLora(m, freq.mode, bad)
       IN  /\ s_params' = Params(khz, m)
           /\ preset' = p
           /\ \/ /\ ~freq.ok
                 /\ radio' = [radio EXCEPT !.freq = freq.freq]
                 /\ mode' = freq.mode
                 /\ call' = "failed"
              \/ /\ freq.ok
                 /\ radio' = [radio EXCEPT !.freq = freq.freq, !.mod = lora.mod,
                                 !.set = @ \cup {"SetRfFrequency"} \cup lora.set]
                 /\ mode' = lora.mode
                 /\ call' = IF lora.ok THEN "set" ELSE "failed"
    /\ UNCHANGED <<s_inited, board_tcxo, init_failed>>

Next == \/ /\ ~s_inited
           /\ \E bad \in SUBSET InitCommands :
                 Cardinality(bad) <= MAX_INIT_FAULTS /\ LoraInit(bad)
        \/ LoraInitAgain
        \/ LoraSetInvalid
        \/ \E r \in AskedRegions, p \in Presets, bad \in SUBSET Faults :
              LoraSetRegionPreset(r, p, bad)

Spec == Init /\ [][Next]_vars

-----------------------------------------------------------------------------
(* External: the time on air of a LoRa frame of n bytes with explicit       *)
(* header, CRC and the 16-symbol preamble, in quarter symbols, and of a     *)
(* symbol in microseconds (SX126x data sheet, 6.1.4).                       *)

Pow2 == <<2, 4, 8, 16, 32, 64, 128, 256, 512, 1024, 2048, 4096>>

SymbolTime(mod) == (Pow2[mod.sf] * 8000) \div (RadioBw[mod.bw] \div 125)

QuarterSymbols(mod, n) ==
    LET bits   == 8 * n - 4 * mod.sf + 44
        chunk  == 4 * (mod.sf - IF mod.ldro THEN 2 ELSE 0)
        blocks == (bits + chunk - 1) \div chunk
    IN  81 + 4 * (8 + blocks * (mod.cr + 4))

TimeOnAir(mod, n) == (QuarterSymbols(mod, n) * SymbolTime(mod)) \div 4

TX_TIMEOUT == 3000000   \* SET_TX with 0x02EE00 steps of 15.625 us
LONGEST == 255          \* bytes: the longest frame the radio sends
Narrow == {"LONG_SLOW", "VERY_LONG_SLOW"}

-----------------------------------------------------------------------------
Channel == [freq : {0} \cup {region_freq_default[r] : r \in Regions},
            sf : {0} \cup 7 .. 12, bw : {0, 125000, 250000}, cr : {0, 5, 8}]
Programming == [freq : Register \X Register,
                mod  : [sf : {0} \cup 7 .. 12, bw : 0 .. 10, cr : 0 .. 4, ldro : BOOLEAN],
                tcxo : BOOLEAN, set : SUBSET Settings]

\* s_params hold a channel of the tables, the radio's registers one of the
\* values the conversions give.
TypeOK ==
    /\ s_params \in Channel
    /\ s_inited \in BOOLEAN /\ board_tcxo \in BOOLEAN
    /\ radio \in Programming
    /\ mode \in {"RESET", "STANDBY", "RX"}
    /\ call \in {"none", "init", "set", "failed"}
    /\ preset \in Presets \cup {"none"}
    /\ init_failed \subseteq InitCommands

\* The settings a failed command costs.
Lost(bad) == bad \cup IF {"ReadClamp", "WriteClamp"} \cap bad = {} THEN {} ELSE {"TxClamp"}

\* lora_init reports nothing (radio_stm32wl.c:281), so this is all there is to
\* rely on: a command that fails costs its own setting and no other, on boards
\* of both kinds, also through the reset of the fallback and whatever errors
\* the radio had up before; and the radio runs on the oscillator the board has
\* if the commands that look for it worked (radio_stm32wl.c:91-121).
InitProgramsTheRest ==
    s_inited => /\ Settings \ radio.set \subseteq Lost(init_failed)
                /\ init_failed \cap Oscillator = {} => radio.tcxo = board_tcxo

\* A lora_set_region_preset that returned true has put the radio on the
\* channel that lora_get_params reports, whatever calls failed before and
\* wherever they left the radio.
TrueMeansTuned ==
    call = "set" => /\ radio.freq = freq_to_rf_reg(s_params.freq)
                    /\ radio.mod = Modulation(s_params)

\* The low data rate optimization of the radio is on exactly when a symbol
\* takes 16 ms or more: what the other nodes assume of each preset, and of the
\* default the driver starts with (radio_stm32wl.c:155, 309).
LdroFollowsSymbolTime ==
    "SetModulation" \in radio.set
        => (radio.mod.ldro <=> SymbolTime(radio.mod) >= 16000)

\* On every channel but the two slow ones the longest frame is on the air
\* before the radio's own timeout ends the transmission
\* (radio_stm32wl.c:366).
LongestFrameFits ==
    call = "set" /\ preset \notin Narrow
        => TimeOnAir(radio.mod, LONGEST) < TX_TIMEOUT
=============================================================================
