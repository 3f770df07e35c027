------------------------- MODULE LoraConfig_proofs ---------------------------
(***************************************************************************)
(* For any regions asked for, any commands that may fail in a change and   *)
(* any number that fail in the set-up of the radio: a change that returned *)
(* true has tuned the radio, the set-up programs what did not fail, and    *)
(* the channels have the low data rate optimization and the time on air    *)
(* that they need.                                                         *)
(*                                                                         *)
(* The properties of the channels speak of the registers; Programmable     *)
(* says that these always hold a channel of the tables, and which one      *)
(* after a successful change.                                              *)
(***************************************************************************)
EXTENDS LoraConfig, TLAPS

Channels == {modem_presets[p] : p \in Presets} \cup {Default}

Programmable ==
    /\ "SetModulation" \in radio.set => \E m \in Channels : radio.mod = Modulation(m)
    /\ call = "set" => /\ preset \in Presets
                       /\ radio.mod = Modulation(modem_presets[preset])

IInv == TypeOK /\ TrueMeansTuned /\ InitProgramsTheRest /\ Programmable

-----------------------------------------------------------------------------
(* The tables and the conversions. *)

LEMMA ChannelFields ==
    ASSUME NEW m \in Channels
    PROVE  m \in [sf : 7 .. 12, bw : {125000, 250000}, cr : {5, 8}]
  <1>1. CASE m = Default  BY SMT, <1>1 DEF Default
  <1>2. CASE \E p \in Presets : m = modem_presets[p]
    <2>1. PICK p \in Presets : m = modem_presets[p]
      BY SMT, <1>2
    <2>2. Bandwidth(p) \in {125000, 250000}
      BY SMT DEF Bandwidth
    <2>3. QED  BY SMT, <2>1, <2>2 DEF modem_presets, Presets, Spreading
  <1>3. QED  BY SMT, <1>1, <1>2 DEF Channels

LEMMA BandwidthRegister ==
    bw_to_param(125000) = 4 /\ bw_to_param(250000) = 5
  <1>1. /\ {i \in 1 .. 9 : 125000 <= BwLimits[i]} = {8, 9}
        /\ {i \in 1 .. 9 : 250000 <= BwLimits[i]} = {9}
    BY SMT DEF BwLimits
  <1>2. /\ (CHOOSE i \in {8, 9} : \A j \in {8, 9} : i <= j) = 8
        /\ (CHOOSE i \in {9} : \A j \in {9} : i <= j) = 9
    OBVIOUS
  <1>3. BwParams[8] = 4 /\ BwParams[9] = 5
    BY SMT DEF BwParams
  <1>4. QED  BY SMT, <1>1, <1>2, <1>3 DEF bw_to_param

\* The two copies of the low data rate rule agree on the default channel.
LEMMA InitialModulation == InitModulation = Modulation(Default)
  BY DEF InitModulation, Modulation, LdroAtInit, Ldro

LEMMA ModulationOf ==
    ASSUME NEW m \in Channels
    PROVE  /\ Modulation(m) = [sf   |-> m.sf,
                               bw   |-> IF m.bw = 125000 THEN 4 ELSE 5,
                               cr   |-> IF m.cr = 5 THEN 1 ELSE 4,
                               ldro |-> m.sf >= 11 /\ m.bw <= 125000]
           /\ Modulation(m) \in [sf : {0} \cup 7 .. 12, bw : 0 .. 10, cr : 0 .. 4,
                                 ldro : BOOLEAN]
  <1>1. m.sf \in 7 .. 12 /\ m.bw \in {125000, 250000} /\ m.cr \in {5, 8}
    BY SMT, ChannelFields
  <1>2. bw_to_param(m.bw) = IF m.bw = 125000 THEN 4 ELSE 5
    BY SMT, <1>1, BandwidthRegister
  <1>3. cr_to_param(m.cr) = IF m.cr = 5 THEN 1 ELSE 4
    BY SMT, <1>1 DEF cr_to_param
  <1>4. Modulation(m) = [sf   |-> m.sf,
                         bw   |-> IF m.bw = 125000 THEN 4 ELSE 5,
                         cr   |-> IF m.cr = 5 THEN 1 ELSE 4,
                         ldro |-> m.sf >= 11 /\ m.bw <= 125000]
    BY SMT, <1>2, <1>3 DEF Modulation, Modulated, Ldro
  <1>5. QED  BY SMT, <1>1, <1>4

LEMMA FitsRegister ==
    ASSUME NEW n \in Nat, n <= 65535 PROVE n \in Register
  <1>1. REGISTER_MAX \in Nat /\ n <= REGISTER_MAX
    BY SMT DEF REGISTER_MAX
  <1>2. QED  BY SMT, <1>1 DEF Register

LEMMA FrequencyRegister ==
    ASSUME NEW khz \in {DEFAULT_FREQ} \cup {region_freq_default[r] : r \in Regions}
    PROVE  freq_to_rf_reg(khz) \in Register \X Register
  <1>1. khz \in Nat /\ khz <= 2500000
    BY SMT DEF DEFAULT_FREQ, region_freq_default, Regions
  <1> DEFINE n == 2 * khz
             q == n \div 125
             r == n % 125
  <1>2. n \in Nat /\ n <= 5000000
    BY SMT, <1>1
  <1> HIDE DEF n
  <1>3. q \in Nat /\ 125 * q <= n /\ r \in Nat /\ r <= 124
    BY SMT, <1>2
  <1> HIDE DEF q, r
  <1>4. q <= 65535
    BY SMT, <1>2, <1>3
  <1> DEFINE w == r * 65536
             t == w \div 125
  <1>5. w \in Nat /\ w <= 8126464
    BY SMT, <1>3
  <1> HIDE DEF w
  <1>6. t \in Nat /\ 125 * t <= w
    BY SMT, <1>5
  <1>7. t <= 65535
    BY SMT, <1>5, <1>6
  <1>8. freq_to_rf_reg(khz) = <<q, t>>
    BY DEF freq_to_rf_reg, n, q, r, w
  <1> HIDE DEF t
  <1>9. q \in Register /\ t \in Register
    BY <1>3, <1>4, <1>6, <1>7, FitsRegister
  <1>10. QED  BY <1>8, <1>9

-----------------------------------------------------------------------------
(* The calls. *)

LEMMA InitEstablishes == Init => IInv
  <1> SUFFICES ASSUME Init PROVE IInv
    OBVIOUS
  <1>1. 0 \in Register
    BY FitsRegister
  <1>2. radio \in Programming
    BY <1>1 DEF Init, Reset, NoModulation, Programming
  <1>3. TypeOK
    <2>1. s_params \in Channel
      BY SMT DEF Init, Channel
    <2>2. /\ s_inited \in BOOLEAN /\ board_tcxo \in BOOLEAN
          /\ mode \in {"RESET", "STANDBY", "RX"}
          /\ call \in {"none", "init", "set", "failed"}
          /\ preset \in Presets \cup {"none"}
          /\ init_failed \subseteq InitCommands
      BY DEF Init
    <2>3. QED  BY <1>2, <2>1, <2>2 DEF TypeOK
  <1>4. QED
    BY <1>3 DEF Init, IInv, TrueMeansTuned, InitProgramsTheRest, Programmable, Reset

\* stm32wl_radio_init.
LEMMA FirstInit ==
    ASSUME IInv, NEW bad \in SUBSET InitCommands, LoraInit(bad)
    PROVE  IInv'
  <1>1. PICK stale \in BOOLEAN : radio' = Applied(bad, XoscError(bad, stale))
    BY DEF LoraInit
  <1>2. DEFINE fallback == XoscError(bad, stale)
               set      == Programmed(bad, fallback)
  <1>3. /\ mode' \in {"STANDBY", "RX"} /\ s_inited' = TRUE /\ call' = "init"
        /\ s_params' = Params(region_freq_default["EU_868"], Default)
        /\ init_failed' = bad /\ UNCHANGED <<board_tcxo, preset>>
    BY DEF LoraInit
  <1>4. /\ radio'.freq = (IF "SetRfFrequency" \in set THEN freq_to_rf_reg(DEFAULT_FREQ)
                                                      ELSE <<0, 0>>)
        /\ radio'.mod = (IF "SetModulation" \in set THEN Modulation(Default)
                                                    ELSE NoModulation)
        /\ radio'.tcxo = (~fallback /\ "SetTcxo" \notin bad)
        /\ radio'.set = set
        /\ radio' = [freq |-> radio'.freq, mod |-> radio'.mod, tcxo |-> radio'.tcxo,
                     set |-> radio'.set]
    BY <1>1, InitialModulation DEF Applied, Reset
  <1>5. set = {s \in Settings : IF s = "TxClamp" THEN {"ReadClamp", "WriteClamp"} \cap bad = {}
                                                 ELSE s \notin bad}
    BY DEF Programmed, Again, Settings
  <1>6. fallback \in BOOLEAN /\ (bad \cap Oscillator = {} => (fallback <=> ~board_tcxo))
    <2>1. bad \cap Oscillator = {}
            => "ClrError" \notin bad /\ "SetTcxo" \notin bad /\ "GetError" \notin bad
      BY DEF Oscillator
    <2>2. QED  BY <2>1, Zenon DEF XoscError, RaisesXosc
  <1> HIDE DEF set, fallback
  <1>7. Default \in Channels
    BY DEF Channels
  <1>8. radio'.freq \in Register \X Register
    BY <1>4, FrequencyRegister, FitsRegister
  <1>9. radio'.mod \in [sf : {0} \cup 7 .. 12, bw : 0 .. 10, cr : 0 .. 4, ldro : BOOLEAN]
    BY <1>4, <1>7, ModulationOf DEF NoModulation
  <1>10. s_params' \in Channel
    BY <1>3 DEF Params, Default, Regions, Channel
  <1>11. TypeOK'
    <2>1. radio'.tcxo \in BOOLEAN /\ radio'.set \in SUBSET Settings
      BY <1>4, <1>5, <1>6
    <2>2. radio' \in Programming
      BY <1>4, <1>8, <1>9, <2>1, Zenon DEF Programming
    <2>3. QED  BY <1>3, <1>10, <2>2 DEF TypeOK, IInv
  <1>12. InitProgramsTheRest'
    <2>1. Settings \ radio'.set \subseteq Lost(bad)
      BY <1>4, <1>5 DEF Lost
    <2>2. bad \cap Oscillator = {} => radio'.tcxo = board_tcxo
      BY <1>4, <1>6 DEF Oscillator, IInv, TypeOK
    <2>3. QED  BY <1>3, <2>1, <2>2 DEF InitProgramsTheRest
  <1>13. TrueMeansTuned' /\ Programmable'
    BY <1>3, <1>4, <1>7 DEF TrueMeansTuned, Programmable
  <1>14. QED  BY <1>11, <1>12, <1>13 DEF IInv

LEMMA NothingDone ==
    ASSUME IInv, \/ LoraInitAgain \/ LoraSetInvalid \/ UNCHANGED vars
    PROVE  IInv'
  <1>1. /\ UNCHANGED <<s_params, s_inited, board_tcxo, radio, mode, preset, init_failed>>
        /\ call' \in {"init", "failed", call}
    BY DEF LoraInitAgain, LoraSetInvalid, vars
  <1>2. TypeOK'
    BY <1>1 DEF IInv, TypeOK
  <1>3. TrueMeansTuned' /\ Programmable'
    BY <1>1 DEF IInv, TrueMeansTuned, Programmable
  <1>4. InitProgramsTheRest'
    BY <1>1 DEF IInv, InitProgramsTheRest
  <1>5. QED  BY <1>2, <1>3, <1>4 DEF IInv

\* stm32wl_radio_set_freq and stm32wl_radio_set_lora.
LEMMA ChannelSet ==
    ASSUME IInv, NEW r \in Regions, NEW p \in Presets, NEW bad,
           LoraSetRegionPreset(r, p, bad)
    PROVE  IInv'
  <1>1. DEFINE khz  == region_freq_default[r]
               m    == modem_presets[p]
               freq == SetFreq(khz, bad)
               lora == SetLora(m, freq.mode, bad)
  <1>2. /\ s_inited /\ s_params' = Params(khz, m) /\ preset' = p
        /\ UNCHANGED <<s_inited, board_tcxo, init_failed>>
        /\ \/ /\ ~freq.ok
              /\ radio' = [radio EXCEPT !.freq = freq.freq]
              /\ mode' = freq.mode /\ call' = "failed"
           \/ /\ freq.ok
              /\ radio' = [radio EXCEPT !.freq = freq.freq, !.mod = lora.mod,
                               !.set = @ \cup {"SetRfFrequency"} \cup lora.set]
              /\ mode' = lora.mode
              /\ call' = IF lora.ok THEN "set" ELSE "failed"
    BY DEF LoraSetRegionPreset
  <1>3. /\ freq.ok => freq.freq = freq_to_rf_reg(khz)
        /\ freq.freq \in {radio.freq, freq_to_rf_reg(khz)}
        /\ freq.mode \in {"RESET", "STANDBY", "RX"}
    BY DEF SetFreq, AfterStandby, AfterSetRx, IInv, TypeOK
  <1> HIDE DEF freq
  <1>4. /\ lora.ok => lora.mod = Modulation(m)
        /\ lora.mod = Modulation(m) \/ (lora.mod = radio.mod /\ lora.set = {})
        /\ lora.set \subseteq {"SetModulation", "SetPacket", "WriteSync"}
        /\ lora.mode \in {"RESET", "STANDBY", "RX"}
    BY <1>3 DEF SetLora, AfterStandby, AfterSetRx
  <1> HIDE DEF lora
  <1>5. m \in Channels
    BY DEF Channels
  <1> HIDE DEF m
  <1>6. khz \in {region_freq_default[q] : q \in Regions}
    OBVIOUS
  <1> HIDE DEF khz
  <1>7. /\ radio.freq \in Register \X Register
        /\ freq_to_rf_reg(khz) \in Register \X Register
        /\ radio.mod \in [sf : {0} \cup 7 .. 12, bw : 0 .. 10, cr : 0 .. 4, ldro : BOOLEAN]
        /\ Modulation(m) \in [sf : {0} \cup 7 .. 12, bw : 0 .. 10, cr : 0 .. 4,
                              ldro : BOOLEAN]
        /\ radio.set \subseteq Settings
    BY <1>5, <1>6, FrequencyRegister, ModulationOf DEF IInv, TypeOK, Programming
  <1>8. s_params' \in Channel
    BY <1>2, <1>5, <1>6, ChannelFields DEF Params, Channel
  <1>9. Modulation(s_params') = Modulation(m) /\ s_params'.freq = khz
    BY <1>2 DEF Params, Modulation, Modulated
  <1>10. CASE ~freq.ok /\ radio' = [radio EXCEPT !.freq = freq.freq]
              /\ mode' = freq.mode /\ call' = "failed"
    <2>1. radio'.mod = radio.mod /\ radio'.set = radio.set /\ radio'.tcxo = radio.tcxo
      BY <1>10 DEF IInv, TypeOK
    <2>2. TypeOK'
      <3>1. /\ radio'.freq \in Register \X Register
            /\ radio.tcxo \in BOOLEAN /\ DOMAIN radio = {"freq", "mod", "tcxo", "set"}
        BY <1>3, <1>7, <1>10 DEF IInv, TypeOK, Programming
      <3>2. radio' = [freq |-> radio'.freq, mod |-> radio'.mod, tcxo |-> radio'.tcxo,
                      set |-> radio'.set]
        BY <1>10, <3>1
      <3>3. radio' \in Programming
        BY <1>7, <2>1, <3>1, <3>2, Zenon DEF Programming
      <3>4. QED  BY <1>2, <1>3, <1>8, <1>10, <3>3 DEF IInv, TypeOK
    <2>3. TrueMeansTuned' /\ Programmable' /\ InitProgramsTheRest'
      BY <1>2, <1>10, <2>1 DEF IInv, TrueMeansTuned, Programmable, InitProgramsTheRest
    <2>4. QED  BY <2>2, <2>3 DEF IInv
  <1>11. CASE /\ freq.ok
              /\ radio' = [radio EXCEPT !.freq = freq.freq, !.mod = lora.mod,
                               !.set = @ \cup {"SetRfFrequency"} \cup lora.set]
              /\ mode' = lora.mode
              /\ call' = IF lora.ok THEN "set" ELSE "failed"
    <2>1. /\ radio'.freq = freq_to_rf_reg(khz) /\ radio'.mod = lora.mod
          /\ radio'.set = radio.set \cup {"SetRfFrequency"} \cup lora.set
          /\ radio'.tcxo = radio.tcxo
      BY <1>3, <1>11 DEF IInv, TypeOK
    <2>2. radio'.set \subseteq Settings /\ radio.set \subseteq radio'.set
      BY <1>4, <1>7, <2>1 DEF Settings, Later
    <2>3. TypeOK'
      <3>1. lora.mod \in [sf : {0} \cup 7 .. 12, bw : 0 .. 10, cr : 0 .. 4, ldro : BOOLEAN]
        BY <1>4, <1>7
      <3>2. radio' \in Programming
        <4>1. radio.tcxo \in BOOLEAN /\ DOMAIN radio = {"freq", "mod", "tcxo", "set"}
          BY DEF IInv, TypeOK, Programming
        <4>2. radio' = [freq |-> radio'.freq, mod |-> radio'.mod, tcxo |-> radio'.tcxo,
                        set |-> radio'.set]
          BY <1>11, <4>1
        <4>3. QED  BY <1>7, <2>1, <2>2, <3>1, <4>1, <4>2, Zenon DEF Programming
      <3>3. QED  BY <1>2, <1>4, <1>8, <1>11, <3>2 DEF IInv, TypeOK
    <2>4. TrueMeansTuned'
      BY <1>4, <1>9, <1>11, <2>1 DEF TrueMeansTuned
    <2>5. Programmable'
      <3>1. "SetModulation" \in radio'.set => \E c \in Channels : radio'.mod = Modulation(c)
        BY <1>4, <1>5, <2>1 DEF IInv, Programmable
      <3>2. call' = "set" => preset' \in Presets /\ radio'.mod = Modulation(modem_presets[preset'])
        BY <1>2, <1>4, <1>11, <2>1 DEF m
      <3>3. QED  BY <3>1, <3>2 DEF Programmable
    <2>6. InitProgramsTheRest'
      BY <1>2, <2>1, <2>2 DEF IInv, InitProgramsTheRest
    <2>7. QED  BY <2>3, <2>4, <2>5, <2>6 DEF IInv
  <1>12. QED  BY <1>2, <1>10, <1>11

LEMMA Inductive == Spec => []IInv
  <1>1. Init => IInv
    BY InitEstablishes
  <1>2. IInv /\ [Next]_vars => IInv'
    <2> SUFFICES ASSUME IInv, [Next]_vars PROVE IInv'
      OBVIOUS
    <2>1. CASE \E bad \in SUBSET InitCommands :
                  Cardinality(bad) <= MAX_INIT_FAULTS /\ LoraInit(bad)
      BY <2>1, FirstInit
    <2>2. CASE LoraInitAgain \/ LoraSetInvalid \/ UNCHANGED vars
      BY <2>2, NothingDone
    <2>3. CASE \E r \in AskedRegions, p \in Presets, bad \in SUBSET Faults :
                  LoraSetRegionPreset(r, p, bad)
      BY <2>3, ChannelSet, FaultsAssumption DEF FaultsAssumption
    <2>4. QED  BY <2>1, <2>2, <2>3 DEF Next
  <1>3. QED  BY <1>1, <1>2, PTL DEF Spec
-----------------------------------------------------------------------------
\* Every value the module's variables take has its type.
THEOREM ChannelTypeCorrect == Spec => []TypeOK
  <1>1. QED  BY Inductive, PTL DEF IInv

\* A lora_set_region_preset that returned true has put the radio on the channel
\* lora_get_params reports, whatever failed in it and before it.
THEOREM SetTrueMeansTuned == Spec => []TrueMeansTuned
  <1>1. QED  BY Inductive, PTL DEF IInv

\* stm32wl_radio_init programs everything whose own command did not fail, on
\* boards with and without a TCXO, for any number of failing commands.
THEOREM InitProgramsWhatWorked == Spec => []InitProgramsTheRest
  <1>1. QED  BY Inductive, PTL DEF IInv

-----------------------------------------------------------------------------
(* The channels. *)

LEMMA ChannelKinds ==
    ASSUME NEW m \in Channels
    PROVE  \/ m.sf \in 7 .. 11 /\ m.bw = 250000 /\ m.cr = 5
           \/ m.sf = 12 /\ m.bw = 125000 /\ m.cr = 8
  <1>1. CASE m = Default  BY SMT, <1>1 DEF Default
  <1>2. CASE \E p \in Presets : m = modem_presets[p]
    <2>1. PICK p \in Presets : m = modem_presets[p]
      BY SMT, <1>2
    <2>2. m = [sf |-> Spreading[p], bw |-> Bandwidth(p),
               cr |-> IF p \in Narrow THEN 8 ELSE 5]
      BY SMT, <2>1 DEF modem_presets, Narrow
    <2>3. CASE p \in Narrow
      BY SMT, <2>2, <2>3 DEF Narrow, Presets, Spreading, Bandwidth
    <2>4. CASE p \notin Narrow
      BY SMT, <2>2, <2>4 DEF Narrow, Presets, Spreading, Bandwidth
    <2>5. QED  BY <2>3, <2>4
  <1>3. QED  BY SMT, <1>1, <1>2 DEF Channels

LEMMA SymbolTimes ==
    ASSUME NEW mod, mod.sf \in 7 .. 12, mod.bw \in {4, 5}
    PROVE  /\ mod.bw = 4 /\ mod.sf = 12 => SymbolTime(mod) = 32768
           /\ mod.bw = 5 => /\ mod.sf = 7  => SymbolTime(mod) = 512
                            /\ mod.sf = 8  => SymbolTime(mod) = 1024
                            /\ mod.sf = 9  => SymbolTime(mod) = 2048
                            /\ mod.sf = 10 => SymbolTime(mod) = 4096
                            /\ mod.sf = 11 => SymbolTime(mod) = 8192
  <1>1. RadioBw[4] \div 125 = 1000 /\ RadioBw[5] \div 125 = 2000
    BY SMT DEF RadioBw
  <1>2. /\ Pow2[7] = 128 /\ Pow2[8] = 256 /\ Pow2[9] = 512
        /\ Pow2[10] = 1024 /\ Pow2[11] = 2048 /\ Pow2[12] = 4096
    BY SMT DEF Pow2
  <1>3. QED  BY SMT, <1>1, <1>2 DEF SymbolTime

\* The low data rate optimization is on exactly when a symbol takes 16 ms or
\* more, in every state of the radio.
THEOREM LdroAsTheOthersAssume == Spec => []LdroFollowsSymbolTime
  <1>1. IInv => LdroFollowsSymbolTime
    <2> SUFFICES ASSUME IInv, "SetModulation" \in radio.set
                 PROVE  radio.mod.ldro <=> SymbolTime(radio.mod) >= 16000
      BY DEF LdroFollowsSymbolTime
    <2> DEFINE mod == radio.mod
    <2>1. PICK m \in Channels : mod = Modulation(m)
      BY DEF IInv, Programmable
    <2> HIDE DEF mod
    <2>2. /\ mod.sf = m.sf /\ mod.bw = IF m.bw = 125000 THEN 4 ELSE 5
          /\ mod.ldro <=> m.sf >= 11 /\ m.bw <= 125000
      BY SMT, <2>1, ModulationOf
    <2>3. CASE m.sf \in 7 .. 11 /\ m.bw = 250000
      <3>1. mod.sf \in 7 .. 11 /\ mod.bw = 5 /\ ~mod.ldro
        BY SMT, <2>2, <2>3
      <3>2. SymbolTime(mod) \in {512, 1024, 2048, 4096, 8192}
        BY SMT, <3>1, SymbolTimes
      <3>3. QED  BY SMT, <3>1, <3>2 DEF mod
    <2>4. CASE m.sf = 12 /\ m.bw = 125000
      <3>1. mod.sf = 12 /\ mod.bw = 4 /\ mod.ldro
        BY SMT, <2>2, <2>4
      <3>2. SymbolTime(mod) = 32768
        BY SMT, <3>1, SymbolTimes
      <3>3. QED  BY SMT, <3>1, <3>2 DEF mod
    <2>5. QED  BY <2>3, <2>4, ChannelKinds DEF mod
  <1>2. QED  BY <1>1, Inductive, PTL

\* The longest frame is sent before the radio's timeout on every channel but the
\* slow ones.
THEOREM LongestIsSent == Spec => []LongestFrameFits
  <1>1. IInv => LongestFrameFits
    <2> SUFFICES ASSUME IInv, call = "set", preset \notin Narrow
                 PROVE  TimeOnAir(radio.mod, LONGEST) < TX_TIMEOUT
      BY DEF LongestFrameFits
    <2> DEFINE m == modem_presets[preset]
               mod == radio.mod
    <2>1. preset \in Presets /\ mod = Modulation(m) /\ m \in Channels
      BY DEF IInv, Programmable, Channels
    <2>2. m.cr = 5
      BY SMT, <2>1 DEF modem_presets, Narrow
    <2> HIDE DEF m
    <2>3. m.sf \in 7 .. 11 /\ m.bw = 250000
      BY SMT, <2>1, <2>2, ChannelKinds
    <2>4. mod.sf = m.sf /\ mod.bw = 5 /\ mod.cr = 1 /\ mod.ldro = FALSE
      BY SMT, <2>1, <2>2, <2>3, ModulationOf
    <2> HIDE DEF mod
    <2>5. QuarterSymbols(mod, LONGEST)
            = 81 + 4 * (8 + ((2084 - 4 * mod.sf + 4 * mod.sf - 1) \div (4 * mod.sf)) * 5)
      BY SMT, <2>3, <2>4 DEF QuarterSymbols, LONGEST
    <2>6. CASE mod.sf = 7
      <3>1. QuarterSymbols(mod, LONGEST) = 1593 /\ SymbolTime(mod) = 512
        BY SMT, <2>4, <2>5, <2>6, SymbolTimes
      <3>2. QED  BY SMT, <3>1 DEF TimeOnAir, TX_TIMEOUT, mod
    <2>7. CASE mod.sf = 8
      <3>1. QuarterSymbols(mod, LONGEST) = 1413 /\ SymbolTime(mod) = 1024
        BY SMT, <2>4, <2>5, <2>7, SymbolTimes
      <3>2. QED  BY SMT, <3>1 DEF TimeOnAir, TX_TIMEOUT, mod
    <2>8. CASE mod.sf = 9
      <3>1. QuarterSymbols(mod, LONGEST) = 1253 /\ SymbolTime(mod) = 2048
        BY SMT, <2>4, <2>5, <2>8, SymbolTimes
      <3>2. QED  BY SMT, <3>1 DEF TimeOnAir, TX_TIMEOUT, mod
    <2>9. CASE mod.sf = 10
      <3>1. QuarterSymbols(mod, LONGEST) = 1153 /\ SymbolTime(mod) = 4096
        BY SMT, <2>4, <2>5, <2>9, SymbolTimes
      <3>2. QED  BY SMT, <3>1 DEF TimeOnAir, TX_TIMEOUT, mod
    <2>10. CASE mod.sf = 11
      <3>1. QuarterSymbols(mod, LONGEST) = 1053 /\ SymbolTime(mod) = 8192
        BY SMT, <2>4, <2>5, <2>10, SymbolTimes
      <3>2. QED  BY SMT, <3>1 DEF TimeOnAir, TX_TIMEOUT, mod
    <2>11. QED  BY SMT, <2>3, <2>4, <2>6, <2>7, <2>8, <2>9, <2>10 DEF mod
  <1>2. QED  BY <1>1, Inductive, PTL
=============================================================================
