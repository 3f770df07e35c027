# Formal models of meshtastic_mini

TLA+ models of the firmware in `firmware/`, the TLC runs that check them, and
TLAPS proofs. Source references are to `firmware/` unless a path says
otherwise. `PROJECT.json` maps every definition to its lines and lists the
runs, mutants, hazards and theorems.

## 1. The system

One processor (STM32WLE5) runs `main`: initialise, then `mesh_mini_loop` for
ever. Two interrupts do something: USART1 (a typed byte into the receive ring)
and SUBGHZ_Radio (a frame has arrived). There is no operating system and no
lock; the main loop blocks while it transmits or prints.

```
 terminal --USART1 irq--> rx ring --> uart_rx_line_poll --> send_lora_packet
                                                                |  encode, encrypt,
 radio --SUBGHZ irq--> rx_pending --> lora_rx_poll              |  register
                                          |                     v
                                   decrypt, decode,          lora_tx --> radio
                                   print, answer, relay ------->
```

| component | state | operations | interacts with | hard behaviour | what makes it correct |
|---|---|---|---|---|---|
| flood router (`Mesh/flood_router.c`) | ring of 32 (from, id) pairs, its head | was it seen, register, decide, prepare for relaying | called by the loop for each frame and each own packet | eviction, zeroed slots at boot, repeated registrations | remembers exactly the last 32 registrations; relays nothing early and everything fresh |
| main loop (`Core/main_loop.c`) | node id, packet counter, receive buffer, line buffer | receive, answer, relay, send, commands | everything | the answer comes between the decision to relay and the relaying; the same packet comes over several ways; reboots | a pair names one packet; no echo; answers end |
| packet header (`Mesh/mesh_packet.c`) | 16 bytes | read, write | loop, router, nonce of AES-CTR | relays read and write it in between | inverse of each other |
| message codec (`Core/main_loop.c`) | position in a message | encode, decode | loop | damaged lengths, 16-bit position | what was encoded is shown; stays in the message; ends |
| console (`Core/main_loop.c`) | line buffer | collect, command, send | receive ring, loop | ring fills while the loop transmits; long lines; commands among texts | exactly the typed texts are sent; the last N command counts |
| radio driver (`Radio/radio_stm32wl.c`) | `rx_pending`; the radio's mode, flags, buffer | init, tx, rx_poll | interrupt handler, antenna switch | the radio acts between any two commands; commands fail; flags are cleared late | no re-entry, listening between calls, no frame stuck, twice or mixed; the signal reported is the frame's |
| channel (`Radio/lora_meshtastic.c`, driver) | `s_params`, registers | init, set region and preset | driver | the fallback from TCXO to crystal in the middle of the set-up; two halves of a change that fail separately; conversions to registers | what did not fail is programmed; a true result means tuned |
| receive ring (`Core/serial_io.c`) | 256 bytes, head, tail | push (interrupt), get (loop) | console | interleaving without a lock, full ring | a bounded queue |
| serial framing (`Serial/serial_framing.c`) | state, length, index, buffer | byte in, packet out | not called by the rest yet | damaged streams, other senders | always finds the next START1; delivers only what came over the line |
| configuration (`Config/config_store.c`) | a flash page, `g_config` | load, save | loop at boot | power loss between any two doublewords, failing flash | a saved configuration stays; never a mixture |
| AES-CTR (`Crypto/aes_meshtastic.c`) | channel key, handle of the AES unit | set key, crypt | loop | key changes between and during messages, a unit that fails in the middle | both ends mask the same blocks with the same keystream; blocks use different ones |
| radio dispatch, antenna switch | the registered driver; two pins | forward calls; off, rx, tx | driver | none of its own | the switch follows the radio's mode |
| LED, clock, stubs, host scripts, build | | | | | not modelled |

## 2. Modules

| module | models | how it corresponds to the code |
|---|---|---|
| `FloodOps` | `flood_router.c` as operators | a router is the record of `seen_buf` and `seen_head`; `FloodSeen`, `FloodWasSeen`, `FloodShouldForward`, `FloodPrepareForward` are the functions of these names |
| `SeenWindow` | what the router promises | a window of the last registrations, without ring or head |
| `FloodRouter` | one router as the loop drives it | `Receive` is decide, register, prepare; `Originate` an own packet; `Reboot`. Refines `SeenWindow` |
| `FloodRouter_proofs` | | section 5 |
| `MeshHeader` | `mesh_header_from_buf`, `mesh_header_to_buf` | operators on real bytes; a 32-bit field is the pair of its halves. Proved about in `MessagePath_proofs` |
| `MeshNetwork` | several devices, composed from `FloodOps` | an iteration of the loop is split where it goes on the air: `PollRadio`, `Reply`, `Forward`. `UserLine`, `SetNodeId`, `Reboot`. `Transmit` delivers to any subset of the devices in range and overwrites what their radio held |
| `MeshNetwork_proofs` | | section 5 |
| `RfCtrl` | `rf_ctrl.c` | the positions of the switch as the levels of its two pins |
| `RadioDriver` | `stm32wl_radio_tx`, `stm32wl_radio_rx_poll`, the interrupt, the radio | one action per stretch between HAL commands in which the radio can act; the radio's buffer cell by cell; extends `RfCtrl` |
| `RadioDriver_proofs` | | section 5 |
| `ByteFifo` | what the receive ring promises | a bounded queue |
| `RxRing` | the ring of `serial_io.c` | a push is one step (it runs in the interrupt), a get four: test, read, advance. Refines `ByteFifo` |
| `SerialConsole` | `uart_rx_line_poll` behind `RxRing` | the get is interleaved with typing at every access; a byte that completes a line is handled in one step; a transmission blocks the loop |
| `SerialConsole_proofs` | | section 5, the ring included |
| `SerialFraming` | `serial_send_packet`, `serial_rx_byte` | a packet goes on the line in one step, the receiver takes it byte by byte, one action per case of the switch |
| `SerialFraming_proofs` | | section 5 |
| `DataCodec` | `pb_encode_data`, `pb_decode_data` | encoder as an operator, decoder one field per step, on real bytes with a 16-bit position. A number is told by its 7-bit digits: its low 16 bits and whether there are others, which is all the code looks at |
| `LoraConfig` | `lora_init` with all of `stm32wl_radio_init`, `lora_set_region_preset`, down to registers | one action per call, with the set of commands that fail in it; the radio is the set of what is programmed, with frequency, modulation and oscillator |
| `LoraConfig_proofs` | | section 5 |
| `ConfigStore` | `config_save`, `config_load`, flash, power | one action per doubleword |
| `ConfigStore_proofs` | | section 5 |
| `AesCtr` | `aes_ctr_crypt`, `aes_set_channel_key` at several devices | one action per block; a block is the set of keystream blocks XOR-ed into it. A component: its callers are in `MessagePath` |
| `MessagePath` | the way of a packet: `send_lora_packet` at one end, the receiving part of `mesh_mini_loop` at the other, relays and other implementations in between | composes `DataCodec`, `MeshHeader`, `AesCtr`, `FloodOps`; the header is bytes on the way and is read anew by everybody |
| `MessagePath_proofs` | | section 5 |
| `MC*` | | values of the constants |

Where a definition is preceded by "Mutation:", it is a variant of the next
definition with a plausible bug. It is used by no specification; replacing the
original by it makes the property named in `PROJECT.json` fail, which shows that
the property depends on that line of code.

Code that is not in the repository is modelled from how it is used and marked
external: other implementations of the protocol (any Data message, the keystream
of their key), the SX1262 (continuous RX appends frames to its buffer from the RX base
and reports the latest; after a transmission or its timeout it is in standby),
the NVIC (level-triggered line), the radio medium, flash, AES unit.

## 3. Runs

Bounds are in the `.cfg` files; each is named by a constant.

| run | question | bounds, and why they are enough |
|---|---|---|
| `flood_router` | is the ring the window of the last registrations? | ring of 3, six pairs with (0, 0) among them, four flag bytes: more pairs than slots, so every pattern of eviction, repetition and wrap occurs; no bound on the length of the history. Proved for all sizes |
| `mesh` | do all copies of a packet agree, are only texts answered, does a network fall silent, without relaying own packets? | two devices side by side, two lines typed at any of them, of two lengths, one id set to the other device's, one reboot, any frame lost or overwritten, a ring of 3, so that registrations are evicted while copies are under way. The theorems have any number of devices, any topology and any number of id changes and reboots |
| `radio` | the driver against radio, interrupt and failing commands | buffer of 8 cells with the base in the middle; three frames of 0 or 3 cells (the second wraps over the first), two transmissions of 4 cells, any two commands failing before a SET_RX takes effect, one frame completing during a call (a frame takes tens of milliseconds, the commands of a call a few) |
| `radio_overlap` (violation) | does rx_poll return what was received? | one frame, one transmission longer than half of the buffer |
| `console` | what is sent of what is typed, and which id does the node take? | six characters of N, two digits and the line end, ring of 3 usable bytes, line buffer of 4, texts up to 3: the ring overflows, lines exceed packet and buffer, several lines and two commands follow each other. The line "22" stands for `info` and `help` |
| `console_text` (violation) | is every other text sent? | as `console` |
| `framing` | where does the receiver look for packets, and what does it deliver, on any stream? | one packet and any other bytes in every order, nine bytes over an alphabet of four, bodies up to five: two packets, damaged lengths, empty bodies, start bytes inside bodies. Proved for all streams and sizes |
| `framing_sent` (violation) | do packets of `serial_send_packet` arrive on a line of their own? | one packet. The scaled start bytes keep the relation that matters: a length whose high byte is START2 is too long |
| `message_path` | what does the receiver make of a packet? | two devices and a relay; texts of 0, 60, 127 and 128 bytes, so up to three blocks and the limit of the encoder; two packets, two key changes at any time between calls, either AES unit failing at any block; every foreign message of up to four bytes over nine values that stand for the tag kinds, lengths and continuations. A block has 64 bytes instead of 16 and the counter four values, so that the longest payload still fills the counter's range; the proofs hold for all sizes |
| `codec_wrap` (violation) | does the decoder always end? | strings of up to four bytes with lengths near 65536, which `message_path` has not |
| `lora_config` | what does the set-up leave programmed, and what does a true result mean? | both kinds of boards, any one command of the set-up failing, errors left from before; then any number of calls for two of the four regions with every preset and every subset of four of the six commands of a change failing. The results of the other two, SetStandby and the write of the sync word, are not read: the first failing leaves another mode, which no property is about, the second leaves the sync word as the set-up programmed it. The proof has all six and no bound on failures. The regions differ in the frequency only; the two are the lowest sub-GHz one in use and the one with the largest register value |
| `config_store` | what survives a power loss? | page of 4 doublewords (8 in the code), 3 saves, any number of power losses. Proved for all sizes |

What the properties say is in the comment above each of them. The ones that
carry most:

- `RingIsWindow`, `ImplementsWindow`: deduplication is exactly a window of the
  last `SEEN_SIZE` registrations, repeated ones counted. The pair (0, 0) is the
  exception: a zeroed slot reports it as seen.
- `PacketIdentity`: all copies on the air with one (from, id) are one packet. It is
  stated until an id is set or a device reboots: the counter then starts anew.
- `NoEcho`: the answer to a packet is registered between the decision to relay it
  and the relaying, and this never leads to relaying an own packet.
- `Quiesces`: pongs, relayed copies and id changes do not feed on themselves.
- `FrameIsReturned`: a completed frame is handed to the loop, or a newer one
  is, however it falls between the commands of a call. The windows in which the
  driver clears flags unseen are named by `Blind`; a frame that completes there
  is noticed with the next one only.
- `TxTrueMeansSent`: a TX_DONE that comes after the deadline is not taken for
  the next transmission's. `StillSending` names the exception, section 4.
- `Listening`: between calls the radio is in RX with the antenna on the receiver
  whatever failed, but for the three commands named in section 4.
- `NoReplay`: no frame is returned twice, if CLR_IRQSTATUS succeeds.
- `Resyncs`, `DeliversWhatCame`: whatever arrives, the receiver of the framing looks
  for a START1 again as soon as no packet can be under way; a body it delivers stood
  on the line behind a START1, with or without a START2, and its length, whole, and
  shares no byte with the one before. An empty body is delivered with the byte after it.
- `IntactFromBase`: what lies in the receive half is not touched by
  transmissions that fit in the other half.
- `SignalOfFrame`: the RSSI and SNR the loop prints belong to the frame, unless a
  newer one completed.
- `BlocksReadable`: at the end of the way a block is readable exactly if both AES
  units masked it with one key, or both failed before it. It needs the nonce to
  come out of the header bytes as it went in, and a new key to reach the unit.
- `TextArrives`: encoder, header, keystream and decoder fit together.
- `DecoderAdvances`: a wrap of the 16-bit position is the only way in which the
  decoder can go back, so what `codec_wrap` shows is the only way not to end.
- `InitProgramsTheRest`: a command that fails in the set-up costs its own setting
  and no other, also through the reset of the oscillator's fallback.
- `SentAreTheTextLines`: nothing is sent cut, twice, or glued to a command. Which
  line is a command is taken from the documents; the lines about which the code
  disagrees with them (`IsDisputed`) are left out here and in `LastNodeIdCounts`,
  and are the subject of `console_text`.
- `TrueMeansTuned`: also after calls that failed half-way.
- `SavedIsKept`, `OneVersion`: see section 5.

### Fairness

- `MeshNetwork`: weak fairness of each device's loop: `main` never leaves it,
  every call it makes returns. Nothing is assumed of the medium, of users or of
  reboots; the bounds on those make the runs finite.
- `RadioDriver`: weak fairness of the driver's steps (the loop calls rx_poll in
  every iteration, a call goes on) and of the interrupt handler. No fairness of
  the radio: it need not finish a transmission. `CallsReturn` rests on the
  deadline of tx.
- `SerialConsole`: weak fairness of the loop, including the return of `lora_tx`,
  which is `CallsReturn` of the driver. Typing is not fair.
- `DataCodec`: the function goes on.

## 4. Where code and documents differ

Four differences have a run of their own (`findings` in `PROJECT.json`):

- **Transmit and receive overlap in the radio's buffer** (`radio_overlap`).
  Frames to send start at 0, received ones at 128; a frame of more than 128 bytes
  overwrites a received one that waits for its poll.
- **The decoder need not end** (`codec_wrap`). Its position has 16 bits, a length
  near 65536 brings it back to the same field.
- **The two ends of the serial framing do not agree** (`framing_sent`).
  `serial_rx_byte` takes the START2 that `serial_send_packet` writes for the
  high byte of the length (`Serial/serial_framing.c:32`), so that no packet of it
  is delivered. The properties of `framing` accept a packet with or without START2.
- **A text that begins with N is not sent** (`console_text`). The code takes every line
  of two or more characters that begins with N or n for a command
  (`Core/main_loop.c:143`) and drops what is none of N1 .. N9, or sets the id by its
  second character ("N12"). `Core/main_loop.c:154`, `README.md:72` and
  `docs/RADIO_EXCHANGE.md:69` say that any other text is sent.

The others were seen while modelling and are part of the models as they are in
the code:

- After a reboot `next_packet_id` starts at 0 again, so pairs are used twice
  (`Core/main_loop.c:118`; `Mesh/mesh_packet.h:21` calls the id unique).
- A relayed copy of a device's own broadcast is answered by that device
  (`Core/main_loop.c:200`).
- An empty body of the serial framing takes the byte after it: the byte is stored
  before the length is compared (`Serial/serial_framing.c:43-44`), so the callback
  comes one byte later than `Serial/serial_framing.h:26` (on complete packet) says, and
  a packet whose START1 was that byte is lost.
- The comment at `Mesh/flood_router.h:16-19` says that `flood_should_forward` registers
  the packet and decrements the hop limit. It only decides; `mesh_mini_loop` calls
  `flood_seen` and `flood_prepare_forward`.
- A byte that finds the ring full is dropped silently; if it was a line end, two
  lines become one (`Core/serial_io.c:20`).
- A failed WriteBuffer or SET_TX ends a transmission with the radio in standby
  (`Radio/radio_stm32wl.c:357-371`), and the result of SET_RX is ignored (lines 396,
  423, 431, 449): the node is deaf until a SET_RX takes effect. `Listening` leaves out
  these three commands.
- The result of SET_STANDBY is ignored too (lines 337, 388). If it fails together with
  SET_RX after the deadline of a transmission, this goes on, and its TX_DONE may be
  taken for that of the next (`StillSending`).
- A failed CLR_IRQSTATUS (line 439) would leave the flag of a frame up after it was
  returned, and the frame would be returned again. The model takes this command to
  succeed.
- The driver never looks at the radio's CRC error flag (the CRC is on, lines 163 and
  352): whether a damaged frame is handed on is left to the radio.
- After `lora_init` the radio listens on 868.1 MHz while `lora_get_params`
  reports 869.525 MHz (`Radio/lora_meshtastic.c:34`), until a region is set.
- The region and preset of the stored configuration are not used: `mesh_mini_init`
  sets EU 868, Long Fast whatever `config_load` read (`Core/main_loop.c:241-243`).
- The image calibration is that of 863 to 870 MHz, once, whatever region is set
  later (`Radio/radio_stm32wl.c:130-133`).
- `stm32wl_radio_init` reports success whatever failed in it
  (`Radio/radio_stm32wl.c:281`). If the read of the clamp register fails, an
  undefined value is written back (line 190).
- RSSI bytes of 128 and more, that is anything weaker than -64 dBm, change their
  sign in a cast (`Radio/radio_stm32wl.c:443`) and are printed as positive
  numbers, where `README.md:74` has `RSSI: -XX dBm`. `SignalOfFrame` is about the
  stronger ones.
- On the two slow presets a frame of more than about 35 bytes outlasts the
  transmit timeout (`Radio/radio_stm32wl.c:366`). `LongestFrameFits` is about
  the others.
- A configuration whose save was cut off is loaded at the next boot if its first
  doubleword was written (`Config/config_store.c:79`).
- When the AES unit fails, the rest of the payload stays as it is and the
  caller is not told (`Crypto/aes_meshtastic.c:91`).
- A payload is shown whatever its port number (`Core/main_loop.c:213`).

## 5. Proofs

All with TLAPS, for every value of the constants that satisfies the `ASSUME` of
the module (sizes positive, ids natural numbers, flag bytes below 256,
configurations distinct from erased flash). The assumptions are evaluated by the
runs.

`FloodRouter_proofs`: `TypeCorrect`, `RingCorrect`, `NeverEarly`,
`FreshAlwaysRelayed`, `RouterImplementsWindow`. `RingIsWindow` is not inductive:
it says that some slot holds a pair, not which, so it cannot tell when the pair is
overwritten. `RingInv` adds the slot: a pair registered *a* registrations ago is at
`SlotAt(a)` (`Remembered`), and what is there was last registered at most *a*
registrations ago (`NothingElse`). Both action properties follow from `RingInv`
at the step. For the refinement every `Receive` is a `Relay` or an `Ignore`,
every `Originate` an `Originate`, `Reboot` a `Forget`, under the mapping
`window[a] = router.buf[SlotAt(a)]`; the lemmas on `SlotAt` carry the arithmetic
of the ring.

`ConfigStore_proofs`: `StoreTypeCorrect`, `SavedSurvives`, `NeverMixed`. The
invariant is strengthened by `InProgress`: while `config_save` programs, the page
holds the new version before doubleword `i` and erased flash from there on. Hence
the last doubleword completes a whole page (`SavedIsKept`), and whatever is cut
off has parts of one version (`OneVersion`); an erase, whole or partial, only
removes.

`RadioDriver_proofs`: `NeverReentered`, `TrueMeansSent`, `AntennaCorrect`,
`ListensBetweenCalls`, `DriverTypeCorrect`, `ReturnsIntact`, `SignalCorrect`,
`NeverReplayed`. `Control` says where in a call the radio can be transmitting,
`Fresh` that no flag is up when SET_TX is given and that a TX_DONE seen afterwards
is this transmission's unless the one before could not be stopped, `Hearing` that
outside the middle of tx the radio is in RX unless a WriteBuffer, SET_TX or SET_RX
failed since SET_RX last took effect; `failures` remembers these commands for it.
For the frames the invariant adds what the latest frame's cells hold: its own number, as
long as nothing after it was written there;
a transmission that fits below the receive half does not reach them.
`ReturnsIntact` and `SignalCorrect` assume exactly that (`Halves`: transmissions
fit below the base, frames above it). `NeverReplayed` rests on `Once`: whatever
announces a frame announces an unreturned one, and a poll that has its frame has
cleared the flag that announced it. The proofs cover every buffer and any set of
failing commands, the ignored SET_STANDBY and SET_RX among them.

`LoraConfig_proofs`: `ChannelTypeCorrect`, `SetTrueMeansTuned`,
`InitProgramsWhatWorked`, `LdroAsTheOthersAssume`, `LongestIsSent`. None of the
properties says which registers can be reached, so `Programmable` is added: once a
modulation is programmed it is that of a channel of the tables, and after a
successful change that of the preset asked for. What the tables and conversions
give is in the lemmas `ChannelKinds`, `ModulationOf` and `FrequencyRegister`. The
two copies of the low data rate rule, `LdroAtInit` and `Ldro`, agree on the default
channel (`InitialModulation`). There is no bound on the failing commands.

`MessagePath_proofs` has three parts. The header: `HeaderIsBytes` and
`HeaderRoundTrip`, from the arithmetic of the halves of a word.

The packet on its way: `ReadableBlocks`, `DifferentBlocks`, `SenderIsSource`. The
invariant follows the packet: `Masked` says which keystream blocks are in which
block after `off` turns at the sender and at the receiver, and that the header
bytes are those of a header with the sender's id and packet id, which every relay
keeps. Here the header's round trip is used: without it a receiver's nonce
could not be told to be the sender's. `DifferentBlocks`, that no two
blocks of a packet are masked alike, is proved only, since no run could come near the
limit; it needs `MAX_BLOCKS <=
COUNTER`, which the code's 15 and 256 satisfy.

The decoder: `PathTypeCorrect`, `PayloadStaysInData`, `TextsArrive`,
`AdvancesOrWraps`. `TypeOK` and `PayloadInData` are not inductive: nothing in them
says that a number is read from inside the message. `Bounded` adds that the
decoder is at most at the end of the message when it has read a tag, for it is
there that a wrapped position would have to be looked at, and that a payload found
early lies in the message before it is shown. For the text, `Carried` says that what
is under way is what the encoder wrote, and `Stage` where in these four bytes and
the text the decoder is and what it has found; that what it reads is what was
carried is `ReadableBlocks`, applied to the block of each byte. The end of a number
is a least element, whose existence (`LeastNatural`) comes from the well-foundedness
of the natural numbers applied to a set. `AdvancesOrWraps` needs that the longest
message leaves eight positions of the sixteen bits, for a fixed64 at its end
(`PathAssumption`). The theorems hold for any devices, keys, texts, block sizes,
relays and foreign messages.

`SerialFraming_proofs`: `FramingTypeCorrect`, `Resynchronizes`, `DeliveredCame`, for
streams of any length and any bytes. Neither property is inductive: the state of the
receiver does not say where in the stream its packet began. `Pending` adds this: in
every state but SYNC there is a START1 at the position `Open`, which state and index
give, behind it the length the receiver has read, and behind that the bytes in its
buffer. Hence a receiver that is in a packet has a START1 close behind it
(`Resynchronizes`), and what it delivers stood on the line (`DeliveredCame`). That no
byte serves two packets is `Apart`: `Open` lies behind the last delivered one.

`MeshNetwork_proofs`: `MeshTypeCorrect`, `PongsAnswerTexts`, `NeverEchoes`, for any
number of devices and any topology, with id changes, reboots, and lost and
overwritten frames. `NeverEchoes` needs to know, at the relaying, what was decided
when the frame was read: the packet was not in the ring then, and the pong that was
registered since carries the device's own id and a fresh packet id, or moves the
window by one. The invariant ties the history of aired packets to the ring.
`PairNamesPacket` is `PacketIdentity` for devices that have different ids at boot, as
long as no counter is at its last value (`NoneSpent`); the property itself is about the
time until an id is set or a device reboots. Its
invariant `Ahead` says that every packet on the air is from a device that has
counted past it.

`SerialConsole_proofs`: `RingIsFifo`, `ConsoleTypeCorrect`, `TextLinesAreSent`,
`LastIdCounts`, for every size of the ring and the line buffer, every set of bytes,
any length of typing and any point at which the interrupt comes. For the ring `RInv`
says what a get may rely on when it goes on: its slot is not empty and is not the
one the interrupt writes. The two properties of the console speak of all bytes that
entered the ring, so the invariant says where the line in the buffer begins and how
much of it the buffer holds. The lemma `BufferOfLine` is why truncation is harmless:
a line that was cut is longer than any text and still told by its first two bytes,
since `LINE_BUF_SIZE > MAX_TEXT + 1` and `MAX_TEXT >= 1`. The invariant is kept in terms of
what the code makes of a line; `Lines` relates this to what the documents say of it.

Only model-checked is liveness (`Quiesces`, `FrameIsReturned`, `CallsReturn`,
`Drained`, the fairness part of `ImplementsFifo`), which is out of the prover's
reach. Every invariant and every action property of the passing runs
is proved; `PacketIdentity`, `IntactFromBase` and `SignalOfFrame` under the
hypotheses named above.

## 6. Not modelled

- Printing: the texts of the console and the blocking output functions of
  `serial_io.c`, which have no state; the set-up of the peripheral.
- The USART's error flags: whether an overrun keeps the interrupt up
  (`Core/stm32wlxx_it.c:15`) is a property of the peripheral.
- The radio interrupt during `lora_set_region_preset`. The function is called once,
  right after `lora_init` has started the receiver (`Core/main_loop.c:242-243`); the
  two together take a few milliseconds, a frame takes more than 130 for its
  preamble alone, so no frame can complete in between.
- The stubs of `radio_phy.c` in a build without the radio: one driver is
  registered before anything else is called (`Core/main.c:35`).
- The cipher itself: ECB is taken to be injective in key and nonce. Damaged
  frames: what arrives is taken to be what was sent, see section 4 on the CRC.
- What a number of six or more digits is worth: its shift is wider than the type,
  which C leaves undefined, so the decoder goes on with any value.
- The status LED, the clock, the C library stubs, the fault handler, build files,
  the HAL configuration and the host scripts: no behaviour the rest depends on.

## 7. Plan

1. Done: every component of section 1 but those of section 6; proofs of the
   router, the configuration store, the radio driver, the channel, the header,
   the way of a packet with the decoder, the serial framing, the mesh, and the
   ring with the console.
2. Next compositions: the radio driver under the main loop (two frames before a
   poll, the loop blocked in a transmission), with the abstract radio of
   `MeshNetwork` as its specification.
3. Next proofs: that composition against its specification. What stays with TLC is
   listed at the end of section 5.
