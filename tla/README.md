# Kestrel, specified

TLA+ specifications of the Kestrel telemetry protocol: the C library in
`src/src/`, the Arduino sketches in `src/examples/` and the Python programs on
the PC, the USB ground station `src/kestrel_gcs_usb.py` first of all. TLC checks every
module on small instances; TLAPS proves what it can of every one for all values of their
constants: replay window, nonce persistence, pack functions, packet header, parser,
message payloads and checksum, reassembly, batches, a durable telemetry stream, ground
station and drone, Pixhawk bridge and configuration script.

## The system

| part | state it keeps | operations | interacts with |
|---|---|---|---|
| packet encoder (`kestrel.c` 138-274, 1549-1639) | none | encode/decode base and extended header, seal or copy the payload, CRC | pack functions, parser |
| checksum (`kestrel.c` 67-136, 1625-1636, 1770-1785) | none | accumulate, seed by message number, compare; copied into four Python programs | encoder, parser, tools |
| session and nonce (`kestrel.c` 1446-1541) | key, 32-bit counter, two flags | init, destroy, set/get counter, generate a nonce | pack functions, EEPROM sketch |
| pack functions (`kestrel.c` 1912-2169) | override table (global, 8 entries), context cache | pack with nonce, selective, cached, batch; get/set policy | session, encoder |
| streaming parser (`kestrel.c` 1643-1908) | state, buffer, header, counters | one byte at a time; five states; eight ways to end a packet | serial line, replay window |
| replay window (`kestrel.c` 1841-1891) | highest counter, 64-bit bitmap | test and update | parser; shared by all senders the parser hears |
| fragmentation (`kestrel.c` 1241-1374, 2215-2275) | four slots | split, add, add with timeout | parser's payloads, a clock that wraps |
| EEPROM sketch | saved counter, session, packet count | load, override, checkpoint, send, save | session; power fails at any time |
| message serializers (`kestrel.c` 278-1239) | none | write and read 29 payloads, half floats | applications |
| batch decoding (`kestrel.c` 2171-2212) | none | read messages out of a payload | pack functions, parser's payloads |
| heartbeat and telemetry sketches | sequence number or session | send for ever | parser of the other side |
| USB drone sketch | armed flag, three timers, parser | send telemetry, drain the port, execute and acknowledge commands | ground station over USB |
| Pixhawk bridge sketch | last heartbeat time, last sender's ids, two ports | timers, MAVLink to Kestrel, Kestrel to MAVLink | autopilot, PC |
| USB ground station | sequence number, parser, receiving thread | build packets, parse packets, keyboard | drone over USB |
| older tools on the PC | sequence number, or a byte buffer | write heartbeats; read headers and heartbeats | a sketch over serial |
| configuration script | target, parameter, attempt, deadline | wait for a heartbeat, set parameters, reboot | autopilot over MAVLink |

What is hard here: two sides that must agree on lengths they both compute from
flags; a line that loses, garbles and repeats; counters of 12 and 32 bits that
wrap; a window that serves several senders; slots that must be given up in
time on a clock that wraps; power that fails between two writes, or within one;
five programs that each write the same payload layouts down by hand; answers
that come after the question was given up. `PROJECT.json`
lists these hazards at their lines, each with the properties that cover it.

Every sketch is one thread, and the library has no callbacks. Concurrency is
between two boards and the line between them, between a board and its ports,
and between a board and its power supply.

## The modules

| module | models | composed of |
|---|---|---|
| `ReplayCheck` | the parser's replay test as operators over (`replay_init`, `last_seq`, `replay_window`) | |
| `ReplayWindow` | a session's counter, a network, the window at the receiver | `ReplayCheck` |
| `AtMostOnceLink` | what sender and window promise together: an issued packet is delivered at most once between restarts | |
| `KsSession` | the session and its nonce state as operators | |
| `EEPROMNonce` | `setup()` and `loop()` of the EEPROM sketch with power failures, torn saves and erased flash included | `KsSession`, `DurableCounter` |
| `DurableCounter` | what a board that keeps its counter promises: one increasing sequence of counters over all power cycles | |
| `SelectivePack` | policies, overrides, cache and the four pack functions, in a build with cryptography or without | `KsSession` |
| `StreamParser` | `ks_parse_char` byte by byte and a faulty line | `ReplayCheck` |
| `TelemetryLink` | the sketches' numbering against one parser, fragments and restarts of both boards | `ReplayCheck` |
| `GroundLink` | USB drone and USB ground station, the line between them, resets and restarts | `ReplayCheck` |
| `Wire` | header bits: the encoders and decoders of the library, the ground station, `gcs_sender.py`, `serial_listener.py` and `kestrel_gcs.py` | |
| `Messages` | the 29 serializers and deserializers, and the payloads of bridge, ground station and tools, as tables of bytes; half floats; the checksum of all of them on a line that damages bits | |
| `ConfigurePixhawk` | `configure_pixhawk.py` and the autopilot it talks to | |
| `Batch` | the payload of a batch and the loop that reads it | |
| `Fragments`, `FragmentLink` | splitting and reassembly as operators; senders, a network and a clock around them | |
| `PixhawkBridge` | the bridge's `loop()` at the level of whole messages | |
| `ReplayWindow_proofs`, `EEPROMNonce_proofs`, `SelectivePack_proofs`, `StreamParser_proofs`, `FragmentLink_proofs`, `Payload_proofs`, `TelemetryLink_proofs`, `Pixhawk_proofs` | theorems about the module of that name; `SelectivePack_proofs` also about `Wire`, `TelemetryLink_proofs` about `GroundLink`, `Pixhawk_proofs` about `ConfigurePixhawk` and `PixhawkBridge`, `Payload_proofs` about `Batch` and `Messages`; the names of the second of two therefore differ (`WireInit`, `GroundNext`, `BridgeSpec`, `MessagesInit`) | |
| `MC...` | values of the constants for TLC | |

### How state and actions correspond to the code

*Replay.* `replay` is the three fields of `ks_parser_t`; the bitmap is the set
of its set bits, W stands for 64 and 2H for 2^32. `Stale` is the condition under
which `ks_parse_char` returns `KS_ERR_REPLAY`, `Accept` the assignments when it
does not. Negating INT32_MIN is undefined in C, so `Back` is a set there. In
`ReplayWindow`, `wire` keeps every packet sent: the network may deliver any of
them any number of times in any order, or never. `ParserInit` is a restart of
the receiver, after which old packets are new to it; at-most-once is counted
from there.

*Parser.* A byte is a pair of the frame it belongs to and its place in it;
`Noise` is a byte of no frame. A CRC matches exactly when the bytes of one
frame are in place; the tag of an encrypted packet exactly when the keys agree
as well. A header read from bytes that do not belong together is any header
(`HeaderReadings`), since the code decodes whatever bits there are. One action
of the line (`ByteArrives`, `ByteGarbled`, `NoiseByte`) is one call of
`ks_parse_char`; `ByteLost` is none. `result` names what the call returned, `Returned` is the
number: 0 for a complete packet and 1 for more, contrary to the header's comment
(`CompleteReturnsOne`). The passing run has senders with cryptography; what a build without
makes of an encrypted packet is `FallbackKeepsWireValid`.

*Header.* `Wire` writes each mask and shift as the division and remainder it
is. The receiver's header persists from packet to packet, as `p->header` does.
The tools read the same bytes with their own arithmetic and are compared with it.

*Telemetry.* `counter` is the session's nonce counter or `g_seq`, `part` the
fragment of a message that is sent next: a session numbers every packet, a
plaintext header numbers a message. After a restart a sender is where `Resumed` says:
past everything it sent by at most `Margin` (what `DurableCounter` allows, which the
EEPROM sketch implements), at a random counter, or at 0.

*Session and pack functions.* A packet is reduced to who is inside it, whether
it is sealed, with which key. A pack call chooses whether the caller passes
the session or NULL and whether the payload fits. `disabled` is a build with
`KS_CRYPTO_DISABLED`: there `kestrel_pack_internal` falls back to a packet in clear
(`kestrel.c` 1580-1588), after the nonce was spent. The context cache of
`kestrel_pack_cached` is kept as the code keeps it; nothing in the library reads it, so no
property is about it.

*Fragments.* A slot's buffer is a function from cells to bytes, and a byte
names its message, content and place, so that a mixture is visible. A sender
repeats a key only after the previous message of that key can no longer be in
the network or in a slot (`TrafficAssumption`): the protocol has no message
number, so nothing else keeps two messages apart.

*EEPROM sketch.* `pc` follows `setup()` from load to checkpoint and `loop()`
until it stops. `PowerLoss` may strike before and after each of them and
clears RAM. `PowerLossInSave` strikes between two bytes of a save: for a cut in
`Cuts`, the cells below it hold the new value and those above it the old one. `Cuts` is
empty for an ESP32, which commits a sector, and has the powers of 2^8 for boards
that write byte by byte. `Flash` is the branch of SAMD and mbed boards, whose save
erases before it writes and may be left erased. `Remains` puts the two together.

*Messages.* A function is a table: which bytes of the buffer belong to which
field, and what converts them. Fields are the bytes they have in memory, so a
copy and a little-endian pack are the same; `float_to_half`, `half_to_float` and
`unpack_int32` change the bytes and are operators. The buffer starts as `Junk`,
a value no byte has, and `Junk` that survives is a byte the code never wrote.
`PeerAttitude` is an attitude message with every possible half in it, from a peer
that computes halves in its own way. `Links` says who writes which message for
whom: the library for itself, USB drone and ground station for each other, the
bridge for the ground station, a sketch for the listener. The library reads from
the parser's buffer without a length, so what lies behind the payload is `Junk` as
well (`Buffered`); the tools look at the length first (`Show`).

*Checksum.* A byte, and the checksum, is the set of its bits that are 1: the exclusive
or is the symmetric difference, a shift moves the members. `wire` is the packet from its message
number on; the bytes before the number are left out, since encoder and parser take them alike and
`Wire` looks at them. `Damage` inverts bits in the order the checksum, and the UART, take
them, the low one of a byte first: one anywhere, or several behind the message number,
within 16 in front of the checksum and within 13 over its edge. Over the edge the checksum is weaker,
since the seed is accumulated between the last byte and the checksum, and some wider faults pass
(`WiderFaultsPass` is one of six bits among 14). A changed number changes the seed too, and the two may cancel: a
LOG_DATA packet with 3 bytes of data whose number 0x018 a burst turns into 0x881 passes.
`MCMessages` also checks `ks_crc_accumulate` against eight steps of the polynomial that
CRC-16/MCRF4XX is defined by (`AccumulatesMCRF4XX`).

*Batch.* `Begin` is the prologue of `ks_deserialize_batch`, `NextEntry` one
iteration with its three early returns, `Finish` the epilogue that announces
the count. `reach` remembers how far it has read. Payloads are batches packed here or
arbitrary bytes up to the bound `Foreign`.

*Bridge.* `section` is the section of `loop()` to run next; arrivals and ticks
interleave with it. The queues hold whole messages; their bytes are in
`Messages`. `Commands` are the two commands the sketch knows. `KestrelSend` is the packet
made of a message: of its sender's ids it carries what the extended header has room for
(`Cut`: 6 bits of the system, 4 of the component).

*Configuration script.* `at` is the section of `main()` to run next, `left` the time to
its deadline. `Answers` is the comparison at line 66, of names only, so a value is
reduced to whether it is the one asked for. The autopilot answers a command when
it gets to it; until then the script may have repeated it or gone on. `Announce` is a
PARAM_VALUE nobody asked for, of another system or to another ground station: line 65
takes it from whomever. It may come again and again, for ever.

*Drone and ground station.* `at` and `now` follow the drone's `loop()`: one reading
of the clock, the port drained packet by packet, three timers. The ground
station's two threads share only the port (`gcs_seq` belongs to the main thread, the parser
to the receiving one), so their actions interleave. `deed`, `commands` and
`acked` are history. `Reboot` is what the globals' initial values and `setup()`
leave; `sealed` is the argument `encrypted` of `build_packet`, which `main()` leaves at its
default, true: of such packets the drone executes nothing (`MCGroundSealed`), so what is said of
executed commands is exercised by the plaintext ones; a `Restart` of the ground station may reset the board as well, as opening
the port does. Left out: the drone's own sequence numbers, which nobody reads;
a boot whose session init fails, after which the sketch runs on without
encryption; and the chance that a misread packet's CRC matches.

## The runs

Passing runs:

| run | instance | what it shows |
|---|---|---|
| `replay_window` | window 3, 14 counters, 5 packets, every seed | at-most-once, the window's top, reordering inside the window, and the refinement of `AtMostOnceLink`, across the rollover |
| `eeprom_nonce` | margin exactly what a burst and the low cell can lose, one cut in a save, no erasure (`Flash` false), several power cycles, erased or written EEPROM | counters stay distinct over power cycles; a restart is ahead of everything sent; the sketch implements `DurableCounter` |
| `stream_parser` | two frames to every kind of receiver with `KS_SOF` anywhere and one fault; five short or long frames with two faults | whole frames get the verdict they are due, nothing else is accepted, the buffer suffices, errors leave the window alone and are counted once, and the parser is back in step within one longest packet |
| `encrypted_link` | one stream of messages in two fragments, two losses in a row, two restarts of either board, every seed | no false replay; heard for ever |
| `fragments` | 2 keys, 1 or 2 slots, 2 contents, full and short last fragments | reassembled messages are whole; none is forgotten; a slot is given up in time, and clean |
| `selective_pack` | builds with cryptography and without, 3 messages, 2 overrides, 2 keys, 3 counters | no silent downgrade where there is cryptography, no ALWAYS message without a session in either build, fresh nonces, key lifetimes |
| `wire` | values at and beyond the limits of every field, all flags; plaintext headers of the ground station and of `gcs_sender.py` | the header arrives and its length with it, ground station and listener read the same |
| `pixhawk_bridge` | systems 1 and 255 with components 1 and 100, a clock that wraps every 5 ticks | order of relayed messages, each with its own sender's ids cut to the header's widths; the heartbeat survives the wrap |
| `messages` | 6 samples of four bytes in every field of every message, every writer and reader, every half; one fault on the line: a bit anywhere, up to 16 in a row in front of the checksum, up to 13 over its edge | fields arrive, every byte sent is written and every byte read was sent, rates are cut exactly to the bits of a half, halves are read exactly, and the checksum tells what the line damaged from what it did not |
| `batch` | counts and lengths below, at and above their limits | reads stay inside, a failed batch shows nothing, a packed one comes back |
| `ground_link` | sealed packets as `main()` sends them and plaintext ones as `build_packet` can build them, 3 packets up, 2 commands, one loss, one reset or restart; the drone's clock wraps every 4 ticks | acknowledgements and heartbeats tell what was done; the view converges |
| `configure_pixhawk` | 3 parameters, 2 attempts, 3 losses, a heartbeat of the bootloader, the autopilot or another system, PARAM_VALUEs of another name without end | the report is true, what was not warned about takes effect, the script ends |

Every disagreement between the code and what its comments and docs say
(`findings` in `PROJECT.json` quotes both) has a configuration; TLC answers with a
counterexample. Where a configuration names several properties, or runs over several
links, each of them fails by itself; TLC stops at the first, and shows another when the
configuration is cut down to that property or link:

| configuration (module) | property | disagreement |
|---|---|---|
| `MCHalfRange` (`ReplayWindow`) | `NonWrappingProtection` | protection against replays ends at half of the counter's range, not at its end |
| `MCRollover` (`ReplayWindow`) | `RolloverFresh` | counter 0 is not "guaranteed fresh" after the rollover |
| `MCParserClaims` (`MCStreamParser`) | `PacketsCounted` | `rx_count` counts nothing |
| `MCParserClaims` (`MCStreamParser`) | `FallbackKeepsWireValid` | the plaintext fallback leaves nonce bytes behind a header that announces none |
| `MCParserClaims` (`MCStreamParser`) | `CompleteReturnsOne` | `kestrel_core.h` says `ks_parse_char` returns 1 for a complete packet; it returns 0 then, and 1 when it needs more |
| `MCParserClaims` (`MCStreamParser`) | `ErrorsAreCrcOrMac` | `error_count`, documented as CRC and MAC errors, counts replays, missing keys and oversized lengths as well |
| `MCPlainLink` (`TelemetryLink`) | `KeepsHearing` | a plaintext stream is refused for good once its 12-bit sequence wraps |
| `MCMixedLink` (`TelemetryLink`) | `NoFalseReplay` | streams that share a receiver are taken for replays of each other |
| `MCBatchLink` (`TelemetryLink`) | `BatchesAccepted` | the second plaintext batch is taken for a replay of the first |
| `MCPolicies` (`SelectivePack`) | `PolicyInForce` | the ninth policy override is dropped |
| `MCPolicies` (`SelectivePack`) | `AlwaysMeansAlways` | a batch carries ALWAYS messages in clear |
| `MCPolicies` (`SelectivePack`) | `AlwaysEncrypts` | a build without cryptography sends ALWAYS messages in clear |
| `MCGroundSealed` (`GroundLink`) | `Answered` | the ground station's encrypted flag goes to a bit the drone does not read: of the packets `main()` builds, no command is executed |
| `MCBridgePromises` (`PixhawkBridge`) | `PixhawkWoken` | the autopilot never gets its heartbeat |
| `MCBridgePromises` (`PixhawkBridge`) | `CommandTranslated` | commands are read from the wrong buffer and never recognised |
| `MCBridgePromises` (`PixhawkBridge`) | `IdsTold` | the header cuts the ids of MAVLink senders: component 100 arrives as 4, system 255 as 63 |
| `MCAvrInt32` (`MCMessages`) | `RoundTrip` | `unpack_int32` corrupts values where `int` has 16 bits |
| `MCTornWrite` (`EEPROMNonce`) | `NonceUnique` | a save cut between its higher bytes goes back by more than the margin |
| `MCTornWrite` (`EEPROMNonce`) | `CounterSurvives` | a save that erases first, cut before it writes, leaves an erased counter, and the next boot sends the first counters again |
| `MCRestartedLink` (`TelemetryLink`) | `NoFalseReplay` | a sender restarted with a random counter is taken for a replay of itself |
| `MCFragmentedLink` (`TelemetryLink`) | `NoFalseReplay` | all plaintext fragments of a message but the first are taken for replays |
| `MCSamdFragments` (`FragmentLink`) | `FragmentsFit` | a board whose payload is smaller than a fragment cannot send what it cuts |
| `MCParamKept` (`ConfigurePixhawk`) | `ReportIsTrue` | a parameter that kept its old value is reported as configured |
| `MCParamKept` (`ConfigurePixhawk`) | `ConfirmedByAnswer` | a PARAM_VALUE nobody asked for confirms a parameter whose PARAM_SET was not answered |
| `MCStrayLinks` (`MCMessages`) | `RoundTrip` | the ground station reads fix and satellites where the library has the vertical accuracy (link to the ground station) |
| `MCStrayLinks` (`MCMessages`) | `RoundTrip` | the bridge's heartbeat and attitude are not laid out as the library's (link from the bridge) |
| `MCStrayLinks` (`MCMessages`) | `ChecksumTells` | the tools' copies of the seed table end early: an intact packet with a number from 0x00C to 0x022 counts as damaged in the ground station |
| `MCOldGcs` (`MCWire`) | `OldGcsMirrors` | `kestrel_gcs.py` drops two bits of the payload length |

### Bounds

Widths are scaled down, never away: the window is narrower than half of the
counter's range and the range wraps within a run; `OverrideMax` is below the
number of messages, so the table fills up; there are fewer slots than keys, or
as many (`Slots`); the buffer holds exactly the longest packet, as
`KS_PARSER_BUF_SIZE` does; clocks wrap within a few timeouts or timers. `Wire`
and `Messages` keep the real widths. Runs end by the bounds named in the
modules: `Quota`, `Limit`, `MaxPackets`, `MaxMessages`, `Quiet`, `MaxLost`,
`MaxArrivals`, `MaxHeard`, `MaxRestarts`, the fields `maxFrames` and `maxFaults` of each of
the parser's `Links`, `Foreign`, and `MaxSent`, `MaxKeys`, `MaxFaults` of the
ground link. Each lets the interesting case happen at least once: a rollover, a
full table, a slot taken back, a fault inside a packet and the packet after it,
a command lost and one that is not. The ground station's sequence does not
wrap within `MaxSent` packets; `MCPlainLink` shows what happens when it does. The
telemetry link's losses and restarts together stay below half of the counter's
range (`StreamsAssumption`), as 2^31 packets are beyond any outage. Three losses let the
script lose all attempts for one parameter and a message of another, and the
short `Wait` lets every answer be late.

Deadlock is checked except in `messages`, `batch` and `configure_pixhawk`, where
a message that has been read, or a script that has printed its last line, is the
end of the behaviour. Where a bound ends a run of a system that
does not stop, an explicit stuttering action says so (`Done`, `Rest`).

### Types

Every module that keeps state has a `TypeOK`. In `BufferFits`, `SlotsConsistent`,
`InBounds` and `NothingStale` it is a conjunct of what the runs check, and it is proved of
every module; the types of `Messages` are part of `NothingStale`.

### Fairness

Fairness is assumed only where the code loops without condition: `loop()` runs
for ever (`WF_vars(Loop)` of the bridge and of the drone, and `WF_vars(Arrive(s))`
of each sender, whose `loop()` sends and delays), `rx_thread` runs for ever
(`WF_vars(Receive)`), and time passes (weak fairness of `ClockTicks` of the bridge; in the
drone's loop time passes with each reading of the clock). `Arrive` includes that
a line does not lose everything; `MaxLost` bounds the losses in a row. The
configuration script runs (`WF_vars(Script)`), its clock goes on (`WF_vars(Tick)`) and the
autopilot gets to what it receives (`WF_vars(AutopilotActs)`); that it answers in time
is not assumed, nor that anything arrives. Keys, arrivals, losses, resets and
restarts are never assumed to happen. The other modules assume no fairness.

## The proofs

`ReplayWindow_proofs`, from `WindowAssumption` (the window is narrower than
half of the range) and `Quota < H` for the properties that need it: the types; no replay;
the window's top; reordering; the refinement. The invariant behind them ties
the window to the history: the packets delivered determine `last_seq` (the
latest one), each set bit is a delivered packet at that distance, and each
delivered packet within the window has its bit. Types and at-most-once alone
are not inductive, because they say nothing of what a clear bit means. Counters
are related to places in the session by undoing the one rollover a quota below
H allows; `MCHalfRange` shows why that bound is needed.

`EEPROMNonce_proofs`, from the module's assumption (the margin is no less than
what one power cycle sends) and `SafeCuts`: a save erases nothing first, and commits at once or can be cut
in one place, below which the margin has room for a burst and for all that the low
cells hold. Then: types, distinct counters, resuming ahead, and the refinement of
`DurableCounter`. The invariant states, for each section of `setup()` and `loop()`,
how the counter, EEPROM and the issued counters are ordered: issued counters lie
below the session's counter, and that below EEPROM plus margin. A torn save keeps the
high cells, so the invariant asks more (`HighCellsAhead`): the high cells alone, plus
the margin, are past everything sent. The exception is an erased EEPROM, whose
high cells read erased even after a torn first save (`Unwritten`); under that key
nothing was sent yet. With two cuts, as on an AVR board, or with flash that is
erased first, the hypothesis fails, and so does the code (`MCTornWrite`).

`SelectivePack_proofs`, from `PackAssumption` (a session issues fewer counters
than there are) and `CounterAssumption`: types and the size of the override table, the
policy in force, no downgrade, key lifetimes, fresh nonces, for both builds. Two
parts of the invariant are not properties of the runs. `Table`: a message
has one override at most, so the first entry the code finds is the one it last
wrote. `Trail`: `ks_nonce_generate` skips the last counter, so a session walks a
ring of M - 1 values, and each counter issued lies as many places behind the next
one as packets were sent since; two equal counters would be a whole ring apart.
The actions `SessionKept` and `PacketMade` say once what any pack call does, and each
pack function follows from them.

`StreamParser_proofs`, from `SizesAssumption` (the buffer holds the longest packet) and
whatever bytes the line loses, garbles or inserts: types, the buffer, order of acceptance,
the error counter, the window, the verdict on every whole frame, and getting back in
step. The invariant says for each state of the parser where `expected_len` lies between
the parts of the packet (`Framing`), what the sender may have on the line (`SenderOK`),
and that a frame still to come is newer than all accepted ones (`InOrder`). Each call
either skips its byte, keeps it, abandons the packet or hands it over (`Skips`, `Grows`,
`Abandons`, `Takes`): every branch of `ks_parse_char` is shown to be one of these four, and
the properties follow from the four. For `WholeFrameDecided` the invariant is joined by what
the buffer holds while a frame is whole so far. Its hypothesis `LengthsAgree` leaves out the one
link on which the length the sender writes is not the one its header announces, a build
without crypto that is asked to encrypt: there the property is false (`MCParserClaims`).

`FragmentLink_proofs`, from `FragmentAssumption` and `TrafficAssumption` (a key comes back only
when nothing of its previous message can be under way or in a slot; no message without keys, and
finitely many of them): types, slots, wholeness, completeness. An
open slot is current, that is holds the fragments of its key's latest message that have
arrived, or outdated, that is so old that the next call evicts it before it can be taken
for a newer message of its key (`OpenSlots`); ages are bounded so that the wrapping clock tells them
apart. `Awaited` is what completeness needs: as long as more of a message may arrive, and
there were never more keys than slots, its slot holds exactly what has arrived. That a free
slot exists then is a pigeonhole argument (`CrowdLemma`). The length of the reassembled message is
a sum over the fragments, a recursive function in `Fragments`; what is needed of it is
proved by looking at the smallest number of fragments at which it fails.

`Payload_proofs`, from `BatchAssumption`: bounds, a failed batch announces nothing, and
reading is the inverse of packing. `Progress` ties the reader to the payload: the bytes
before `pos` are what the messages read so far would be packed into. `Own` says of a batch
packed here that the messages read are its first ones; the lemma `NextOfPacked` then finds the entry
of the next message at `pos`, so that none of the early returns is taken. `FlattenSeq` is a recursive function
of the community modules: `FlattenAppend` and `FlattenPart` say what it does, again by the smallest
counterexample.

Its second half is about `Messages`, for any set of samples (`Words`) where the run has six: a field of
up to four bytes takes every value, a longer one every repetition of a sample that `Bytes` makes of it, and
a structure mixes two samples in every way. It comes in three parts that meet in one invariant. *Conversions*: every half is read as the float of its
value (`HalvesExact`), every float arrives as a rate cut toward zero (`RatesArrive`). *Tables*: the rows of each
serializer lie apart and cover the bytes it returns, and a reader's rows are each a row of the
writer's, a part of one, or bytes the writer sets to zero, so a field is read from the bytes it was written to. *Checksum*:
`ks_crc_accumulate` is linear in the bits and undone only by itself, so
two packets have the same checksum exactly if the difference between them has checksum zero; a fault
that fits into 16 bits leaves a difference that is not zero, and no further byte brings it back to zero
(`FaultsShow`, for packets of any length). The checksum is a recursive function; what holds of every prefix
is again proved by the smallest counterexample. The invariant (`MInv`): what is on the
line is the sealed packet with the struck bits inverted, the verdict is that of the reader's checksum on it, and what was
got is what the reader's table makes of its payload. From it follow `PeersHalfExact` for any
`Links`, and `NothingStaleArrives`, `FieldsArrive` and `FaultsTold` for the links the repository has (`Links` within
`AllLinks`; along others, and along those of `MCStrayLinks`, they are false), `FieldsArrive` for an
`int` of 32 bits, since with 16 it is false (`MCAvrInt32`). `FaultsTold` is `ChecksumTells` but for a bit
of the message number: that a changed number does not bring the right seed with it depends on the
values in the table of seeds.

The proof found the model wrong: `Damage` once allowed 16 bits in a row across the edge of the
checksum, where TLC had tried few patterns and the claim is false. `WiderFaultsPass` keeps the counterexample.

`TelemetryLink_proofs`: types for any set of streams, and no false replay under
`OneDurableStream`: the receiver hears one board, and that board keeps its counter, as the
EEPROM sketch does. With a second stream, a random counter or a plaintext sequence the
property is false (`MCMixedLink`, `MCRestartedLink`, `MCFragmentedLink`). The invariant
(`AllAhead`) keeps the next counter ahead of `last_seq` by at most one, the losses in a row and
a margin for each restart, which `StreamsAssumption` keeps below half of the range, with one more
where `ks_nonce_generate` has left out the last counter.

`Pixhawk_proofs`, from `ConfigureAssumption`: types; when the script is done, each
parameter is stored, reported, one of those the autopilot answers for and keeps as it is, or one
told by a PARAM_VALUE nobody asked for (`SettledWhenDone`), hence a true report of an autopilot that
keeps none, as long as none is told unasked (`Fixed = {}` and `Unasked` without names; with one the
report is false, `MCParamKept`), and `AnswersConfirm` whatever it keeps; and `EffectWhenSettled`, the safety half of
`TakesEffect`. The invariant: only commands of the script are under way, an answer under way tells
of a stored parameter, a fixed one or one told unasked, and what the script has left behind is
settled. For the effect, it also says who gets the commands, that the reboot is the last of them, and what the
autopilot runs with once it has come.

Its second half is about the bridge, from `BridgeAssumption`: types, and relaying in order, each message under
its own sender's ids as the header cuts them (`RelayedInOrder`). The invariant gives every message of the autopilot a
place: what the bridge has written to the PC is the translatable part of what the autopilot has sent
so far, less what waits in the port's queue, so nothing is written twice, left out or overtaken;
the ids last seen belong to the last message read. `AutopilotNeverTold` says of the two findings
what a run can only say up to a bound: for no period and no clock does the bridge write a
byte to the autopilot.

The second half of `TelemetryLink_proofs` is about `GroundLink`, from `GroundAssumption` and
`WindowAssumption`: types, what the drone tells (`DroneToldAsDone`), and that it does
nothing it is told under encryption (`SealedNeverAnswered`, the finding of `MCGroundSealed`
without a bound). The invariant (`GroundInv`): commands wait in the order they were sent and are newer
than the last one executed (`CommandsWait`); `g_armed` is what the last command executed made of it,
or false since the reset (`ArmedByDeed`); and what is on the way back is older than
what the drone does next (`DroneTells`). That is needed because the properties compare two packets on the line
with each other, one of which is written long after the other.

The second half of `SelectivePack_proofs` is about `Wire`, at the real widths of every field: for
every header the packet carries it whole (`HeaderAlwaysArrives`), and the tools read what
`ks_parse_char` reads (`ToolsAlwaysMirror`). The proof goes through the bytes: `SentEncoded` shows that all
four encoders lay the same fields into the same bits (`Encoded`), `ReadBack` that the
decoders' shifts and masks undo it, and `WireInv` that the receiver's header is what those shifts make of
the bytes, at first of the base header and then of all, and that what the packet does not carry is what the code leaves
there. The assumption `SenderAssumption` says what the senders do: stream types are the `KS_STREAM_*`
numbers, which have four bits (a fifth would be cut off after the encoder has looked at it); the tools
send neither fragments nor, here, encrypted packets, whose flag the ground station misplaces.

Assumptions added for the proofs say that sets are not empty (`Streams`, `Keys`, `Ids`),
since initial values are chosen from them, and that the number of `Keys` is finite (a key is two header
fields of fixed width).

Only model-checked: liveness (`KeepsHearing`, `SelfTestForever`, `ViewConverges`,
`TakesEffect`, `Finishes`), which the prover does not handle, and `ChecksumTells` where the
line inverts a bit of the message number, which is a matter of the values of the seeds.

## Not modelled

* The AEAD primitive (`monocypher` is vendored): abstracted to "opened with the key
  that sealed it". Outside `Messages`, the checksum: abstracted to "the bytes are those sent".
* The UDP drone sketch, which uses names the library does not have.
* Of the heartbeat receiver, dispatch and printing: its loop is a receiver of
  `StreamParser`, its handlers are `Deserialize` in `Messages`.
* Of the older Python tools, their loops around reading and printing, and the rest
  of `kestrel_gcs.py`, which talks to the UDP sketch.
* Of the configuration script, the search for the port; of the autopilot,
  everything but its parameters and its reboot.
* Of the telemetry sketches, the sample values they send.
* Board configuration headers: their values are CONSTANTS.
* Simulated sensor values, and all printing.

## Plan

1. Done: replay window with its abstract link and proofs; session; EEPROM sketch
   with torn saves, its abstract counter and proofs; pack functions with proofs;
   parser; telemetry links with fragments and restarts; header and payload
   layouts of all programs; serializers; checksum; batches; fragments; bridge; USB drone
   and ground station; configuration script.
2. Next, in the models: the parser's payload buffer inside `StreamParser`; the
   ground station's random nonces beside the drone's counters, behind the
   misplaced flag.
3. Done, in the proofs: the safety properties of every module that keeps state, `ChecksumTells`
   but for the bits of the message number; both refinements; the two findings about bridge and ground station that say something
   never happens.
4. Next, in the proofs: a telemetry link whose encrypted streams all have disjoint ranges of
   counters, each with a receiver of its own.
