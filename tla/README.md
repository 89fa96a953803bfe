# A verification project for the Opus codec in Rust

This directory holds TLA+ models of the control logic of the Rust port of the
Opus codec (`src/`), TLC configurations that check them on small instances, and
theorems that TLAPS proves for every value of the constants. Every definition is
translated from the source; `PROJECT.json` maps each one to its lines.

The library is sequential: no threads, no locks, no I/O. What is hard in it is
not interleaving but *history*. An encoder and a decoder that never meet must
keep the same memory from frame to frame, while packets change mode, get lost,
arrive as redundant copies or fail half-way; hardly any field of the stream
announces itself, so that both ends must compute, from their own position and
their own past, which one comes next; and integer bounds (48 frames, 120 ms,
1275 bytes, 32 bits) must hold along every path.

## The system

| Component | State it keeps | Operations | What makes it correct | Here |
|---|---|---|---|---|
| Opus decoder front-end (`opus_decoder.rs`) | mode, previous mode, frame size, redundancy flag, duration of the last packet, one SILK and one CELT decoder | `opus_decode*` (packet, loss, FEC), `OPUS_RESET_STATE` and other CTLs | audio is never predicted from a memory that missed audio; a call delivers what it promises; switches are hidden | `OpusDecoder`, `DecodeContract` |
| Opus encoder front-end (`opus_encoder.rs`) | mode, bandwidth, channels and their past, redundancy, DTX and FEC state | `opus_encode*`, CTLs, reset | the TOC tells the truth; packets fit and last as asked; hystereses settle; silence is refreshed | `EncoderDecisions`, `OpusEncoder`, `HybridFraming` |
| Packet framing, repacketizer, padding (`packet.rs`, `repacketizer.rs`) | TOC, frames, their padding, a copy of the packets | parse; `init`, `cat`, `out`, `pad`, `unpad`, the multistream variants | merging, splitting, padding and unpadding keep the frames, in order | `PacketFraming`, `Repacketizer`, `Repacking`, `MultistreamPadding` |
| Packet extensions (`extensions.rs`) | iterator position, repeat section | iterate, find, count, parse, generate | what is generated parses back to the same extensions on the same frames | `Extensions`, `ExtensionIterator` |
| Range coder (`celt/entenc.rs`, `celt/entdec.rs`, `range.rs`) | low, range, carry, buffered byte, raw-bit window | encode/decode symbols, raw bits, `shrink`, `done` | the decoder reads the encoder's symbols, at the same positions | `RangeCoding` |
| SILK (`silk/`) | at each end: predictors, gains, frame counters, channels, rate | `silk_encode`, `silk_decode`, reset, prefill | both ends derive the same next field and go on from the same memory; lost frames are concealed once | `SilkLink`, `SilkGains`, `SilkRateLoop`, `SilkPulses` |
| CELT (`celt/`) | at each end: band energies, pitch filter, overlap; rate reservoir, loss duration | encode, decode, conceal, reset | the same fields, the same division of bits, the same energies at both ends; the rate is kept | `CeltFrame`, `RateContract`, `CeltRate`, `CeltHistory`, `CeltPitchFilter`, `CeltAllocating`, `BandFolding`, `PulseCoding`, `LaplaceCoding` |
| Multistream (`opus_multistream.rs`) | a layout and one front-end per stream | encode, decode, CTLs by stream | sub-packets agree on duration; each channel gets its stream | `StreamRates`, `Multistream` |
| Deep redundancy, neural concealment (`dred*.rs`, `celt/deep_plc.rs`) | latents and activity of the last second; queue of features, blocks made ahead | add input, encode; inject features, conceal | features are of the time they are played at | `DredEncoder`, `NeuralConcealment` |
| Signal analysis (`analysis.rs`) | a ring of analysed blocks, a read position | `run_analysis`, `tonality_get_info` | a frame is told about its own audio | `SignalAnalysis` |
| Projection and mapping matrices | — | — | — | not modelled: linear algebra over fixed matrices; no control state of its own |
| Typed API wrappers | — | — | — | not modelled: thin wrappers that validate arguments and forward to the front-ends |
| Signal processing | — | — | — | not modelled: numerical kernels without control state |
| Tables and generated data | — | — | — | not modelled: constant data |
| Tools | — | — | — | not modelled: file readers and command-line demos around the library |

**How they interact.** The application calls `opus_encode*` / `opus_decode*`.
The encoder front-end chooses SILK, CELT or both (hybrid) for each frame and
writes them through *one* range coder, then may append a redundant CELT frame;
framing and the repacketizer join frames to a packet. The decoder front-end
parses the packet, calls SILK and CELT with the *same* range decoder, decodes
redundant frames with CELT alone, and conceals what is missing by calling itself
without data. Multistream holds one front-end per stream and cuts a packet into
self-delimited sub-packets. All of these are direct calls on owned or borrowed
state; there are no callbacks except the `decode_frame` closure that
`decode_native_with` takes for DRED.

**What is hard.** *Protocol sequences*: the right reset or redundant frame
depends on the two frames before, and on whether they were lost. *Stale state*:
a coder that sat out a frame must not continue as if it had played it. *Partial
failure*: a packet's header is stored before its frames are decoded. *Lost
packets*: concealment, FEC, DTX. *Numeric edges*: durations that are not frame
sizes, sums at 120 ms, lengths at 252 and 1275, products at 2^31. *Resource
bounds*: 48 frames, a fixed output buffer, a ring of 100 slots. `PROJECT.json`
lists each hazard at its line, with the properties that watch it.

## How the project is laid out

A module models one part of the code: its state as variables, one action per
operation, or, where the code is a pure function, operators. `<module>Proofs`
holds theorems. Both ends of the stream are mostly in one module: what the
properties compare is what the encoder did and what the decoder makes of it.
Sound is abstract everywhere: a frame is a name, an age or a small number, so
that a property can say *which* sound a memory holds without computing any.

`MC<name>` gives TLC the constants of one or several modules and composes them
for a run. Where the parts of the code have no state in common (the gains of
SILK and its rate loop, say), a variable `part` says which of them a behaviour
is about, and the others' variables stay as they are: the run then checks each
part completely, and nothing about combinations, since the code has none. Where
parts interact (the two ends in `SilkLink`, `Multistream` over `PacketFraming`
and `StreamRates`, `Repacking` over `Repacketizer`, `PacketFraming` and
`Extensions`, `CeltFrame` over `CeltAllocating`) they are composed in the module
itself.

Some properties are conjunctions with one name each of their parts, where the
parts are one question (`FiltersAgree`: the same filters in the same place,
without a loss, after one, and on concealed sound). The type invariant of such a
module is their first conjunct.

A run whose expectation is a violation checks one property that a comment, a
test or an assertion of the repository states, and finds where the code departs
from it; each is a finding in `PROJECT.json`, with the line it quotes. Fairness
is assumed in two places only, `OpusDecoder` and `ExtensionIterator`, since
nothing obliges an application to go on calling; everything else is safety, and
a run explores its state space completely. Deadlock is not checked where the
system may stop: no caller has to make another call, and most runs have a bound
on calls, packets or losses, named in the configuration.
## The decoder front-end

`OpusDecoder.tla` models `decode_native_with` and `decode_frame`.

*State.* `dec` is `struct OpusDecoder`, in units of 2.5 ms: `mode` and
`frameSize` (the header of the last packet), `prevMode` and `prevRedundancy`
(the last *frame*), `lastPacketDuration`, and for each coder the **lineage of its
memory** instead of its samples: `reset`, `full`/`hybrid` or `live` (has just
run), `stale` (audio was output that it has not seen). `call` holds the locals
of the API call in progress, `heard` what the last `decode_frame` put into the
caller's buffer: the memories it was predicted from and what it was faded from.

*Actions.* `CallConceal`, `CallDecode`, `CallRecover` are the three ways into
`decode_native_with` (no packet; a packet; a packet with `decode_fec`);
`ConcealStep`, `DecodeStep`, `RecoverStep` are one `decode_frame` call from each
of its loops; `ResetState` is `OPUS_RESET_STATE`. `Conceal` is
`decode_frame(None, ..)` with its cut to the frame size, its chunks of 20 ms and
its rounding; `DecodeFrame` is `decode_frame(Some(..))`: `Fades` is the
`transition` flag, `SilkRestarts` and `CeltRestarts` the two resets,
`FlushesHybrid` the 2.5 ms of CELT silence after hybrid. The content of a frame
is one of `Payloads`: lost (at most one byte), plain, a leading or trailing
redundant frame, a redundancy size larger than the frame, or one that the sanity
check discards.

*The contract.* `DecodeContract.tla` says what a caller is promised: a call for
`want` units either delivers exactly those and reports them as the duration of
the last packet, or fails and leaves that duration alone. `Promise` is the
refinement mapping.

| Run | Properties | Shows |
|---|---|---|
| `decoder` | `NoStaleAudio`, `NoMissingBands`, `SwitchesHidden`, `RedundancyCarriesOver`, `KeepsPromise` | every order of modes, losses, redundancy, failed packets, FEC and resets keeps the memories of SILK and CELT in step with the audio, hides every switch, and delivers what a call promises, in finitely many steps |
| `decoder_chunks` | `ConcealmentIsConsistent` | **violated**: a concealment of 35 ms after a 40 or 60 ms packet fails inside the decoder |

*Bounds.* Requests hold one value for every remainder by 20 ms that concealment
treats differently, alone and after a whole 20 ms, the longest frame and one
beyond it. Packets have up to two frames: each is decoded from the state the one
before left, and a third meets no state a second cannot. The state space is
otherwise finite and explored completely.

*Fairness.* `WF_vars(Step)` only: a call, once made, is a loop of a single
thread and runs until it returns. Nobody is obliged to make a call. The contract
asks for the same of its own steps, so `KeepsPromise` includes that every call
returns: each `decode_frame` writes something or fails.

*Proofs.* `OpusDecoderProofs.tla` proves, for **every** set of positive requests
and any bound on frames from 1 to 48, from the two assumptions of `OpusDecoder`
on its constants: `TypeOK`, `Inductive`, `NoStaleAudio`, `NoMissingBands`,
`SwitchesHidden`, `ExactDelivery`, the action property `RedundancyCarriesOver`,
and that every step of the decoder is a step of `DecodeContract` or leaves its
variables alone (`PromiseIsKept`). None of the safety properties is inductive
alone. `Inductive` adds two parts. `Lineage` ties each memory to the mode and
redundancy flag of the last frame (for instance: after a SILK frame without a
trailing redundant frame CELT is `reset` or `stale`; with one it is `full`),
which is what makes the operands of each reset decision sufficient. `CallShape`
places a call in its loops (a decode has exactly `frames * size` units left),
which makes the loops exact. `Good` adds what was heard and delivered. There is
one lemma for `decode_frame` without data, one with, and one for each action.
`ConcealWholeFrame` says that a frame of a packet can always be concealed, so
that of `decode_frame`'s errors only a redundancy size beyond the frame reaches a
packet. The two properties about switches and redundant frames then follow from
`Good` by one lemma about what a single frame hears (`FrameHears`). The
refinement needs `UnderWay`: during a call the reported duration is the one from
before it, except in a recovery whose leading concealment has ended, where the
code has overwritten it and the recovered frame must not fail. What remains with
TLC is the fairness of the contract: `ENABLED` is out of the prover's reach.

*Left out.* Bandwidth and end band, stream channels, gain and soft clipping,
`range_final`, deep PLC, and the arithmetic of SILK and CELT.

## Packet extensions

`Extensions.tla` defines the format's reader and writer (`extensions.rs`) as
operators. An iterator is the record the code keeps; one *turn* of
`next_extension` or `next_repeat` is one passage of its loop (`ScanTurn`,
`RepeatTurn`), and a call is its turns until it returns. `ParseExt`, `CountExt`
and `Reading` are the functions built on it; `Generate` is
`opus_packet_extensions_generate` with its runs, repeats, lacing and filling.
Payload bytes are opaque, and the two numbers of the format that only set a
scale are parameters: `Lace` (255) and `LongId` (32).

`ExtensionIterator.tla` is the state machine over it: a caller creates an
iterator on any padding and mixes `next`, `find`, `set_frame_max` and `reset`.

| Run | Properties | Shows |
|---|---|---|
| `extensions` | `RoundTrip`, `AnyBytesAreRead`, `WalkEnds` | every list of up to three extensions in up to three frames that generate writes is read back to the byte; on every padding of up to four bytes, well formed or not, the iterator keeps its place, ends, and returns what can be written again |

`RoundTrip` is about what the generator wrote, `AnyBytesAreRead` about any bytes:
the iterator keeps its place (`InStep`) and stays within the padding (`InRange`),
`set_frame_max` only leaves out what is beyond it, what was read can be written
and read again (`Rewritable`), and the parser files it by frame in the order of
the walk (`GroupedByFrame`).

*Bounds.* Lists of up to three extensions in three frames are the smallest in
which a repeat, an extension after it and one in a later frame meet; paddings of
four bytes over one byte of each kind reach every branch of both loops.

*Liveness.* `WalkEnds` assumes `CallsOn`: while the iterator has not ended the
caller goes on calling it. That is what every loop over it in `src/` does. It is
written as a formula and not as `WF_vars(CallNext)`, which says the same here.

*After an error.* An error from a bad separator is final; one from inside a
repeat is not, and the next call goes on behind the extension that failed. Every
caller in `src/` stops at the first error, so no property forbids it.

## Packets, the repacketizer and padding

`PacketFraming.tla` is `packet.rs`: `Parse` is `opus_packet_parse_impl`, in the
order of its checks (`TocRead`, `CountRead`, `PaddingRead`, `SizesRead`,
`LastSize`, `Cut`). A packet is the sequence of its bytes; the TOC is a real TOC
byte, and `MaxByte` (255) scales everything that depends on the width of a byte:
the escape to two-byte sizes (`MaxByte - 3`), the largest frame (5 times it), the
bytes that continue a padding length.

`Repacketizer.tla` is `repacketizer.rs` over it and over `Extensions`: `Cat` is
`cat_impl`, `OutRange` is `opus_repacketizer_out_range_impl` with its plain and
its code 3 forms, `Pad`, `PadWith` and `Unpad` the functions on whole packets. A
repacketizer is its TOC, frame duration and the sequence of its frames, each with
the padding stored for it; the code's four arrays and its copy of the packets
are that sequence.

`Repacking.tla` is the state machine: one repacketizer, one packet in hand, and
`init`, `cat`, `out_range`, `pad`, `pad_with_extensions`, `unpad` in any order.
Beside them it keeps what the frames *are* (`held`, `carried`), computed without
looking at any byte; `CarriesTheFrames` compares the two. `MultistreamPadding.tla`
does the same for multistream packets; there `unpad` takes one action per stream,
because it rewrites the buffer it reads.

| Run | Properties | Shows |
|---|---|---|
| `repacking` | `CarriesTheFrames`, `FormsAreInterchangeable` | packets gathered, split, padded, extended and stripped in any order keep their frames and extensions, and no call fails that a caller could not avoid |

*Bounds.* With `MaxByte = 7` a frame of 4 bytes needs a two-byte size and a
padding of 7 two length bytes, so all boundaries lie within buffers of 16 (48
where a property asks what happens given room) and 52 bytes. Received packets are
written by hand in forms the repacketizer would not choose itself: sizes written
though they are equal, padding that is empty, of zeros, with extensions, and
malformed after the first one. `MaxHeld`, `MaxGathered`, `MaxExtensions`,
`Lengths` bound how much is gathered and added; three frames of 40 ms reach the
120 ms limit. `MultistreamPadding` is checked in the run `multistream`, with three
streams: two rewritten and one behind them.

*Two things the code does not promise*, and the properties leave room for them. A range
that begins behind the first frame of a packet loses that packet's extensions,
since they are stored with that frame; `Moved` says so. Extensions that another
encoder wrote may need a byte more when they are written again, so that padding
such a packet by a byte or two can fail; `PaddingFits` is about paddings in the
form the generator gives them.

*Proofs.* `PacketProofs.tla` proves for every `MaxByte`, at every place in
a packet: `parse_size` reads what `encode_size` wrote (`SizeRoundTrip`), and the
parser takes a padding for exactly as long as the repacketizer meant it
(`PaddingRoundTrip`). They rest on `MaxByteAssumption`: `MaxByte + 1` is a
multiple of 4, as 256 is, which is why the low two bits of a size fit the first
byte. The first is where `encode_size`'s second byte could overflow, the second
where each `MaxByte` stands for one byte of length and one less of padding.
The lemmas behind them say of any bytes what the parser can make of them
(`ParseLemma`, `FrameEndLemma`); the proofs about multistream packets rest on those.
Everything else here is model-checked.

*Left out.* The code's `debug_assert`s, and arithmetic that a checked build would
stop at: `remaining -= size_bytes` on size bytes that lie in the padding, where a
release build refuses the packet, as the model does.

## The encoder front-end

`EncoderDecisions.tla` holds the arithmetic of `opus_encoder.rs` as operators
(durations, equivalent rate, mode, bandwidth, FEC, redundancy, TOC byte), with the
integers of the code. `OpusEncoder.tla` is the state machine:
`opus_encode_with_options` and `encode_frame_native`, one action per step of a
call (begin and decide, each frame, the retry of a frame that did not fit, return),
the CTLs the decisions read, and `OPUS_RESET_STATE`. The signal is what the
decisions see of it (silence, the analysis, stereo width, voice activity); what
SILK and CELT do with the bits is a choice. `HybridFraming.tla` follows the bytes
of one hybrid frame from the encoder's header to the decoder that has to find
the redundant frame from the packet's length alone.

| Run | Properties | Shows |
|---|---|---|
| `encoder` | `HeaderIsFound`, `RedundancyIsFound`, `CeltHasRoom`, `SilenceBounded`, `LastsAsAsked`, `PacketFits`, `SaysWhatItDoes` | callers who change signal, rate, bandwidth and FEC, pause under both kinds of DTX, code hybrid frames at low rates and packets of several frames in small buffers; and the place of a redundant frame in hybrid packets of all lengths |

`SaysWhatItDoes` joins what a packet says and what it carries: the TOC byte
against the readers of `packet.rs` (`TocTellsTheTruth`), the bandwidth against
the limits (`NoWiderThanAllowed`), the share of CELT (`CeltKeepsAShare`), the
hystereses under constant input (`PacketsSettle`) and the settings of the caller
(`ForceSticks`).

*Bounds.* Four programs use the encoder, `MCCallers`, each with the settings and
inputs of one question (changes of mode; pauses; low rates; packets of several
frames), rates on either side of every threshold that matters to it; the full
product of all CTLs is out of reach. `quiet` and `steady` are histories that
saturate. `HybridFraming` takes every small size and those around the limit of
257 bytes.

*Proofs.* `EncoderProofs.tla`. For the redundant frame, of every size and every
wish: `AlwaysShaped` proves the invariant `FramingInv`, one conjunct for each
stage with the inequalities between position, header and lengths that the stage
leaves; that the header and the redundant frame are found and that CELT has room
follow. They rest on the assumptions on the sets of sizes, and the 37 bits of the
header.

For the encoder, of every rate, application and complexity, any number of
callers, and any sequence of the calls and settings that
`opus_encode_with_options` and `opus_encoder_ctl` accept (`Calls`, `Settable`:
the callers of a run use a handful of them): `EncoderHolds` proves `EncoderInv`.
What a packet says depends on fields chosen before its first frame, and on
frames that are refused, retried or skipped after it; so the invariant says of a
call in progress (`TheCall`) that its mode has frames of the size chosen and a
bandwidth that is allowed, that the frames done and to do are together the
duration asked for, and that the history still speaks of the same call; of the
packet returned (`ThePacket`) what is left of that; and of the settings and the
struct (`OptTypes`, `Structs`) the sets they keep to. `LastsAsAsked` and three of
the five parts of `SaysWhatItDoes` follow: the TOC byte, the width, the setting
of the caller.

`SilenceIsBounded` goes through the two counters (`SilenceCounted`). The encoder's
own counts all the time without activity, so while it is past its threshold it has
counted all of the silence but one frame; where it stands at zero, SILK's counter
has counted what came since, 20 ms a frame. The theorem has a hypothesis, that no
frame that has to be sent is refused for its size (`FrameTooLong`, `CeltStarves`).
Without it the bound is false: SILK decides that the frame is to be sent and
starts its count again, the frame does not fit, nothing is sent. At 12000 bit/s in
a buffer of 60 bytes TLC reaches 880 ms of silence, 20 over the bound. The
run's callers give no such buffer.

`CeltKeepsAShare` (piecewise arithmetic of the table of rates) and `PacketsSettle`
(the fixed points of all hystereses together) have no proof and stay with TLC.

`PacketsFit` proves `PacketFits` for packets of any number of frames.
`BytesCounted` says that the lengths of the frames coded so far have partial sums,
that `call.total` is the last of them and that it is within `FramesBudget`, and
the same of the packet returned. A frame is at most its share of what is left
(`Longest`), which keeps the sum to the budget (`EmitBytes`). `GatheredLemma` is
the repacketizer's side: its payload is the sum less one byte a frame (`SumLemma`),
and the sizes it writes take at most two bytes for every frame but the last, which
is what the budget had kept for the header.

*Left out.* High-pass and DC filters, stereo-width and gain fades, the LFE and
surround settings, float conversion. SILK on its own is never granted a bandwidth
switch by this port (`opus_can_switch` stays false), so `silk_bw_switch` is left
out.

## The range coder and the codes above it

`RangeCoding.tla` has `entenc.rs`, `entdec.rs` and the decoder of `range.rs` as
operators, with the widths of a symbol and of a register as constants: with symbols of
2 bits in registers of 8 TLC reaches carries through several symbols and full buffers.
Its actions write any items, shrink, finish, perhaps damage the payload, and read. `SilkPulses.tla` writes and reads SILK's excitation (sums,
splits, low bits, signs: four passes over the blocks at both ends);
`PulseCoding.tla` numbers CELT's pulse vectors as the encoder does and reads the
numbers in the two ways of the decoder; `LaplaceCoding.tla` does the same for band
energies and latents.

| Run | Properties | Shows |
|---|---|---|
| `entropy` | `PayloadsComeThrough`, `PulsesComeBack`, `EnergiesComeBack` | what the range coder writes from both ends of a buffer is read back at the same positions, SILK's payloads damaged and cut short too; SILK's pulses, CELT's pulse vectors and the Laplace code of energies and latents come back |

`PayloadsComeThrough` covers the round trip, the positions both ends compute
(`TellsAgree`, `FinalRangesAgree`), the room at the end of the buffer, and the
equality of the two decoders on damaged SILK payloads. `PulsesComeBack` and
`EnergiesComeBack` are round trips, also over what another encoder may send, and
that every entry of the tables that is asked for exists.

*Bounds.* Payloads of up to four items. Four samples in a block of SILK have every
level of the shell code but the topmost, which real blocks, checked for ten
frames, have. Vectors are numbered up to 5 elements and 5 pulses, since TLC's
integers have 32 bits; which entries of the table are asked for is checked for
every band.

*Left out.* Snapshots (copies of the state), `tell_frac` and the division by
table. These modules are recursive over data; nothing is proved about them.

## SILK

`SilkLink.tla` says what a SILK packet holds and how both ends go through it, and
composes an encoder, a network that loses packets and a decoder that conceals,
decodes redundant copies (the calls `OpusDecoder` makes), is reset or
changes rate and channels. A channel's prediction memory is the name of the frame
it holds; `misread` is the state of a decoder that expects another field than the
one that comes. `SilkGains.tla` follows the gain levels at both ends, subframe by
subframe, through losses and copies; the real scale of 64 levels is small enough
to be checked whole. `SilkRateLoop.tla` is the loop of `silk_encode_frame` that
quantises a frame up to seven times until it fits; after giving up the quantiser
remembers the pulses that were cleared, as in the reference.

| Run | Properties | Shows |
|---|---|---|
| `silk` | `InStep`, `MemoriesAgree`, `CopiesOfTheLostPacket`, `OneVersionRemains`, `NeverFurtherApart`, `TogetherAfterLoss` | one channel and two with redundant copies, losses, changes of duration and rate, CELT interludes and resets; all 64 levels of the gains at both ends; all seven turns of the rate loop with any bits and gains |

*Bounds.* `MCSetups` are three uses: mono with copies, 60 ms packets with copies,
and stereo without copies with one frame in a packet. Stereo with copies and
stereo packets of 40 and 60 ms are not among them, since the code's ends misread
each other there (below). Three ids stand for the gains of seven turns: the loop
compares only the last and the kept one. Left out are DTX and
`reduced_dependency`, and packets without bytes. A concealment that fails early
does not reset the gain level, and is left out of `SilkGains`. A copy whose steps
begin in the middle of a packet raises a level that was meant as a step; the
reference does the same.

*Proofs.* `SilkProofs.tla`. The gains, for every scale: both ends stay on it
(`GainsOnTheScale`, the encoder without the clamp the decoder has), the gap never
grows, the first packet after a loss closes it, every packet received narrows it.
The rate loop, for any number of turns from three up, any room and any sizes of
the versions: `LoopInvariant` says what the two ends of the search are (the lower
one fits with room to spare and is the version that is kept, the upper one does
not fit and after three turns does not count without a lower one) and what the
range coder holds in every turn; `OneVersionStays` follows. With two turns it
would not hold: what was too large in the first could be recalled in the last.

The link, for any setups of one channel and any of two that send one frame and no
copies in a packet (`Sound`; every setup of the run is one, and outside of it the
two ends do misread each other, see below), any number of packets
and every order of losses, calls for copies, concealments, interludes, resets and
changes. Nothing tells the decoder where an item begins: it follows from all it
has read. The proof therefore says of a *packet* which item stands where
(`MonoPacket`: flags if there are copies and several frames, then the copies, then
the frames, so that the set of copies gives every place; `StereoPacket`: predictors,
a flag if the side is silent, one or two frames), and of every frame that its
layout is that of a context left by the item before it. Encoding is shown to leave
such a packet one item at a time (`EncodedMono`, `EncodedStereo`), decoding to take
it one item at a time (`DecodedMono`, `DecodedStereo`). Two contexts need not be
equal for that: with an unvoiced frame behind them their lags may differ
(`Alike`), as they do after a loss. `Reading` is where a decoder is after k calls
for a packet, for its frames and for its copies; with `LbrrCoding` and `EncCoding`
a conditional item is always preceded by the frame it is conditional on, in the
same channel, so that a decoder that begins with a packet needs nothing of the past
to read it. `CopiesKept` says of the encoder that what it will send as copies is of
its last packet and of its present length and rate; the copies are cleared wherever
one of these changes. `LinkHolds` is the conjunction; `AlwaysInStep` and
`CopiesAreOfTheLost` follow.

That both ends' *memories* agree needs another invariant, `MemoryHolds`, and one
more thing of the setups: that each keeps to one number of internal channels
(`Steady`; every setup of the run does). From one channel to two the decoder starts
both over and the encoder only the second (see "Where the code departs"), so that
without it the mid channel is decoded from nothing after it was predicted from
something; what does hold then is only what `LinkHolds` says. The invariant names the
places where the ends may be. `Meet`, between packets: whatever the rate of the next
packet, the encoder would predict its first frame, and that of the side channel, from
what the decoder would. `Awaited`, with a packet on its way: it was predicted from what
the decoder has. `Halfway`, in the middle of a mono packet: the decoder holds the frame
before the next one, which the encoder predicted that from (`MemoriesChain`). It has to
speak of all rates, because the next one is not known when a packet ends, and of the
mid-only flag of both ends, because that decides whether the side channel starts over.
After a stretch of CELT packets the two are made to agree by different means, the
encoder by a prefill (`StartedOver`) and the decoder by a reset (`Blank`), and only if
it heard one of them. `CopiesForGaps` says that copies are decoded only after a gap, so
that a frame which does not fit is never among those compared. `MemoryAlwaysHolds` is
the theorem, `MemoriesAlwaysAgree` follows. The channels of a stereo decoder stay
together (`Together`) through every call, also through those of a lost packet.

## CELT

`CeltFrame.tla` follows one frame from encoder to decoder, field by field. A field
is its kind, value and cost; whether it is there depends on the position and the
size of the packet, which each end computes for itself. Costs are from small sets
and the division of the bits is arbitrary there. The two builds differ in the total
the decoder's bands share: with `fixed_point` all bits, as in the encoder, and in the
default float build the bits less the boosts (`celt_decoder.rs:3050` against
`celt_encoder.rs:6460`). `Decode(fixed_point)` is a decoder of either build, and every
frame is read by both. `BandsInStep`, the part of `FrameInStep` that asks for the same
bits per band, is therefore stated for all frames with `fixed_point`, and in the
default build for frames without boosts only: with boosts the code does not have it.
`CeltAllocating.tla` is that
division (`rate.rs`) with the tables of the standard mode, computed by both ends
for frame after frame.

| Run | Properties | Shows |
|---|---|---|
| `celt_frame` | `FrameInStep`, `DivisionAgrees` | the fields of a frame from packets of one byte up, alone and behind SILK, constant and variable rate, at a decoder of the default float build and of the fixed-point one: the header agrees in both, the bits of the bands in the fixed-point build always and in the float build for frames without boosts (with boosts its decoder takes another total, celt_decoder.rs:3050); the division of budgets from less than nothing to more than the bands take, with the tables of the standard mode |

*Bounds.* Frames: both builds, but in the default build the bits of the bands are not
compared in frames with boosts; at most two boosts, only the first flag of time-frequency
resolution may say change, packets of one byte up. Division: the whole band and
narrow ones, mono and stereo, budgets on both sides of each threshold. Intensity
at the first band is excluded (below).

`CeltHistory.tla` follows the energies that are predicted from frame to frame, the
kinds of concealment and what each resets. `CeltPitchFilter.tla` follows the comb
filter, which the decoder applies 2.5 ms late. `BandFolding.tla` follows collapse
masks through splits, changes of resolution and folding, beside what a block
really holds. `RateContract.tla` is a token bucket: what frames are too large
together never exceeds the room of a channel's buffer; `CeltRate.tla` is the
reservoir of the encoder, for any targets, headers, resets and changes of rate,
and implements the contract.

| Run | Properties | Shows |
|---|---|---|
| `celt_memory` | `FiltersAgree`, `FoldsAreSound`, `KeepsTheContract`, `MemoryServes` | the reservoir over changes of rate and resets; the energies over losses and changing bands; pitch filters over losses of both kinds; the folding of six bands |

*Bounds.* Energies are numbers of a small range; three losses of 20 ms in a row
have the two kinds of concealment and the changes between them, and the count of
100 ms is reached by none (the proof covers it). Folding: six bands with the kinds
of widths the mode has, one channel, two levels of splits, the fixed-point build;
where a band is folded from is widened to whole bands. The reservoir: rates that
are multiples of a byte and not, targets below nothing and above every buffer.

*What stays as it is.* The first mono frame after stereo is predicted from the
left channel by the encoder and from the louder one by the decoder
(`MayDiffer`), in the reference too. `rate.rs` compares the bits for the channels
with a shifted budget where the reference does not shift; both ends of this code
agree. Noise-based concealment plays its first 2.5 ms without the pitch put back;
the unit that overlaps it is outside `MirrorsTheEncoder`.

*Proofs.* `CeltMemoryProofs.tla`. The rate, for all rates, buffers and targets:
`ReservoirCounts` is the inductive invariant (the reservoir stays between nothing
and the highest rate, and counts every excess), `RateIsKept` the step simulation
of the contract, `PromiseBounds` what the contract means for any run of frames,
`NoFrameIsStarved` that a frame keeps two bytes. They assume rates of at least 192
eighths of a bit per frame, which the front-end guarantees (it does not call CELT
with fewer than three bytes).

The energies, for any bands, any number of frames and losses: `HistoryHolds` is
the inductive invariant. What the ends remember is equal while they are not
`apart`; with a frame on its way the encoder already has what the frame will
leave (`OnItsWay`, by the function `Left` that both ends' code computes), and a
frame that forgets needs no more than itself. `MemoryAlwaysServes` is the whole of
`MemoryServes`, with the bounds on what an energy may become by the number of
frames and losses, and the step property of repeated pitch.

The pitch filter, for any history, shortest pitch, set of pitches, of windows and
of frame sizes: `FilterHolds` says how much of the two ends' filters agrees by the
number of frames played since a loss (none, the last one, both), whatever sizes
the frames have; `FiltersAlwaysAgree` follows, with the round trip of every period
through the wire's octave and offset.

## Multistream

`StreamRates.tla` has the layouts of the mapping families, their validity and the
sharing of the bit rate with 32-bit wrapping, and `Multistream.tla` the two loops
over the streams on top of `PacketFraming`: an encoder per stream that writes any
packet or fails, the sub-packets made self-delimited, a channel that loses, cuts
and replaces packets, validation before the first decoder moves, and the routing
of channels.

The streams' decoders are counted, not modelled. Validation looks at the framing of a
packet only, so each of them may still fail on what it is given, and its error leaves
the call at once (the `?` of `opus_multistream.rs:851` and `:866`), after the streams
before it have played. `DecodeStream` has that exit: on a packet whose frames are not
what the stream's encoder wrote (damaged, foreign), with any number of its frames
played (`PlayedAtFailure`), and on a loss of a duration that some history makes hard to
conceal (`HardToConceal`, such as 7.5 ms), with any number of chunks of 10 ms played.
That a stream's decoder takes what its own encoder wrote (`Intact`) is an assumption;
the other modules are about that. `taken` is a history variable: the packet of the
last call and what the streams had played before it, so that `Moved` is how far the
call has moved each. `StreamsInStep` says how far a call can leave the streams apart:
not at all, unless a stream's decoder failed; then the streams before it are one packet
ahead, it may have played less than that, and those behind it have not moved.

| Run | Properties | Shows |
|---|---|---|
| `multistream` | `StreamsArrive`, `StreamsInStep`, `ChannelsInPlace`, `RateIsShared`, `CarriesTheStreams` | three streams through a multistream packet with small buffers, encoders and decoders that fail at any stream, lost, cut, damaged and foreign packets, remapped and muted channels; every mapping family's layouts and their rates; padding and stripping in place |
| `multistream_framed` | `StreamsArrive` | **violated**: stream packets of several frames or with padding are misframed in a multistream packet |

*Bounds.* Three streams, one coupled; `MaxByte = 7` as in the repacketizer; two
calls of each end; room for 5, 7.5 and 10 ms in the decoder's buffer. Stream packets of one frame without padding, since others are
misframed (the violation). Layouts up to nine channels and some of up to 228, at
18 bit rates. Left out: CTLs that pass through, surround masks, sample
conversion.

*Proofs.* `PacketProofs.tla` and `MultistreamProofs.tla` prove the three properties of
`Multistream` for all layouts, packets, buffers and numbers of streams, from what
`Multistream.tla` assumes of its constants: a decoder is made for the streams of its
encoder, packets are sequences of numbers, and an encoder's packet can be read and
says how long it lasts.

- `Parse`, `SizesRead`, `FrameEnd` and `Behind` are recursive functions. A number
  least in a set (`LeastNumber`, from the library's `WFMin`) gives an induction whose
  facts are sets, which the provers can use; with it each function gets its
  equations (`Recursion`, `BehindStep`), and whatever bytes are read, what is read
  lies within them (`ParseLemma`).
- `StreamShape` is the shape of the state: which calls are under way, on which stream,
  and that the two ends are never at work on one packet (`ShapeHolds`).
- `StreamsAlwaysInStep`: while a packet is decoded, the streams done have moved by the
  same time since the call began and the others not at all (`PartPlayed`, against
  `taken.before`), and the bytes left are what lies behind them in a packet whose
  streams all last equally long (`PacketRead`). Validation establishes the second, so
  no stream is longer than the room the one before has left and the exit for a packet
  too long (`"late"`) is never taken. What remains is a stream's decoder that fails: it
  has played less than the streams before it, which is `StoppedAt` for that stream.
- `NoPacketIsAbandoned`: a packet as the streams' encoders wrote it is heard in whole,
  by all streams, or refused for lack of room before the first one moves
  (`WholePacketsAreHeard`). This rests on what is delivered so far (below): the packet
  on its way gives each stream what its encoder wrote, which is what `Intact` asks for,
  so no stream's decoder has a reason to fail (`HeardInv`). It has the hypothesis of one
  frame per stream packet. The property is stated in `MultistreamProofs` and is not one
  of the run's: of a packet that was damaged, cut or foreign it says nothing, and
  `StreamsInStep` is what holds then.
- `ChannelsAlwaysInPlace`: the channels of the streams done are in place
  (`ChannelsSoFar`). Each slot belongs to one stream (`SlotsLemma`) and copying a
  stream leaves the channels of the others alone.
- `StreamsAlwaysArrive`: what is written so far is read stream by stream as it was
  sent, *whatever follows* (`DeliveredSoFar`), because each part but the last says
  how long it is. The theorem has the hypothesis that the streams' packets have one
  frame: for others the code does not have the property, as `multistream_framed`
  shows; the `multistream` run has the same restriction.

## Signal analysis, redundancy and neural concealment

`SignalAnalysis.tla` is the ring of analysed blocks with its writer, its reader,
the look-ahead and the rewinding when a packet is coded in several frames. Slots
know how old they are; `ToldAboutItself` compares that with the audio of the frame.
`DredEncoder.tla` buffers the input, makes a latent per 20 ms, remembers activity
and decides what a packet has and how it is dated. Latents are known by when their
sound ended. `NeuralConcealment.tla` is the other end: the features of the packet
behind a gap, how many are asked for, the queue, and the blocks of 10 ms that the
network makes ahead of what is played.

| Run | Properties | Shows |
|---|---|---|
| `redundancy` | `JudgedByItsOwn`, `RedundancyIsTrue`, `GapIsFilled` | the analysis of the signal over two turns of its ring, the latents of deep redundancy over silence, and gaps filled from the features of the packet behind them |

*Bounds.* A ring of 26 slots in place of 100, over two turns. Packets last at
most 120 ms, so `analysis_offset` is 0; those of 2.5, 20 and 60 ms stand for all that
are coded whole, and packets of 40, 80 and 120 ms are coded in frames. A frame that fails half-way sets the
reader back (`lag`). The fixed-point build has no analysis. Six latents in place
of 52, enough to leave some behind the last that is tried, and the activity that
goes with them, which changes at most twice; frames of 10 and 40 ms, of which the
second in a packet carries up to two latents, of an encoder with its delay buffer;
gaps of up to 40 ms with frames of 10
and 20 ms. Units are 2.5 ms.

*What is excluded, and why.* The first packet after silence leaves out latents that
its offset does not count, and frames that were missed or encoded twice misdate
what is older; the reference does both, and `TimesAreTrue` leaves those latents
out. `dred_voice_active` looks at 40 ms for a latent and every second latent is
sent, so the oldest one tried begins up to 20 ms before what is looked at:
activity in that part alone is not sent, and `ActivityIsSent` goes as far as the
code looks. Asking for all samples may give 12 ms fewer. The queue of features is not
cleared after a gap and `plc_fill` survives a gap that began otherwise: with
frames of 2.5 and 5 ms features can be stale (also in the reference), so those
sizes and such gaps are outside `InTime`. SILK's concealment stores the setting
and ignores it; hybrid frames conceal by noise; so redundancy acts in CELT only.

*Proofs.* `RedundancyProofs.tla`, for both modules of the encoder.

The analysis, for a ring of any size, packets of any duration of whole 2.5 ms,
coded whole or in frames, and any bound on what failed: the inductive invariant is
`AnalysisInv`. A ring is *good* for a reader that is `b` units behind (`Good`) when
the ages of its slots are those of a writer that has written some number of them in
turn (`Ages`), the reader's slot is among these, and the distance of the two
positions, with what waits to be analysed and the part of a slot already read, is
`b`. The invariant says that the ring is good for what was never read (`lag`) and
the frames that are left, once the reader is put back to where it was before the
packet was looked at as a whole. It is needed because `JudgedByItsOwn` is about one
reading: nothing in it says where the next reading starts. `RingAssumption` is what
the proof asks of the constants: a packet and what was missed before it fit the
ring. `AlwaysItsOwn` is the whole of `JudgedByItsOwn`.

Deep redundancy, for any number of latents, any room, chunks and frame sizes of
whole 2.5 ms up to 60 ms, with and without the delay buffer: the inductive
invariant is `DredInv`. While a frame is fed, 40 times the offset, 320 times the
latents that are too new, and the input that waits add up to what they were at the
start and what was fed (`Adds`), whether a piece ends a latent or not; a latent's
sound ended as long ago as the input that waits and the latents before it
(`Dated`), unless input was missed since. What a packet says differs from the truth
by what rounding the start to 2.5 ms leaves, at most 20 of 16000 ths of a second:
that is `TimesAreTrue`. For `ActivityIsSent` the first latent is the least that is
heard (`FirstLemma`) and the last that is kept is not before any that is heard
(`KeptLemma`); an activity is heard in the latent it belongs to and, as only
every second one is sent, also in the one before or behind. `RedundancyIsAlwaysTrue` is the whole of `RedundancyIsTrue`.
The recursion that feeds the pieces of a frame is shown to have a solution by
well-founded recursion over their number.

## Where the code departs from what it says

Two departures have a run of their own. The others were met while the modules
were written; the models have what the code does, and the passing runs leave the
case out or state the property with room for it.

- A concealment of 7.5 ms after a CELT packet reaches CELT unrounded and is
  refused (`opus_decoder.rs:565`); one of 2.5 or 5 ms by SILK fails for lack of
  room after SILK's memory has moved on and is played as zeros
  (`opus_decoder.rs:688`), so a fade out of SILK starts from silence.
- The two detectors of pauses count separately: 41 frames of 20 ms may be skipped
  in a row, where `MAX_CONSECUTIVE_DTX` is 20 (`opus_encoder.rs:3876`).
  `SilenceMax` is the bound that holds while what has to be sent fits.
- `range.rs:305` reads the last bits of a large integer from the front of the
  payload, where the encoder puts them at its end.
- SILK, two channels: redundant copies are written without the stereo predictors
  the decoder reads (`silk/enc_api.rs:386`); in packets of several frames the side
  channel is coded independently and read as conditional (`:537`); from one
  channel to two the decoder restarts both, the encoder one
  (`silk/dec_api.rs:153`).
- From 28 channels at `OPUS_BITRATE_MAX` a product of the rate allocation does not
  fit 32 bits (`opus_multistream.rs:460`); a stream may use so much room that the
  next is refused (`:1737`).
- A multistream packet is validated whole before the first decoder moves, but only its
  framing: when a stream's decoder fails, the call returns with the streams before it
  one packet ahead of those behind it (`opus_multistream.rs:851`, `:866`), and the next
  packet does not bring them together again. `StreamsInStep` bounds how far apart.
- With intensity at the first band the bit for dual stereo is both given back and
  coded (`celt/rate.rs:704`).
- Without `fixed_point` the CELT decoder gives the bands the bits less the boosts,
  the encoder all (`celt/celt_decoder.rs:3050`), and masks are taken from below the
  end of the folded range (`celt/bands.rs:2734`). The second band of a hybrid frame
  may fold from a range that overlaps its own (`:2558`).
- After 1.04 s of silence `dred_voice_active` looks beyond the activity memory
  (`dred_encoder.rs:429`). The second gap finds `blend` as the first left it and
  takes features for history that belong to the gap (`dred.rs:562`).

## What is proved

A theorem holds for every value of the constants that the named assumptions allow;
the runs are the same properties on small instances, and for the modules without
theorems the only evidence.

| Theorem | Module | States | Establishes |
|---|---|---|---|
| `TypeCorrect` | `OpusDecoderProofs` |  | the state of the decoder and of a call in progress is well-typed, for every set of requests and every number of frames |
| `InductiveInvariant` | `OpusDecoderProofs` |  | memories, redundancy flag and mode of the last frame agree between any two frames, and a call stays within its bounds |
| `NeverStale` | `OpusDecoderProofs` | `NoStaleAudio` | no audio is predicted from a memory that missed audio already output |
| `NeverMissingBands` | `OpusDecoderProofs` | `NoMissingBands` | CELT-only audio never continues from a hybrid memory |
| `AlwaysExact` | `OpusDecoderProofs` |  | a call that succeeds has delivered and reports exactly what it promised |
| `SizeRoundTrip` | `PacketProofs` |  | what encode_size writes, parse_size reads, for every size up to the largest and wherever it stands in a packet |
| `PaddingRoundTrip` | `PacketProofs` |  | the parser skips exactly the padding, length bytes included, that the repacketizer announced, whatever its length |
| `AlwaysShaped` | `EncoderProofs` |  | lengths, positions and flags of a frame keep the relations the other theorems rest on, for frames of every size |
| `HeadersAreFound` | `EncoderProofs` | `HeaderIsFound` | the decoder looks for a header exactly where one was written, for every frame size and every wish of redundancy |
| `RedundancyAlwaysFound` | `EncoderProofs` | `RedundancyIsFound` | the decoder finds exactly the redundant frame that was written |
| `CeltAlwaysHasRoom` | `EncoderProofs` | `CeltHasRoom` | CELT is never skipped for lack of room behind a header |
| `ReservoirCounts` | `CeltMemoryProofs` |  | for all rates, buffers, targets and headers the reservoir stays between nothing and the highest rate and counts every excess of the frames over their rate |
| `RateIsKept` | `CeltMemoryProofs` | `KeepsTheContract` | the encoder's sizes implement the promise of a constrained rate |
| `PromiseBounds` | `CeltMemoryProofs` |  | under that promise no run of frames is larger than its rate by more than one frame at the highest rate |
| `NoFrameIsStarved` | `CeltMemoryProofs` |  | no constrained frame has less than two bytes, whatever is owed |
| `GainsOnTheScale` | `SilkProofs` |  | for every scale and every loss both ends stay on the scale, the encoder without the limit that the decoder has |
| `GapNeverGrows` | `SilkProofs` | `NeverFurtherApart` | received subframes never move the ends apart, although a step may count double at one end and once at the other |
| `LossIsForgotten` | `SilkProofs` | `TogetherAfterLoss` | the first packet after a concealed one puts both ends on one level |
| `EveryPacketHelps` | `SilkProofs` |  | every packet received brings the ends closer by the difference of what the two may fall |
| `SwitchesAreHidden` | `OpusDecoderProofs` | `SwitchesHidden` | a hard switch between CELT and SILK, hidden neither by a fade nor by a redundant frame, is only ever one whose frame has spent its redundancy on the next switch |
| `RedundancyIsContinued` | `OpusDecoderProofs` | `RedundancyCarriesOver` | the CELT memory that a redundant frame prepares is the one the CELT half of the next frame continues from, even if that frame is lost |
| `PromiseIsKept` | `OpusDecoderProofs` |  | every initial state and step of the decoder is one of DecodeContract, or a stutter, under the mapping of the run: the safety part of KeepsPromise |
| `LoopInvariant` | `SilkProofs` |  | the two ends of the search for a size that fits are what they are taken for, and what the range coder holds is known in every turn |
| `OneVersionStays` | `SilkProofs` | `OneVersionRemains` | of a frame quantised several times the range coder, the quantiser, the gains and the copy kept are of one attempt, which fits or has no pulses |
| `LinkHolds` | `SilkProofs` |  | for setups that keep copies and several frames in a packet to mono: the packet on its way is a sequence of items in places its copies determine, and a decoder in the middle of one is where its calls have brought it, with a context its next frame was laid out for |
| `AlwaysInStep` | `SilkProofs` | `InStep` | through losses, redundant copies, concealments, interludes in CELT, resets and changes of length, rate and channels, the decoder never expects another item, channel or layout than comes next, and is through with a packet when its last call is |
| `CopiesAreOfTheLost` | `SilkProofs` | `CopiesOfTheLostPacket` | a redundant copy that is heard is of the same frame of the packet just before, and of the length and rate the decoder is set to |
| `MemoryAlwaysHolds` | `SilkProofs` |  | for setups that keep to one number of internal channels: unless something was missed, between packets both ends would predict the next one from the same whatever its rate, and within a packet the decoder holds what the next frame was predicted from |
| `MemoriesAlwaysAgree` | `SilkProofs` | `MemoriesAgree` | unless something was missed, every frame is decoded from the memory it was encoded with, through changes of rate and length, mid-only stretches and interludes in CELT; and the two channels of a decoder never part |
| `HistoryHolds` | `CeltMemoryProofs` |  | with a frame on its way the encoder remembers what the frame will leave at the decoder, unless something was lost that the frame does not make good |
| `MemoryAlwaysServes` | `CeltMemoryProofs` | `MemoryServes` | both ends predict from the same energies, a repeated pitch is folded into what follows once, and no pitch is repeated from an empty or a noisy memory |
| `FilterHolds` | `CeltMemoryProofs` |  | how much of the two ends' pitch filters agrees is known from the number of frames played since a loss |
| `FiltersAlwaysAgree` | `CeltMemoryProofs` | `FiltersAgree` | every unit is played with the filter it was encoded with, after a loss within two units, and every period survives the wire |
| `EncoderHolds` | `EncoderProofs` |  | the decision taken before the first frame and the frames coded so far are together worth the duration asked for, in a mode that has such frames and a bandwidth that is allowed; the packet returned is as well |
| `EncoderTypes` | `EncoderProofs` |  | the encoder's struct, the call in progress and the packet keep their types, for every sequence of calls and settings |
| `PacketsLastAsAsked` | `EncoderProofs` | `LastsAsAsked` | whatever is refused, retried or skipped on the way, a packet lasts as long as its call asked for, and its TOC byte says so |
| `TocIsTrue` | `EncoderProofs` |  | the readers of packet.rs find in the TOC byte the mode, bandwidth, size and channels the frames were coded in (a part of SaysWhatItDoes) |
| `NeverWider` | `EncoderProofs` |  | no packet is wider than the caller's limit and the API rate allow, the rounding of CELT from medium band to wide band apart (a part of SaysWhatItDoes) |
| `ForceAlwaysSticks` | `EncoderProofs` |  | the mono a packet is forced to for its own fade never stays in the settings of the caller (a part of SaysWhatItDoes) |
| `SilenceIsBounded` | `EncoderProofs` | `SilenceBounded` | while every frame that has to be sent has room, the silence that two detectors and their changes of hand leave is at most SilenceMax |
| `PacketsFit` | `EncoderProofs` | `PacketFits` | the frames of a packet, however many and however long, are gathered within the caller's buffer together with the header they turn out to need |
| `ShapeHolds` | `MultistreamProofs` |  | a call under way is on a stream that exists and on bytes, and the two ends are never at work on one packet |
| `StreamsAlwaysInStep` | `MultistreamProofs` | `StreamsInStep` | whatever packets they are given, a call moves the decoders of all streams by the same time; where it returns with the error of one stream's decoder, the streams before that one have moved by the packet, it by less and those behind it not at all |
| `NoPacketIsAbandoned` | `MultistreamProofs` |  | if the streams write packets of one frame: a call with the packet as it was returned moves every stream by what the encoders coded, or, for want of room, none |
| `ChannelsAlwaysInPlace` | `MultistreamProofs` | `ChannelsInPlace` | each output channel has the sound of an input channel of its slot, or silence, for every pair of layouts |
| `StreamsAlwaysArrive` | `MultistreamProofs` | `StreamsArrive` | each stream gets its own frames, for every number of streams, if the streams write packets of one frame, which the code needs |
| `AlwaysItsOwn` | `RedundancyProofs` | `JudgedByItsOwn` | for every ring, every cut of the audio into packets and frames and every packet given up on the way, the reader and the writer count the same audio: a frame is told about itself, and no walk around the ring passes where the newest block meets the oldest |
| `RedundancyIsAlwaysTrue` | `RedundancyProofs` | `RedundancyIsTrue` | for every number of latents, frame size, room and delay a packet dates its latents to half of 2.5 ms, and whatever was heard among those it tried is in it |

*Out of the prover's reach*, and left to TLC:

- liveness and fairness (`KeepsPromise`'s last conjunct, `WalkEnds`), and
  `ENABLED`;
- `RECURSIVE` operators: a module that declares one has no SMT backend. The library's
  induction theorems take an operator as parameter, which the installed provers
  cannot instantiate. What recursive functions compute is in reach where the
  recursion is over numbers, by the induction of `PacketProofs`; the range coder,
  the pulses, the pulse vectors, the Laplace code and the collapse masks, whose
  recursions fold powers and divisions over sequences, are left to TLC.

*Not proved yet*, and checked by TLC only: `CeltKeepsAShare` and `PacketsSettle`
(parts of `SaysWhatItDoes`), `RoundTrip`, `AnyBytesAreRead`,
`CarriesTheFrames`, `FormsAreInterchangeable`, `CarriesTheStreams`, `RateIsShared`,
`FrameInStep`, `DivisionAgrees`, `FoldsAreSound`, `GapIsFilled`.

## Not modelled

- Numerical kernels: transforms, filters, pitch search, noise shaping, LPC and
  NLSF analysis, networks. What they compute is real-valued; what they decide
  enters the models as a choice among all outcomes.
- Tables and generated data, and the tools, which have no state of their own.
- The code's `debug_assert`s, except where a finding quotes one; arithmetic that a
  checked build would stop at is modelled as a release build does it.
- The CTLs that only pass values through, the projection matrices, the typed
  wrappers.
