------------------------------ MODULE StreamRates ------------------------------
(***************************************************************************)
(* Which channel of a multistream packet is in which stream, and how an    *)
(* encoder shares its bit rate among the streams (opus_multistream.rs).    *)
(*                                                                         *)
(* A layout has its streams, the first `coupled' of them stereo, and maps  *)
(* each channel to a slot: 2s and 2s + 1 are left and right of the coupled *)
(* stream s, s + coupled is the mono stream s, Muted is none.  Streams and *)
(* slots count from 0, channels from 1.                                    *)
(*                                                                         *)
(* Integers are 32 bits wide: a product that is too great wraps, as it     *)
(* does in a release build.                                                *)
(***************************************************************************)
EXTENDS Integers, Sequences, SequencesExt, FiniteSets

CONSTANTS
    Fs,          \* API sample rate in Hz
    Requests,    \* records [channels, family]: the encoders created
    Bitrates,    \* the rates asked for, in bits per second
    FrameSizes   \* samples per channel of a frame

ASSUME FsAssumption == Fs \in {8000, 12000, 16000, 24000, 48000}
ASSUME FrameSizesAssumption == FrameSizes \subseteq {Fs \div d : d \in {400, 200, 100, 50, 25}}

Muted == 255
MaxSlots == 255

Layout(channels, streams, coupled, mapping) ==
    [channels |-> channels, streams |-> streams, coupled |-> coupled,
     mapping |-> mapping]

Coupled(l, stream) == stream < l.coupled
SlotCount(l) == l.streams + l.coupled

LeftSlot(stream) == 2 * stream
RightSlot(stream) == 2 * stream + 1
MonoSlot(l, stream) == stream + l.coupled

\* The channels mapped to a slot: get_left_channel, get_right_channel and
\* get_mono_channel, called until they find none.
ChannelsAt(l, slot) == {c \in 1..l.channels : l.mapping[c] = slot}

\* The slots of a stream.
SlotsOf(l, stream) ==
    IF Coupled(l, stream) THEN <<LeftSlot(stream), RightSlot(stream)>>
    ELSE <<MonoSlot(l, stream)>>

-------------------------------------------------------------------------------

\* build_layout: what a decoder is created with.
ValidLayout(l) ==
    /\ l.channels \in 1..255 /\ Len(l.mapping) >= l.channels
    /\ l.streams > 0 /\ l.coupled <= l.streams /\ SlotCount(l) <= MaxSlots
    /\ \A c \in 1..l.channels : l.mapping[c] = Muted \/ l.mapping[c] < SlotCount(l)

\* build_encoder_layout and validate_encoder_layout: every slot has a channel.
ValidEncoderLayout(l) ==
    /\ ValidLayout(l) /\ SlotCount(l) <= l.channels
    /\ \A stream \in 0..(l.streams - 1) :
         \A n \in DOMAIN SlotsOf(l, stream) : ChannelsAt(l, SlotsOf(l, stream)[n]) # {}

-------------------------------------------------------------------------------
(***************************************************************************)
(* The layouts of the mapping families: 0 (mono and stereo), 1 (Vorbis     *)
(* surround), 2 (ambisonics) and 255 (independent channels).  Each returns *)
(* a set: of the one layout, or empty.                                     *)
(***************************************************************************)
VorbisLayouts == <<
    Layout(1, 1, 0, <<0>>),
    Layout(2, 1, 1, <<0, 1>>),
    Layout(3, 2, 1, <<0, 2, 1>>),
    Layout(4, 2, 2, <<0, 1, 2, 3>>),
    Layout(5, 3, 2, <<0, 4, 1, 2, 3>>),
    Layout(6, 4, 2, <<0, 4, 1, 2, 3, 5>>),
    Layout(7, 4, 3, <<0, 4, 1, 2, 3, 5, 6>>),
    Layout(8, 5, 3, <<0, 6, 1, 2, 3, 4, 5, 7>>)>>

\* The largest number whose square is at most n.
Root(n) == CHOOSE r \in 0..16 : r * r <= n /\ (r + 1) * (r + 1) > n

\* validate_ambisonics: a square number of channels, and two more which are not
\* part of the sound field.
Nondiegetic(channels) == channels - Root(channels) * Root(channels)
ValidAmbisonics(channels) == channels \in 1..227 /\ Nondiegetic(channels) \in {0, 2}

\* The coupled stream comes first, its two channels last.
AmbisonicsLayout(channels) ==
    LET acn     == channels - Nondiegetic(channels)
        coupled == IF Nondiegetic(channels) = 0 THEN 0 ELSE 1
    IN  Layout(channels, acn + coupled, coupled,
               [c \in 1..channels |->
                  IF c <= acn THEN c - 1 + 2 * coupled ELSE c - acn - 1])

SurroundLayout(channels, family) ==
    CASE channels \notin 1..255 -> {}
      [] channels \in 1..255 /\ family = 0 ->
           IF channels <= 2 THEN {VorbisLayouts[channels]} ELSE {}
      [] channels \in 1..255 /\ family = 1 ->
           IF channels <= 8 THEN {VorbisLayouts[channels]} ELSE {}
      [] channels \in 1..255 /\ family = 2 ->
           IF ValidAmbisonics(channels) THEN {AmbisonicsLayout(channels)} ELSE {}
      [] channels \in 1..255 /\ family = 255 ->
           {Layout(channels, channels, 0, [c \in 1..channels |-> c - 1])}
      [] OTHER -> {}

None == -1

\* surround_mapping_type: the low-frequency stream, if there is one.
LfeStream(l, family) ==
    IF family = 1 /\ l.channels >= 6 THEN l.streams - 1 ELSE None

-------------------------------------------------------------------------------
OpusAuto == -1000
MaxRate == -1

VARIABLES
    layout,     \* of the encoder, or NoLayout before it is created
    family,
    bitrate,    \* bitrate_bps
    asked,      \* what the last allocation had to share
    rates       \* what each stream was given, or <<>>

ratesVars == <<layout, family, bitrate, asked, rates>>

NoLayout == Layout(0, 0, 0, <<>>)

-------------------------------------------------------------------------------
Least(a, b) == IF a <= b THEN a ELSE b
Most(a, b)  == IF a >= b THEN a ELSE b
Quot(a, b)  == IF a >= 0 THEN a \div b ELSE -((-a) \div b)

\* n * 2^k in 32 bits.
Shifted(n, k) ==
    LET span == 2 ^ (31 - k)
        low  == n % (2 * span)
    IN  (2 ^ k) * (IF low >= span THEN low - 2 * span ELSE low)

\* OPUS_SET_BITRATE.
SetBitrateTo(l, value) ==
    IF value \in {OpusAuto, MaxRate} THEN value
    ELSE Most(500 * l.channels, Least(value, 300000 * l.channels))

FrameRate(frameSize) == Fs \div frameSize

Lfe(l, f) == IF LfeStream(l, f) = None THEN 0 ELSE 1
Normal(l, f) == l.streams + l.coupled - Lfe(l, f)

\* The rate there is to share.
SurroundRate(l, f, rate, frameSize) ==
    LET offset == 40 * Most(FrameRate(frameSize), 50)
    IN  CASE rate = OpusAuto    -> Normal(l, f) * (offset + Fs + 10000) + 8000 * Lfe(l, f)
          [] rate = MaxRate -> Normal(l, f) * 300000 + Lfe(l, f) * 128000
          [] OTHER          -> rate

AmbisonicsRate(l, rate, frameSize) ==
    CASE rate = OpusAuto    -> SlotCount(l) * (Fs + Quot(60 * Fs, frameSize)) + 15000 * l.streams
      [] rate = MaxRate -> SlotCount(l) * 320000
      [] OTHER          -> rate

(***************************************************************************)
(* surround_rate_allocation.  Each channel, stream and low-frequency       *)
(* stream has an offset of its own; the rest goes to the streams by weight *)
(* in units of 1/256: 512 a coupled one, 256 a mono one, 32 the low-       *)
(* frequency one.                                                          *)
(***************************************************************************)
ChannelOffset(frameSize) == 40 * Most(FrameRate(frameSize), 50)

LfeOffset(rate, frameSize) ==
    Least(Quot(rate, 20), 3000) + 15 * Most(FrameRate(frameSize), 50)

StreamOffset(l, f, rate, frameSize) ==
    LET left == rate - ChannelOffset(frameSize) * Normal(l, f)
                     - LfeOffset(rate, frameSize) * Lfe(l, f)
    IN  Most(0, Least(20000, Quot(Quot(left, Normal(l, f)), 2)))

Weight(l, f) == Shifted(l.streams - l.coupled - Lfe(l, f), 8) + 512 * l.coupled + 32 * Lfe(l, f)

\* Mutant: the streams' offsets are not taken off what is shared by weight.
ChannelRateTwice(l, f, rate, frameSize) ==
    Quot(Shifted(rate - LfeOffset(rate, frameSize) * Lfe(l, f)
                      - ChannelOffset(frameSize) * Normal(l, f), 8), Weight(l, f))

ChannelRate(l, f, rate, frameSize) ==
    LET left == rate - LfeOffset(rate, frameSize) * Lfe(l, f)
                     - StreamOffset(l, f, rate, frameSize) * (l.streams - Lfe(l, f))
                     - ChannelOffset(frameSize) * Normal(l, f)
    IN  Quot(Shifted(left, 8), Weight(l, f))

SurroundShare(l, f, rate, frameSize, stream) ==
    LET shared == StreamOffset(l, f, rate, frameSize)
        each   == ChannelRate(l, f, rate, frameSize)
    IN  CASE Coupled(l, stream) ->
               2 * ChannelOffset(frameSize) + Most(0, shared + (Shifted(each, 9) \div 256))
          [] stream = LfeStream(l, f) ->
               Most(0, LfeOffset(rate, frameSize) + (Shifted(each, 5) \div 256))
          [] OTHER -> ChannelOffset(frameSize) + Most(0, shared + each)

Asked(l, f, rate, frameSize) ==
    IF f = 2 THEN AmbisonicsRate(l, rate, frameSize) ELSE SurroundRate(l, f, rate, frameSize)

\* rate_allocation: no stream has less than 500 bits per second.
Allocation(l, f, rate, frameSize) ==
    LET total == Asked(l, f, rate, frameSize)
    IN  [stream \in 0..(l.streams - 1) |->
           Most(500, IF f = 2 THEN Quot(total, l.streams)
                     ELSE SurroundShare(l, f, total, frameSize, stream))]

-------------------------------------------------------------------------------
RatesInit ==
    /\ layout = NoLayout /\ family = 0
    /\ bitrate = OpusAuto /\ asked = 0 /\ rates = <<>>

\* opus_multistream_surround_encoder_create: a layout that is not valid is refused.
CreateSurround(r) ==
    /\ layout = NoLayout
    /\ \E l \in {k \in SurroundLayout(r.channels, r.family) : ValidEncoderLayout(k)} :
         layout' = l
    /\ family' = r.family
    /\ UNCHANGED <<bitrate, asked, rates>>

SetBitrate(value) ==
    /\ layout # NoLayout /\ rates = <<>>
    /\ bitrate' = SetBitrateTo(layout, value)
    /\ UNCHANGED <<layout, family, asked, rates>>

\* The allocation with which a frame's encoding begins.
Allocate(frameSize) ==
    /\ layout # NoLayout /\ rates = <<>>
    /\ asked' = Asked(layout, family, bitrate, frameSize)
    /\ rates' = Allocation(layout, family, bitrate, frameSize)
    /\ UNCHANGED <<layout, family, bitrate>>

\* The frame is encoded.
Encoded ==
    /\ rates # <<>>
    /\ rates' = <<>> /\ asked' = 0
    /\ UNCHANGED <<layout, family, bitrate>>

RatesNext ==
    \/ \E r \in Requests : CreateSurround(r)
    \/ \E value \in Bitrates : SetBitrate(value)
    \/ \E frameSize \in FrameSizes : Allocate(frameSize)
    \/ Encoded

RatesSpec == RatesInit /\ [][RatesNext]_ratesVars

-------------------------------------------------------------------------------
(***************************************************************************)
(* Correctness.                                                            *)
(***************************************************************************)
RatesTypeOK ==
    /\ layout.channels \in 0..255 /\ layout.streams \in 0..255
    /\ bitrate \in {OpusAuto, MaxRate} \/ bitrate \in (500 * layout.channels)..(300000 * layout.channels)
    /\ asked \in Nat
    /\ rates # <<>> => \A stream \in 0..(layout.streams - 1) : rates[stream] >= 500

\* Every layout the families have can be created, gives each slot exactly one
\* channel, so that no input channel is left out or coded twice, and has its
\* low-frequency channel in a mono stream.
LayoutsComplete ==
    layout = NoLayout =>
      \A r \in Requests : \A l \in SurroundLayout(r.channels, r.family) :
        /\ ValidEncoderLayout(l)
        /\ \A slot \in 0..(SlotCount(l) - 1) : Cardinality(ChannelsAt(l, slot)) = 1
        /\ LfeStream(l, r.family) # None => ~Coupled(l, LfeStream(l, r.family))

\* What the streams are given together: each rate as often as streams have it.
Total ==
    MapThenSumSet(LAMBDA rate : rate * Cardinality({stream \in DOMAIN rates : rates[stream] = rate}),
                  {rates[stream] : stream \in DOMAIN rates})

\* The streams together are given the rate there is to share: rounding loses no
\* more than a few bits per stream, and they are given more only if it is so low
\* that the least each of them needs is more.
Floor == 17000 * layout.channels

SharesAddUp ==
    rates # <<>> =>
      /\ Total >= asked - 2 * SlotCount(layout) - 2
      /\ asked >= Floor => Total <= asked

\* Stereo streams come before mono ones, and mono ones before the low-frequency
\* one; streams of one kind are treated alike.
Rank(stream) ==
    CASE stream = LfeStream(layout, family) -> 0
      [] Coupled(layout, stream) -> 2
      [] OTHER -> 1

FairlyShared ==
    rates # <<>> =>
      \A a, b \in DOMAIN rates :
        /\ Rank(a) = Rank(b) => rates[a] = rates[b]
        /\ Rank(a) < Rank(b) => rates[a] <= rates[b]
===============================================================================
