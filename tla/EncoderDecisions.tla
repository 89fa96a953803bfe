-------------------------- MODULE EncoderDecisions --------------------------
(***************************************************************************)
(* The arithmetic by which opus_encoder.rs decides how to code a frame:    *)
(* its duration, the rate it is worth, one channel or two, SILK or CELT,   *)
(* the audio bandwidth, forward error correction, the size of a redundant  *)
(* frame and the TOC byte.  Integers are those of the code; every value    *)
(* stays within 32 bits for the rates the encoder accepts.                 *)
(*                                                                         *)
(* Durations are in units of 2.5 ms.  A bandwidth is 1 (narrow) to 5       *)
(* (full), OpusAuto stands for OPUS_AUTO (and for "nothing detected").     *)
(***************************************************************************)
EXTENDS Integers, Sequences

CONSTANTS
    Fs,         \* API sample rate in Hz
    Channels    \* API channels

ASSUME FsAssumption == Fs \in {8000, 12000, 16000, 24000, 48000}
ASSUME ChannelsAssumption == Channels \in {1, 2}

OpusAuto == 0
Narrow == 1
Medium == 2
Wide == 3
SuperWide == 4
Full == 5
Bandwidths == Narrow..Full

Least(a, b) == IF a <= b THEN a ELSE b
Most(a, b)  == IF a >= b THEN a ELSE b

Clamped(x, lo, hi) == Most(lo, Least(x, hi))

\* Integer division of the code, which rounds towards zero.
Quot(a, b) == IF a >= 0 THEN a \div b ELSE -((-a) \div b)

FrameRate(units) == 400 \div units

(***************************************************************************)
(* Frame duration: `expert' is the duration set by                         *)
(* OPUS_SET_EXPERT_FRAME_DURATION, or OpusAuto for the length of the input; 0  *)
(* is a length the encoder refuses.                                        *)
(***************************************************************************)
FrameDurations == {1, 2, 4, 8, 16, 24, 32, 40, 48}

FrameSizeSelect(asked, expert) ==
    LET size == IF expert = OpusAuto THEN asked ELSE expert
    IN  IF size <= asked /\ size \in FrameDurations THEN size ELSE 0

(***************************************************************************)
(* The rate a frame is worth at 50 frames per second, complexity 10 and no *)
(* loss; mode is "none" before it is chosen.                               *)
(***************************************************************************)
EquivRate(bitrate, channels, frameRate, vbr, mode, complexity, loss) ==
    LET framed == IF frameRate > 50
                  THEN bitrate - (40 * channels + 20) * (frameRate - 50)
                  ELSE bitrate
        paced  == IF vbr THEN framed ELSE framed - Quot(framed, 12)
        eq     == Quot(paced * (90 + complexity), 100)
        silk   == IF complexity < 2 THEN Quot(eq * 4, 5) ELSE eq
    IN  CASE mode \in {"silk", "hybrid"} ->
               silk - Quot(silk * loss, 6 * loss + 10)
          [] mode = "celt" -> IF complexity < 5 THEN Quot(eq * 9, 10) ELSE eq
          [] OTHER -> eq - Quot(eq * loss, 12 * loss + 20)

\* How likely the signal is voice, 0..127, from the signal type set, the ratio
\* the analysis found (-1: none) and the application.
VoiceEstimate(signalType, ratio, application) ==
    CASE signalType = "voice" -> 127
      [] signalType = "music" -> 0
      [] signalType = "auto" /\ ratio >= 0 ->
           IF application = "audio" THEN Least((ratio * 327) \div 256, 115)
           ELSE (ratio * 327) \div 256
      [] OTHER -> IF application = "voip" THEN 115 ELSE 48

\* A threshold between the one for music and the one for voice.
Between(music, voice, voiceEst) ==
    music + ((voiceEst * voiceEst * (voice - music)) \div 16384)

StreamChannels(force, previous, rate, voiceEst) ==
    CASE Channels = 1 -> 1
      [] Channels = 2 /\ force # OpusAuto -> force
      [] OTHER -> IF rate > Between(17000, 19000, voiceEst)
                            + (IF previous = 2 THEN -1000 ELSE 1000)
                  THEN 2 ELSE 1

(***************************************************************************)
(* SILK or CELT.  width is the stereo width in Q15.  The rate is compared  *)
(* with a threshold that favours the mode of the frame before; packet loss *)
(* with FEC and SILK's own DTX ask for SILK, a buffer too small for SILK   *)
(* for CELT.                                                               *)
(***************************************************************************)
ModeThreshold(width, voiceEst, application, prevMode) ==
    Between(10000, ((32768 - width) * 64000 + width * 44000) \div 32768, voiceEst)
    + (IF application = "voip" THEN 8000 ELSE 0)
    + (CASE prevMode = "celt" -> -4000
         [] prevMode = "none" -> 0
         [] OTHER -> 4000)

\* The bytes below which SILK is not attempted.
SilkNeedsBytes(units) ==
    ((IF FrameRate(units) > 50 THEN 9000 ELSE 6000) * units) \div 3200

WantsSilk(fec, loss, voiceEst, silkDtx) ==
    \/ fec /\ loss > (128 - voiceEst) \div 16
    \/ silkDtx /\ voiceEst > 100

SelectedMode(rate, threshold, wantsSilk, maxBytes, units) ==
    CASE maxBytes < SilkNeedsBytes(units)         -> "celt"
      [] maxBytes >= SilkNeedsBytes(units) /\ wantsSilk -> "silk"
      [] OTHER -> IF rate >= threshold THEN "celt" ELSE "silk"

(***************************************************************************)
(* Audio bandwidth.  Threshold and hysteresis to go from bandwidth b - 1   *)
(* to b; stereo and mono share their values.                               *)
(***************************************************************************)
MusicThresholds == <<0, 9000, 9000, 11000, 12000>>
VoiceThresholds == <<0, 9000, 9000, 13500, 14000>>
Hysteresis      == <<0, 700, 700, 1000, 2000>>

BandwidthThreshold(b, voiceEst, first, previous) ==
    Between(MusicThresholds[b], VoiceThresholds[b], voiceEst)
    + (CASE first -> 0
         [] ~first /\ previous >= b -> -Hysteresis[b]
         [] OTHER -> Hysteresis[b])

\* The widest bandwidth the rate pays for; medium band is left to FEC and to
\* the user.  The narrowest asks nothing: the table has no entry below medium.
AutoBandwidth(rate, voiceEst, first, previous) ==
    LET paid == {b \in Medium..Full :
                    rate >= BandwidthThreshold(b, voiceEst, first, previous)}
        best == IF paid = {} THEN Narrow ELSE CHOOSE b \in paid : \A c \in paid : b >= c
    IN  IF best = Medium THEN Wide ELSE best

\* The bandwidth limits of the API rate.
FsLimit == CASE Fs = 8000 -> Narrow [] Fs = 12000 -> Medium
             [] Fs = 16000 -> Wide  [] Fs = 24000 -> SuperWide [] Fs = 48000 -> Full

\* The least bandwidth the analysis may cut the signal to at this rate.
LeastDetected(rate, channels, mode) ==
    CASE rate <= 18000 * channels /\ mode = "celt" -> Narrow
      [] rate > 18000 * channels /\ rate <= 24000 * channels /\ mode = "celt" -> Medium
      [] rate <= 30000 * channels /\ (mode # "celt" \/ rate > 24000 * channels) -> Wide
      [] rate > 30000 * channels /\ rate <= 44000 * channels -> SuperWide
      [] OTHER -> Full

\* The limits on a bandwidth: the user's maximum and choice, what SILK can do
\* in the bytes, the API rate and the bandwidth detected in the signal.
Limited(b, maximum, user, mode, maxRate, detected, rate, channels) ==
    LET chosen == IF user # OpusAuto THEN user ELSE Least(b, maximum)
        fit    == IF mode # "celt" /\ maxRate < 15000 THEN Least(chosen, Wide)
                  ELSE chosen
        api    == Least(fit, FsLimit)
    IN  IF detected # OpusAuto /\ user = OpusAuto
        THEN Least(api, Most(detected, LeastDetected(rate, channels, mode)))
        ELSE api

(***************************************************************************)
(* Forward error correction: whether SILK adds a low-rate copy of the      *)
(* frame before, and the bandwidth it leaves.  A loss above 5% narrows the *)
(* band until the copy is affordable.                                      *)
(***************************************************************************)
FecThreshold(b, last, loss) ==
    (((<<12000, 14000, 16000, 20000, 22000>>[b] + (IF last THEN -1000 ELSE 1000))
        * (125 - Least(loss, 25))) * 655) \div 65536

DecideFec(use, loss, last, mode, b, rate) ==
    LET tried  == IF loss <= 5 THEN {b} ELSE Narrow..b
        afford == {c \in tried : rate > FecThreshold(c, last, loss)}
    IN  IF ~use \/ loss = 0 \/ mode = "celt" \/ afford = {}
        THEN [fec |-> FALSE, bandwidth |-> b]
        ELSE [fec |-> TRUE,
              bandwidth |-> CHOOSE c \in afford : \A d \in afford : c >= d]

\* Mutant: wide band is taken for what SILK does not carry.
WithCeltFromWide(mode, b) ==
    CASE mode = "celt"              -> "celt"
      [] mode # "celt" /\ b >= Wide -> "hybrid"
      [] OTHER                      -> "silk"

\* SILK alone carries up to wide band; above, CELT is added.
WithCelt(mode, b) ==
    CASE mode = "celt"              -> "celt"
      [] mode # "celt" /\ b > Wide -> "hybrid"
      [] OTHER                      -> "silk"

(***************************************************************************)
(* The bytes of a redundant CELT frame of 5 ms, 0 when it is not worth     *)
(* having.                                                                 *)
(***************************************************************************)
RedundancyBytes(maxBytes, bitrate, frameRate, channels) ==
    LET base  == 40 * channels + 20
        wish  == Quot(Quot(3 * (bitrate + base * (200 - frameRate)), 2), 1600)
        cap   == Quot(Quot((maxBytes * 8 - 2 * base) * 240, 240 + 48000 \div frameRate)
                        + base, 8)
        bytes == Least(wish, cap)
    IN  IF bytes > 4 + 8 * channels THEN Least(bytes, 257) ELSE 0

\* What is written when room is left for `room' bytes behind the header bits.
WrittenRedundancy(bytes, room) == Least(Most(Least(bytes, room), 2), 257)

(***************************************************************************)
(* SILK's share of the rate of a hybrid frame, per table entry: 10 or      *)
(* 20 ms, without and with FEC.                                            *)
(***************************************************************************)
SilkRateTable == <<<<0, 0, 0, 0, 0>>,
                   <<12000, 10000, 10000, 11000, 11000>>,
                   <<16000, 13500, 13500, 15000, 15000>>,
                   <<20000, 16000, 16000, 18000, 18000>>,
                   <<24000, 18000, 18000, 21000, 21000>>,
                   <<32000, 22000, 22000, 28000, 28000>>,
                   <<64000, 38000, 38000, 50000, 50000>>>>

SilkRateForHybrid(total, b, is20ms, vbr, fec, channels) ==
    LET rate  == Quot(total, channels)
        entry == 2 + (IF is20ms THEN 1 ELSE 0) + (IF fec THEN 2 ELSE 0)
        below == {i \in 2..7 : SilkRateTable[i][1] > rate}
        i     == CHOOSE j \in below : \A k \in below : j <= k
        lo    == SilkRateTable[i - 1]
        hi    == SilkRateTable[i]
        share == IF below = {} THEN SilkRateTable[7][entry] + (rate - 64000) \div 2
                 ELSE Quot(lo[entry] * (hi[1] - rate) + hi[entry] * (rate - lo[1]),
                           hi[1] - lo[1])
    IN  (share + (IF vbr THEN 0 ELSE 100) + (IF b = SuperWide THEN 300 ELSE 0)) * channels
        - (IF channels = 2 /\ rate >= 12000 THEN 1000 ELSE 0)

\* SILK's share within its bounds, of the rate `bytes' of target make; and
\* whether CELT takes what it leaves: opus_custom_encoder_ctl refuses 500 bit/s.
SilkShare(target, units, b, vbr, fec, channels) ==
    Clamped(SilkRateForHybrid(target * 8 * FrameRate(units), b, units = 8, vbr, fec, channels),
            5000, 80000)

CeltTakes(rate) == rate > 500

(***************************************************************************)
(* The TOC byte.                                                           *)
(***************************************************************************)
\* Times the frame rate doubles before it reaches 400 per second.
Period(units) == IF units < 2 THEN 0 ELSE IF units < 4 THEN 1 ELSE
                 IF units < 8 THEN 2 ELSE IF units < 16 THEN 3 ELSE
                 IF units < 24 THEN 4 ELSE 5

GenToc(mode, units, b, channels) ==
    (CASE mode = "silk" -> (Clamped(b - Narrow, 0, 3) * 32) + (Clamped(Period(units) - 2, 0, 3) * 8)
       [] mode = "celt" -> 128 + (Most(b - Medium, 0) * 32) + (Clamped(Period(units), 0, 3) * 8)
       [] mode = "hybrid" -> 96 + (IF b = Full THEN 16 ELSE 0) + (Clamped(Period(units) - 2, 0, 3) * 8))
    + (IF channels = 2 THEN 4 ELSE 0)

(***************************************************************************)
(* Discontinuous transmission: whether the frame need not be sent, and the *)
(* inactive time so far, both in half milliseconds.                        *)
(***************************************************************************)
DtxAfter == 400
DtxUntil == 1200

\* Mutant: the counter starts again from nothing when a frame has to be sent,
\* but a frame is sent only once.
DecideDtxForever(active, counter, duration) ==
    [quiet |-> ~active /\ counter + duration > DtxAfter,
     counter |-> IF active THEN 0 ELSE Least(counter + duration, DtxUntil)]

DecideDtx(active, counter, duration) ==
    LET next == counter + duration
    IN  CASE active                                       -> [quiet |-> FALSE, counter |-> 0]
          [] ~active /\ next <= DtxAfter                  -> [quiet |-> FALSE, counter |-> next]
          [] ~active /\ next > DtxAfter /\ next <= DtxUntil -> [quiet |-> TRUE, counter |-> next]
          [] OTHER                                        -> [quiet |-> FALSE, counter |-> DtxAfter]

(***************************************************************************)
(* The frames a packet of `units' is coded as, 0 when it cannot be.        *)
(***************************************************************************)
\* Mutant: SILK takes the longest frame for any packet it cannot take whole.
CodedSizeLongest(mode, units) ==
    CASE units <= (IF mode = "silk" THEN 24 ELSE 8) -> units
      [] mode = "silk" /\ units > 24 -> 24
      [] OTHER -> 8

CodedSize(mode, units) ==
    CASE units <= (IF mode = "silk" THEN 24 ELSE 8) -> units
      [] mode = "silk" /\ units > 24 ->
           CASE units = 32 -> 16 [] units = 48 -> 24 [] OTHER -> 8
      [] OTHER -> 8
=============================================================================
