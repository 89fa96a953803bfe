-------------------------- MODULE MCOpusEncoder --------------------------
(***************************************************************************)
(* The encoder: OpusEncoder with four programs that use it, and            *)
(* HybridFraming for small frames and frames of the size at which the      *)
(* redundant frame reaches its limit of 257 bytes.  The two share nothing: *)
(* a behaviour is about one of them, and the other stays as it is.         *)
(***************************************************************************)
EXTENDS HybridFraming, OpusEncoder

SmallRooms == 1..12 \cup {20, 300}

\* What compute_redundancy_bytes gives in frames of 20 ms.
RateWishes == {RedundancyBytes(bytes + 1, bitrate, 50, channels) :
                  bytes \in SmallRooms, bitrate \in {12000, 24000, 500000}, channels \in {1, 2}}

Ratio(r) == [none |-> r, celt |-> Most(r - 10, 0), silk |-> Least(r + 10, 100)]

In(units, bytes) ==
    [units |-> units, bytes |-> bytes, silent |-> FALSE, valid |-> TRUE,
     idle |-> FALSE, ratio |-> Ratio(50), detected |-> Full, width |-> 0,
     voice |-> TRUE]

Set(field, values) == {[field |-> field, value |-> v] : v \in values}

\* Voice, music, a pause and silence, in packets that SILK, hybrid and CELT take
\* and in one too small for SILK.
Voice == [In(8, 1276) EXCEPT !.ratio = [m \in DOMAIN @ |-> 90]]
Music == [In(8, 1276) EXCEPT !.ratio = Ratio(10), !.width = 16384]
Rest == [In(8, 1276) EXCEPT !.valid = FALSE, !.voice = FALSE]
Silence == [In(8, 1276) EXCEPT !.silent = TRUE, !.valid = FALSE, !.voice = FALSE]
Tight == In(8, 12)
Short == In(2, 200)

\* Changes of mode, bandwidth and channels.
MixInputs == {Voice, Music, Short, Tight}
MixCtls == Set("bitrate", {14000, 26000, 52000}) \cup Set("user", {OpusAuto, Medium})
           \cup Set("fec", {TRUE}) \cup Set("loss", {20})

\* Pauses, with either kind of discontinuous transmission.
PauseInputs == {Voice, Rest, Silence, [Rest EXCEPT !.units = 16], [Silence EXCEPT !.units = 24]}
PauseCtls == Set("dtx", {TRUE}) \cup Set("bitrate", {20000}) \cup Set("user", {Wide})

\* Rates at which SILK may leave CELT nothing.
LowInputs == {[In(u, 1276) EXCEPT !.ratio = Ratio(90)] : u \in {4, 8}}
LowCtls == Set("bitrate", {4000, 12000, 13000}) \cup Set("user", {SuperWide, Full})
           \cup Set("force", {2}) \cup Set("fec", {TRUE}) \cup Set("loss", {3})

\* Packets of several frames in buffers of every size, and a length that is
\* refused.
LongInputs == {[In(u, b) EXCEPT !.width = 16384] : u \in {8, 16}, b \in {6, 21}}
                \cup {In(24, 540), In(32, 60), In(5, 60)}
LongCtls == Set("bitrate", {700, 40000}) \cup Set("force", {OpusAuto, 2}) \cup Set("vbr", {FALSE})

MCCallers == {"mixer", "talker", "miser", "packer"}
MCInputs == [mixer |-> MixInputs, talker |-> PauseInputs, miser |-> LowInputs,
             packer |-> LongInputs]
MCCtls == [mixer |-> MixCtls, talker |-> PauseCtls, miser |-> LowCtls, packer |-> LongCtls]

\* Nobody calls the encoder; or no frame is on its way.
NoCaller == caller = "nobody" /\ EncoderStart
NoFrame ==
    /\ stage = "silk" /\ room = 1 /\ wish = 0 /\ start = 1 /\ tell = 1
    /\ header = "absent" /\ red = 0 /\ sent = 0
    /\ read = [header |-> "absent", red |-> 0]

MCInit ==
    \/ NoCaller /\ FramingInit
    \/ Init /\ NoFrame

Encoding == caller # "nobody" /\ Next /\ UNCHANGED framingVars
Framing  == caller = "nobody" /\ FramingNext /\ UNCHANGED vars

MCNext == Encoding \/ Framing

MCSpec == MCInit /\ [][MCNext]_<<vars, framingVars>>

\* With constant input and settings no hysteresis of opus_encode_with_options sets
\* another off for ever.
PacketsSettle == caller = "mixer" => Settles

\* A packet is what the encoder was set to and what its TOC byte says, through every
\* change of mode, bandwidth and channels, and settings stay what the caller made them.
SaysWhatItDoes ==
    /\ [](/\ TypeOK
          /\ TocTellsTheTruth
          /\ NoWiderThanAllowed
          /\ CeltKeepsAShare
          /\ PacketsSettle)
    /\ ForceSticks
=============================================================================
