----------------------------- MODULE OpusEncoder -----------------------------
(***************************************************************************)
(* The top-level encoder of opus_encoder.rs: opus_encode_with_options and  *)
(* the encode_frame_native it calls for every frame of a packet, with the  *)
(* memory by which a decision depends on those before it.                  *)
(*                                                                         *)
(* The signal is what the decisions see of it: silence, the analysis, the  *)
(* stereo width and SILK's own voice activity.  The bits are left out, and *)
(* what SILK and CELT do with them is a choice: how long a frame comes     *)
(* out, whether there is room for redundancy, whether SILK finds a point   *)
(* to switch its bandwidth.  What a frame did to the memories of the two   *)
(* coders is recorded with it.                                             *)
(*                                                                         *)
(* Hybrid runs SILK at 16 kHz and nothing else, and SILK on its own is     *)
(* never granted a switch (opus_can_switch stays false), so silk_bw_switch *)
(* is never set and is left out, as is the DRED feature.                   *)
(***************************************************************************)
EXTENDS EncoderDecisions, FiniteSets

CONSTANTS
    Application,    \* "voip", "audio" or "lowdelay"
    Complexity,     \* 0..10
    Callers,        \* the programs that use the encoder
    Inputs,         \* the calls each of them makes: records of Calls, below
    Ctls            \* the settings each of them makes: records [field, value]

ASSUME ApplicationAssumption == Application \in {"voip", "audio", "lowdelay"}
ASSUME ComplexityAssumption == Complexity \in 0..10

\* The bytes of a buffer that count (MAX_PACKET_BYTES at most), and the voice ratios
\* the analysis gives.
Buffers == 2..7656
Ratios == [{"none", "celt", "silk"} -> 0..100]

\* A call: the duration of the input and the bytes of the buffer, whether the
\* input is digital silence, whether the analysis is valid and what it found
\* (the voice ratio it gives after no frame, after CELT and after SILK, the
\* bandwidth), the stereo width, and whether SILK's detector hears a voice.
Calls == [units : 1..48, bytes : Buffers, silent : BOOLEAN, valid : BOOLEAN,
          idle : BOOLEAN, ratio : Ratios, detected : {OpusAuto} \cup Bandwidths,
          width : 0..32768, voice : BOOLEAN]
ASSUME InputsAssumption == \A c \in Callers : Inputs[c] \subseteq Calls

Modes == {"silk", "hybrid", "celt"}
MaxRate == -1       \* OPUS_BITRATE_MAX

\* A setting, and what opus_encoder_ctl lets it be.
Settable == [bitrate |-> Nat \cup {MaxRate}, loss |-> 0..100, fec |-> BOOLEAN,
             dtx |-> BOOLEAN, force |-> 0..Channels,
             user |-> {OpusAuto} \cup Bandwidths, maximum |-> Bandwidths,
             forced |-> {"auto"} \cup Modes, vbr |-> BOOLEAN,
             signal |-> {"auto", "voice", "music"},
             expert |-> {OpusAuto} \cup FrameDurations]

ASSUME CtlsAssumption ==
    \A c \in Callers : \A s \in Ctls[c] :
        s.field \in DOMAIN Settable /\ s.value \in Settable[s.field]

VARIABLES
    caller,    \* one of Callers
    opt,       \* what the ctls have set
    enc,       \* the rest of struct OpusEncoder
    call,      \* the locals of the call in progress
    packet,    \* the last packet returned, and how its frames were coded
    quiet,     \* history: half milliseconds since a frame was last sent
    steady     \* history: since the last change of input or settings, what
               \* the last packet said and what others before it had said

vars == <<caller, opt, enc, call, packet, quiet, steady>>

-----------------------------------------------------------------------------
(***************************************************************************)
(* The decisions before the first frame is coded.                          *)
(***************************************************************************)
BitRate(units, bytes) ==
    CASE opt.bitrate = OpusAuto -> 60 * FrameRate(units) + Channels * Fs
      [] opt.bitrate = MaxRate -> (bytes * 8 * 400) \div units
      [] OTHER                -> opt.bitrate

\* The analysis runs by the complexity SILK last ran at, which is lost by a
\* reset and which CELT alone does not renew.
Valid(in) == in.valid /\ enc.silkComplexity >= 7 /\ Fs >= 16000

\* The voice ratio survives digital silence without a valid analysis.
VoiceRatio(in) ==
    CASE Valid(in) /\ opt.signal = "auto" ->
           in.ratio[CASE enc.prevMode = "none" -> "none"
                      [] enc.prevMode = "celt" -> "celt"
                      [] OTHER -> "silk"]
      [] ~(Valid(in) /\ opt.signal = "auto") /\ in.silent -> enc.ratio
      [] OTHER -> -1

ChosenMode(in, units, rate, voiceEst, silkDtx) ==
    LET asked == CASE Application = "lowdelay" -> "celt"
                   [] Application # "lowdelay" /\ opt.forced # "auto" -> opt.forced
                   [] OTHER -> SelectedMode(rate,
                        ModeThreshold(IF Channels = 2 /\ opt.force # 1 THEN in.width ELSE 0, voiceEst, Application, enc.prevMode),
                        WantsSilk(opt.fec, opt.loss, voiceEst, silkDtx), in.bytes, units)
    IN  IF units < 4 THEN "celt" ELSE asked

\* A change between CELT and the modes with SILK.
Crosses(mode) ==
    /\ opt.forced # "celt"
    /\ enc.prevMode # "none"
    /\ (mode = "celt") # (enc.prevMode = "celt")

\* A switch to CELT is put off by a packet, which prepares the decoder.
Defers(mode, units) == Crosses(mode) /\ mode = "celt" /\ units >= 4

\* Stereo SILK fades to mono before a packet of one channel.
FadesToMono(channels, mode) ==
    /\ channels = 1 /\ enc.prevChannels = 2
    /\ ~enc.toMono
    /\ mode # "celt" /\ enc.prevMode # "celt"

ReopensBandwidth(mode) == mode = "celt" \/ enc.first \/ enc.allowSwitch

Decision(in, units) ==
    LET bitrate  == BitRate(units, in.bytes)
        equiv(n, m) == EquivRate(bitrate, n, FrameRate(units), opt.vbr, m,
                                 Complexity, opt.loss)
        ratio    == VoiceRatio(in)
        voiceEst == VoiceEstimate(opt.signal, ratio, Application)
        silkDtx  == opt.dtx /\ ~(Valid(in) \/ in.silent)
        count    == StreamChannels(opt.force, enc.streamChannels,
                                   equiv(Channels, "none"), voiceEst)
        first    == ChosenMode(in, units, equiv(count, "none"), voiceEst, silkDtx)
        mode     == IF Defers(first, units) THEN enc.prevMode ELSE first
        toMono   == FadesToMono(count, mode)
        channels == IF toMono THEN 2 ELSE count
        rate     == equiv(channels, mode)
        auto     == AutoBandwidth(rate, voiceEst, enc.first, enc.autoBandwidth)
        opened   == IF ~enc.first /\ mode # "celt" /\ ~enc.inWb
                    THEN Least(auto, Wide) ELSE auto
        limited  == Limited(IF ReopensBandwidth(mode) THEN opened ELSE enc.bandwidth,
                            opt.maximum, opt.user, mode, FrameRate(units) * in.bytes * 8,
                            IF Valid(in) THEN in.detected ELSE OpusAuto, rate, channels)
        fec      == DecideFec(opt.fec, opt.loss, enc.fec, mode, limited, rate)
        b        == IF mode = "celt" /\ fec.bandwidth = Medium THEN Wide
                    ELSE fec.bandwidth
    IN  [mode |-> WithCelt(mode, b), bandwidth |-> b, channels |-> channels,
         toMono |-> toMono, fec |-> fec.fec, silkDtx |-> silkDtx, ratio |-> ratio,
         auto |-> IF ReopensBandwidth(mode) THEN auto ELSE enc.autoBandwidth,
         toCelt |-> Defers(first, units),
         redundancy |-> Crosses(first) /\ (first = "celt" => units >= 4),
         prefill |-> mode # "celt" /\ enc.prevMode = "celt", bitrate |-> bitrate]

-----------------------------------------------------------------------------
(***************************************************************************)
(* SILK, as far as it shapes the packets.                                  *)
(***************************************************************************)
SilkFrames(units) == IF units <= 8 THEN 1 ELSE units \div 8

\* silk_encode_do_vad: frames without speech in a row; from the eleventh on
\* they may be skipped, but for one in twenty.
SilkSpeech(counter, voice) ==
    CASE voice -> [counter |-> 0, skips |-> FALSE]
      [] ~voice /\ counter + 1 <= 30 ->
           [counter |-> counter + 1, skips |-> counter + 1 > 10]
      [] OTHER -> [counter |-> 10, skips |-> FALSE]

\* The frames of a packet in turn, three at most: it is skipped if all of them may be.
SilkPacket(counter, voice, units) ==
    LET first  == SilkSpeech(counter, voice)
        second == SilkSpeech(first.counter, voice)
        third  == SilkSpeech(second.counter, voice)
        ran    == <<first, second, third>>
        n      == SilkFrames(units)
    IN  [counter |-> ran[n].counter, skips |-> \A i \in 1..n : ran[i].skips]

\* The limits the caller sets, in kHz.
MaxSilkFs ==
    CASE (IF opt.user = OpusAuto THEN opt.maximum ELSE opt.user) = Narrow -> 8
      [] (IF opt.user = OpusAuto THEN opt.maximum ELSE opt.user) = Medium -> 12
      [] OTHER -> 16

DesiredSilkFs(b) == CASE b = Narrow -> 8 [] b = Medium -> 12 [] OTHER -> 16

\* control_audio_bandwidth without permission to switch: the rate in kHz SILK
\* runs at changes only when it starts or when the limits exclude it.
SilkFs(fs, desired, lo, hi) ==
    CASE fs = 0 -> Least(desired, Fs \div 1000)
      [] fs # 0 /\ fs * 1000 <= Fs /\ fs \in lo..hi -> fs
      [] OTHER -> Most(Least(Fs \div 1000, hi), lo)

SilkBandwidth(fs) == CASE fs = 8 -> Narrow [] fs = 12 -> Medium [] OTHER -> Wide

-----------------------------------------------------------------------------
(***************************************************************************)
(* The frames of a packet.  What a frame says to the decoder is one of the *)
(* payloads of OpusDecoder; celt and silk tell whether the coder's memory  *)
(* was reset for the frame and whether the frame moved it on, `again' that *)
(* the frame was coded twice.                                              *)
(***************************************************************************)
MaxFrameBytes == 1276

\* Mutant: the header of two frames is taken for that of one.
FramesBudgetShortHeader(frames, bytes) ==
    frames + bytes - (IF frames = 2 THEN 1 ELSE 2 + (frames - 1) * 2)

\* The bytes the frames of a packet may take together, their TOCs included.
FramesBudget(frames, bytes) ==
    frames + bytes - (IF frames = 2 THEN 3 ELSE 2 + (frames - 1) * 2)

\* What opus_repacketizer_out makes of frames of these lengths.
GatheredBytes(lengths) ==
    LET n       == Len(lengths)
        payload == [i \in 1..n |-> lengths[i] - 1]
        body[k \in 0..n] == IF k = 0 THEN 0 ELSE body[k - 1] + payload[k]
        same    == \A i \in 1..n : payload[i] = payload[1]
        \* Of one byte or two, for every frame but the last.
        sizes   == n - 1 + Cardinality({i \in 1..(n - 1) : payload[i] >= 252})
    IN  CASE n = 1             -> 1 + body[n]
          [] n = 2 /\ same     -> 1 + body[n]
          [] n = 2 /\ ~same    -> 1 + sizes + body[n]
          [] n > 2 /\ same     -> 2 + body[n]
          [] n > 2 /\ ~same    -> 2 + sizes + body[n]

\* The longest a frame may get.
Longest == IF call.frames = 1 THEN call.in.bytes
           ELSE (FramesBudget(call.frames, call.in.bytes) - call.total) \div call.left

\* The length the rate asks for, the longest when a frame is tried again.
Aimed == IF call.frames > 1 /\ opt.vbr /\ ~call.retry
         THEN Least(Longest, (call.d.bitrate * call.coded) \div 3200) ELSE Longest

FirstFrame == call.left = call.frames
LastFrame == call.left = 1
FrameToCelt == call.d.toCelt /\ LastFrame
FrameRedundancy == call.d.redundancy /\ (IF call.d.toCelt THEN LastFrame ELSE FirstFrame)
ModeNow == call.d.mode

Active == ~call.in.silent /\ ~(call.valid /\ call.in.idle)

\* SILK starts again from nothing: once for the packet, and for each of its
\* frames where the frame is prefilled.
SilkRestarts == call.d.prefill /\ (ModeNow = "hybrid" \/ FirstFrame)

SilkRan == SilkPacket(IF SilkRestarts THEN 0 ELSE enc.silkCounter,
                      Active /\ call.in.voice, call.coded)

SilkFsNow ==
    IF ModeNow = "hybrid" THEN 16
    ELSE SilkFs(enc.silkFs, DesiredSilkFs(call.d.bandwidth), 8, MaxSilkFs)

\* The struct after SILK has run, whatever becomes of the frame.
WithSilk(e, allow) ==
    IF ModeNow = "celt" THEN e
    ELSE [e EXCEPT !.silkFs = SilkFsNow, !.silkCounter = SilkRan.counter,
                   !.inWb = (SilkFsNow = 16), !.allowSwitch = allow,
                   !.silkComplexity = Complexity]

\* A point to switch is found in a pause, or after seconds without one.
SwitchPoints == IF Active /\ call.in.voice THEN {TRUE, FALSE} ELSE {TRUE}

\* finish_encode.
FinishEncode(e, b) ==
    [e EXCEPT !.prevMode = IF FrameToCelt THEN "celt" ELSE ModeNow,
              !.prevChannels = enc.streamChannels, !.bandwidth = b, !.first = FALSE]

FrameBandwidth == IF ModeNow = "silk" THEN SilkBandwidth(SilkFsNow)
                  ELSE call.d.bandwidth

\* The bytes of a redundant frame, if the frame carries one.
HybridRedundancy ==
    IF FrameRedundancy
    THEN RedundancyBytes(Least(Aimed, MaxFrameBytes), call.d.bitrate,
                         FrameRate(call.coded), enc.streamChannels)
    ELSE 0

\* What SILK leaves of a variable rate for CELT.
HybridTarget ==
    Most(Least(Least(Aimed, MaxFrameBytes) - HybridRedundancy,
               (call.d.bitrate * call.coded) \div 3200) - 1, 0)
CeltRate == call.d.bitrate - SilkShare(HybridTarget, call.coded, call.d.bandwidth, opt.vbr,
                                       call.d.fec, enc.streamChannels)
Starved == opt.vbr /\ ~CeltTakes(CeltRate)

\* Restarted by a change of mode, the upper bands are coded without prediction.
CeltRestarts == ModeNow = "hybrid" /\ enc.prevMode \notin {"none", "hybrid"}

Duration == 5 * call.coded      \* of a frame, in half milliseconds

\* DTX of the whole encoder, used when SILK's own is not.
Dtx == IF opt.dtx /\ ~enc.silkDtx THEN DecideDtx(Active, enc.counter, Duration)
       ELSE [quiet |-> FALSE, counter |-> 0]

-----------------------------------------------------------------------------
(***************************************************************************)
(* The calls.                                                              *)
(***************************************************************************)
Defaults == [bitrate |-> OpusAuto, loss |-> 0, fec |-> FALSE, dtx |-> FALSE,
             force |-> OpusAuto, user |-> OpusAuto, maximum |-> Full, forced |-> "auto",
             vbr |-> TRUE, signal |-> "auto", expert |-> OpusAuto]

Fresh == [prevMode |-> "none", prevChannels |-> 0, streamChannels |-> Channels,
          bandwidth |-> Full, autoBandwidth |-> 0, first |-> TRUE, fec |-> FALSE,
          toMono |-> FALSE, silkDtx |-> FALSE, allowSwitch |-> FALSE, inWb |-> FALSE,
          silkFs |-> 0, silkCounter |-> 0, ratio |-> -1, counter |-> 0,
          silkComplexity |-> 9]

NoPacket == [mode |-> "none", channels |-> 0, size |-> 0, bandwidth |-> OpusAuto,
             frames |-> <<>>]

NotSteady == [any |-> FALSE]

EncoderStart ==
    /\ opt = Defaults
    /\ enc = Fresh
    /\ call = [busy |-> FALSE, result |-> "none"]
    /\ packet = NoPacket
    /\ quiet = 0
    /\ steady = NotSteady

Init == caller \in Callers /\ EncoderStart

Return(result) == call' = [busy |-> FALSE, result |-> result]

\* A duration the encoder has no frames for.
Refuse(in) ==
    /\ ~call.busy
    /\ FrameSizeSelect(in.units, opt.expert) = 0
    /\ Return("BadArgument")
    /\ packet' = NoPacket
    /\ UNCHANGED <<caller, opt, enc, quiet, steady>>

\* What a decision leaves in the struct before any frame is coded.
Decided(d) ==
    [enc EXCEPT !.streamChannels = d.channels, !.toMono = d.toMono, !.fec = d.fec,
                !.silkDtx = d.silkDtx, !.ratio = d.ratio, !.bandwidth = d.bandwidth,
                !.autoBandwidth = d.auto,
                !.silkFs = IF d.prefill THEN 0 ELSE @,
                !.silkCounter = IF d.prefill THEN 0 ELSE @]

Unsaid == [mode |-> "none", bandwidth |-> OpusAuto, channels |-> 0]

Steadier(in) ==
    IF steady.any /\ steady.in = in THEN steady
    ELSE [any |-> TRUE, in |-> in, said |-> Unsaid, left |-> {}]

\* The history after a packet that says this.
Saying(said) ==
    [steady EXCEPT !.said = said, !.left = @ \cup ({steady.said} \ {said, Unsaid})]

\* opus_encode_with_options up to its first frame.  A packet longer than its
\* mode has frames for is split; a packet of several frames makes a fade to mono
\* permanent.
Begin(in) ==
    /\ ~call.busy
    /\ \E units \in {FrameSizeSelect(in.units, opt.expert)} \ {0} :
       \E d \in {Decision(in, units)} :
       \E frames \in {units \div CodedSize(d.mode, units)} :
          /\ packet' = NoPacket
          /\ steady' = Steadier(in)
          /\ UNCHANGED <<caller, quiet>>
          /\ \/ /\ frames > 1 /\ FramesBudget(frames, in.bytes) < 2 * frames
                /\ enc' = Decided(d)
                /\ Return("BufferTooSmall")
                /\ UNCHANGED opt
             \/ /\ frames > 1 => FramesBudget(frames, in.bytes) >= 2 * frames
                /\ enc' = IF frames > 1 /\ ~d.toMono
                          THEN [Decided(d) EXCEPT !.prevChannels = d.channels]
                          ELSE Decided(d)
                /\ opt' = IF frames > 1 /\ d.toMono THEN [opt EXCEPT !.force = 1] ELSE opt
                /\ call' = [busy |-> TRUE, result |-> "none", in |-> in, valid |-> Valid(in), d |-> d, frames |-> frames,
                            coded |-> CodedSize(d.mode, units), left |-> frames,
                            total |-> 0, retry |-> FALSE, done |-> <<>>]

\* The struct a frame of several is coded with.
InPacket == IF call.frames > 1 THEN [enc EXCEPT !.toMono = FALSE] ELSE enc

\* A frame of `bytes' bytes has been coded; the last one ends the call.
Emit(frame, bytes, e) ==
    /\ quiet' = IF frame.bits = "lost" THEN quiet + Duration ELSE 0
    /\ UNCHANGED <<caller, opt>>
    /\ IF LastFrame
       THEN /\ Return("ok")
            /\ steady' = Saying([mode |-> ModeNow, bandwidth |-> e.bandwidth,
                                 channels |-> enc.streamChannels])
            /\ enc' = IF call.frames > 1 THEN [e EXCEPT !.toMono = call.d.toMono] ELSE e
            /\ packet' = [mode |-> ModeNow, channels |-> enc.streamChannels,
                          size |-> call.coded, bandwidth |-> e.bandwidth,
                          frames |-> Append(call.done, [frame EXCEPT !.bytes = bytes])]
       ELSE /\ call' = [call EXCEPT !.left = @ - 1, !.total = @ + bytes, !.retry = FALSE,
                                    !.done = Append(@, [frame EXCEPT !.bytes = bytes])]
            /\ enc' = e
            /\ UNCHANGED <<packet, steady>>

\* What the whole encoder's DTX makes of a coded frame.
Finish(frame, bytes, e) ==
    LET counted == [e EXCEPT !.counter = Dtx.counter]
    IN  IF Dtx.quiet THEN Emit([frame EXCEPT !.bits = "lost"], 1, counted)
        ELSE Emit(frame, bytes, counted)

FrameOf(bits, celt, silk) ==
    [bits |-> bits, bytes |-> 0, celt |-> celt, silk |-> silk, again |-> call.retry]

SilkOp == IF SilkRestarts THEN "reset" ELSE "on"
CeltOp == IF CeltRestarts THEN "reset" ELSE "on"

\* Enough room for the frame to be tried at all.
Begun == call.busy /\ Aimed >= 2

\* SILK skips the frame; a redundant frame it should have carried is dropped.
SkipFrame ==
    /\ Begun
    /\ ModeNow # "celt"
    /\ enc.silkDtx /\ SilkRan.skips
    /\ \E allow \in SwitchPoints :
          Finish(FrameOf("lost", "none", SilkOp), 1,
                 FinishEncode(WithSilk(InPacket, allow), FrameBandwidth))

\* Stereo SILK also sends a frame for its side channel.
Sent == enc.silkDtx /\ SilkRan.skips => enc.streamChannels = 2

FrameLengths == {2, Least(Aimed, MaxFrameBytes)}

SilkFrame ==
    /\ Begun
    /\ ModeNow = "silk"
    /\ Sent
    /\ \E allow \in SwitchPoints, bytes \in FrameLengths :
          Finish(FrameOf("plain", "none", SilkOp), bytes,
                 FinishEncode(WithSilk(InPacket, allow), FrameBandwidth))

CeltFrame ==
    /\ Begun
    /\ ModeNow = "celt"
    /\ \E bytes \in FrameLengths :
          Finish(FrameOf("plain", "on", "none"), bytes,
                 FinishEncode(InPacket, FrameBandwidth))

\* Room behind SILK's bits for the redundancy header is found or not.
HybridFrame ==
    /\ Begun
    /\ ModeNow = "hybrid"
    /\ Sent
    /\ Least(Aimed, MaxFrameBytes) > 2
    /\ ~Starved
    /\ \E allow \in SwitchPoints, bytes \in FrameLengths, room \in BOOLEAN :
          LET bits == CASE ~room \/ HybridRedundancy = 0 -> "plain"
                        [] room /\ HybridRedundancy # 0 /\ FrameToCelt -> "silk_to_celt"
                        [] OTHER -> "celt_to_silk"
          IN  Finish(FrameOf(bits, IF bits = "celt_to_silk" THEN "reset" ELSE CeltOp, SilkOp),
                     bytes, FinishEncode(WithSilk(InPacket, allow), FrameBandwidth))

\* A frame that does not fit its buffer.  SILK has run; a frame of several that
\* was aimed lower than it may get is tried once more.
FrameTooLong ==
    /\ Begun
    /\ \/ ModeNow = "silk" /\ Aimed < MaxFrameBytes
       \/ ModeNow = "hybrid" /\ Least(Aimed, MaxFrameBytes) = 2
    /\ Sent
    /\ packet' = NoPacket
    /\ \E allow \in SwitchPoints : enc' = WithSilk(InPacket, allow)
    /\ IF Aimed < Longest THEN call' = [call EXCEPT !.retry = TRUE]
       ELSE Return("BufferTooSmall")
    /\ UNCHANGED <<caller, opt, quiet, steady>>

\* CELT refuses the rate SILK leaves it: SILK has run, and the call fails.
CeltStarves ==
    /\ Begun
    /\ ModeNow = "hybrid"
    /\ Sent
    /\ Least(Aimed, MaxFrameBytes) > 2
    /\ Starved
    /\ \E allow \in SwitchPoints : enc' = WithSilk(InPacket, allow)
    /\ Return("InternalError")
    /\ packet' = NoPacket
    /\ UNCHANGED <<caller, opt, quiet, steady>>

\* Too little is left for a frame of a packet of several.
OutOfBytes ==
    /\ call.busy
    /\ Aimed < 2
    /\ enc' = InPacket
    /\ Return("BufferTooSmall")
    /\ UNCHANGED <<caller, opt, packet, quiet, steady>>

Step == SkipFrame \/ SilkFrame \/ CeltFrame \/ HybridFrame \/ FrameTooLong \/ CeltStarves
        \/ OutOfBytes

\* opus_encoder_ctl.
Ctl(c) ==
    /\ ~call.busy
    /\ opt' = [opt EXCEPT ![c.field] = c.value]
    /\ steady' = NotSteady
    /\ UNCHANGED <<caller, enc, call, packet, quiet>>

\* OPUS_RESET_STATE: the FEC decision outlives it, and the
\* status of the new SILK encoder replaces what was set.
ResetState ==
    /\ ~call.busy
    /\ enc' = [Fresh EXCEPT !.fec = enc.fec, !.toMono = enc.toMono, !.ratio = enc.ratio,
                            !.silkComplexity = 0]
    /\ call' = [busy |-> FALSE, result |-> "none"]
    /\ packet' = NoPacket
    /\ quiet' = 0
    /\ steady' = NotSteady
    /\ UNCHANGED <<caller, opt>>

Call == \E in \in Inputs[caller] : Refuse(in) \/ Begin(in)

Next == Call \/ Step \/ (\E c \in Ctls[caller] : Ctl(c)) \/ ResetState

Spec == Init /\ [][Next]_vars

-----------------------------------------------------------------------------
(***************************************************************************)
(* Properties.                                                             *)
(***************************************************************************)
Reader == INSTANCE PacketFraming WITH MaxByte <- 255

\* The struct, the call and the packet hold what the code's types allow, and the
\* counters stay within their limits.
TypeOK ==
    /\ enc.prevMode \in Modes \cup {"none"}
    /\ enc.prevChannels \in 0..2 /\ enc.streamChannels \in 1..Channels
    /\ enc.bandwidth \in Bandwidths /\ enc.autoBandwidth \in 0..Full
    /\ {enc.first, enc.fec, enc.toMono, enc.silkDtx, enc.allowSwitch, enc.inWb} \subseteq BOOLEAN
    /\ enc.silkFs \in {0, 8, 12, 16} /\ enc.silkCounter \in 0..30
    /\ enc.ratio \in -1..127 /\ enc.counter \in 0..DtxUntil
    /\ call.busy => /\ call.left \in 1..call.frames
                    /\ Len(call.done) = call.frames - call.left

Sending == ~call.busy /\ packet.mode # "none"
PacketToc == GenToc(packet.mode, packet.size, packet.bandwidth, packet.channels)

\* The TOC byte (gen_toc) tells a decoder (the readers of packet.rs) the mode,
\* bandwidth and channels the frames were coded with, whatever path of splitting,
\* limits and SILK's own sampling rate they took.
TocTellsTheTruth ==
    Sending =>
        /\ Reader!ModeOf(PacketToc) = packet.mode
        /\ Reader!BandwidthOf(PacketToc) = packet.bandwidth
        /\ Reader!ChannelsOf(PacketToc) = packet.channels

\* A packet lasts as long as the call that made it was asked for, though its
\* frames are shorter, were tried twice or were skipped.
LastsAsAsked ==
    Sending /\ steady.any =>
        Reader!FrameUnits(PacketToc) * Len(packet.frames)
            = FrameSizeSelect(steady.in.units, opt.expert)

\* The frames of a packet, each as long as its share of the budget allows, are
\* gathered within the caller's buffer.
PacketFits ==
    Sending /\ steady.any =>
        GatheredBytes([i \in 1..Len(packet.frames) |-> packet.frames[i].bytes])
            <= steady.in.bytes

\* The longest the encoder's discontinuous transmission is silent for, up to a
\* frame of 60 ms, and SILK's (20 frames of 20 ms): one may take over where the
\* other has to send a frame.
SilenceMax == (DtxUntil - DtxAfter + 120) + 800

\* A listener is never left without a frame for longer, whichever detector
\* decides, however often the decision passes from SILK's detector to the
\* encoder's and back, and whatever the duration of the packets; as long as the
\* frames that have to be sent have room, for one that is refused has started
\* SILK's count again.
SilenceBounded == quiet <= SilenceMax

\* What the caller and the API rate allow a packet to carry.
AllowedBandwidth ==
    LET user == IF opt.user # OpusAuto THEN opt.user ELSE opt.maximum
    IN  Least(user, FsLimit)

\* No packet is coded in a wider band than the caller and the API rate allow,
\* though SILK keeps its own sampling rate from packet to packet.  CELT has no
\* medium band and takes the wide one.
NoWiderThanAllowed ==
    Sending /\ steady.any =>
        \/ packet.bandwidth <= AllowedBandwidth
        \/ packet.mode = "celt" /\ packet.bandwidth = Wide /\ AllowedBandwidth = Medium

\* A rate of at least 6000 bit/s for each channel leaves CELT a share of every
\* hybrid frame that it takes: below, a call may fail with an internal error.
CeltKeepsAShare ==
    call.result = "InternalError" /\ steady.any =>
        BitRate(steady.in.units, steady.in.bytes) < 6000 * Channels

\* A number of channels the caller has set is not changed by the encoder, which
\* writes the same field when it makes a fade to mono permanent.
ForceSticks ==
    [][steady'.any /\ opt.force # OpusAuto => opt'.force = opt.force]_vars

\* With the same input and settings the packets do not go back to a mode, a
\* bandwidth and channels they have left: the hystereses, each of which moves the
\* rates the others are compared with, and SILK's own rate leave no cycle.
Settles == steady.any => steady.said \notin steady.left
=============================================================================
