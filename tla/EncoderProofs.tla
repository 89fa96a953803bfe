---------------------------- MODULE EncoderProofs ----------------------------
(***************************************************************************)
(* The encoder: proofs of the properties of HybridFraming, for every size  *)
(* of frame, position of SILK and size of redundant frame, and of those of *)
(* OpusEncoder, for every rate, application and sequence of calls and      *)
(* settings.                                                               *)
(***************************************************************************)
EXTENDS HybridFraming, OpusEncoder, FiniteSetTheorems, WellFoundedInduction, TLAPS

-----------------------------------------------------------------------------
(***************************************************************************)
(* The redundant frame.                                                    *)
(***************************************************************************)

\* The frame as encoder and decoder come to see it, step by step.
FrameShape ==
    /\ stage \in {"silk", "header", "celt", "read", "failed"}
    /\ room \in Nat /\ room >= 1 /\ wish \in {0} \cup (2..257)
    /\ start \in 1..(8 * room) /\ tell \in Nat /\ red \in 0..257 /\ sent \in Nat
    /\ header \in {"absent", "present"}

\* The header is written exactly where the encoder's test lets it, and what is
\* written lies before the redundant frame.
Written ==
    /\ stage = "silk" => header = "absent" /\ red = 0 /\ tell = start
    /\ stage # "silk" =>
         /\ header = "present" <=> start + 37 <= 8 * room
         /\ header = "absent" => red = 0 /\ tell = start
         /\ header = "present" => start <= tell /\ tell <= 8 * (room - red)

\* The same of the frame sent, which may be shorter.
SentShape ==
    stage \in {"celt", "read"} =>
        /\ sent <= room
        /\ header = "present" <=> start + 37 <= 8 * sent
        /\ header = "present" => tell <= 8 * (sent - red)

\* What the decoder has read is what the encoder has written.
ReadBack == stage = "read" => read = [header |-> header, red |-> red]

\* The invariant of the redundant frame.
FramingInv == FrameShape /\ Written /\ SentShape /\ ReadBack

\* The redundant frame leaves the header its bits, even where its least size is
\* more than the room that was reckoned for it.
LEMMA RedundancyLeavesRoom ==
    ASSUME NEW b \in Nat, NEW s \in Nat, s + 37 <= 8 * b, NEW w \in 2..257
    PROVE  LET r == WrittenRedundancy(w, RoomForRedundancy(s + 13, b))
           IN  r \in 2..257 /\ s + 21 <= 8 * (b - r)
<1> DEFINE q == (s + 31) \div 8
<1>1. q \in Nat /\ 8 * q >= s + 24 /\ 8 * q <= s + 31
  OBVIOUS
<1>2. RoomForRedundancy(s + 13, b) = b - q
  BY DEF RoomForRedundancy
<1> DEFINE r == WrittenRedundancy(w, b - q)
<1> HIDE DEF q
<1>3. r \in 2..257 /\ (r <= b - q \/ r = 2)
  BY <1>1 DEF WrittenRedundancy, Least, Most
<1>4. s + 21 <= 8 * (b - r)
  BY <1>1, <1>3
<1> QED
  BY <1>2, <1>3, <1>4

\* A variable rate leaves 37 bits behind the position it starts at.
LEMMA MinAllowedLeavesRoom ==
    ASSUME NEW t \in Nat, t >= 1, NEW p \in 0..7
    PROVE  MinAllowed(8 * t - p) \in Nat /\ 8 * MinAllowed(8 * t - p) >= t + 37
<1> DEFINE e == 8 * t - p
           m == (e + 8 * 37 + 63) \div 64
           n == (e + 63) \div 64
<1>1. e \in Nat /\ e >= 8 * t - 7
  OBVIOUS
<1>2. m \in Nat /\ 64 * m >= e + 296
  BY <1>1
<1>3. n \in Nat
  BY <1>1
<1>4. MinAllowed(e) >= m /\ MinAllowed(e) \in Nat
  <2> HIDE DEF e
  <2>1. MinAllowed(e) = Most(n + 2, m)
    BY DEF MinAllowed
  <2> HIDE DEF m, n
  <2> QED
    BY <1>2, <1>3, <2>1 DEF Most
<1> HIDE DEF m, n, e
<1>5. 8 * MinAllowed(e) >= t + 37
  BY <1>1, <1>2, <1>4
<1> QED
  BY <1>4, <1>5 DEF e

\* What leaves no room for a header in a frame leaves none in a shorter one; what
\* leaves 37 bits behind a later position leaves them behind an earlier one.
LEMMA ShorterFrames ==
    ASSUME NEW r \in Nat, NEW s \in Nat, NEW l \in Nat, l <= r
    PROVE  ~(s + 37 <= 8 * r) => ~(s + 37 <= 8 * l)
  OBVIOUS

\* A length of which m bytes are not the redundant frame's holds the header, the bits
\* before it and the position reached.
LEMMA RoomBehind ==
    ASSUME NEW m \in Nat, NEW t \in Nat, NEW s \in Nat, NEW l \in Nat, NEW r \in Nat,
           8 * m >= t + 37, s <= t, l - r >= m
    PROVE  s + 37 <= 8 * l /\ t <= 8 * (l - r)
  OBVIOUS

\* The frame starts so, and every step keeps it so.
LEMMA InitIsShaped == FramingInit => FramingInv
<1> SUFFICES ASSUME FramingInit PROVE FramingInv
  OBVIOUS
<1>1. FrameShape
  <2>1. room \in Nat /\ room >= 1
    <3>1. room \in Nat \ {0}
      BY RoomsAssumption DEF FramingInit
    <3> QED
      BY <3>1
  <2>2. wish \in {0} \cup (2..257)
    BY WishesAssumption DEF FramingInit
  <2>3. start \in 1..(8 * room) /\ tell \in Nat
    BY <2>1 DEF FramingInit
  <2> QED
    BY <2>1, <2>2, <2>3 DEF FramingInit, FrameShape
<1>2. Written /\ SentShape /\ ReadBack
  BY DEF FramingInit, Written, SentShape, ReadBack
<1> QED
  BY <1>1, <1>2 DEF FramingInv

LEMMA StepKeepsShape == FramingInv /\ [FramingNext]_framingVars => FramingInv'
<1> SUFFICES ASSUME FramingInv, [FramingNext]_framingVars PROVE FramingInv'
  OBVIOUS
<1> USE DEF FrameShape, Written, SentShape, ReadBack
<1>1. CASE WriteHeader
  <2>1. stage = "silk" /\ start + 37 <= 8 * room /\ header' = "present" /\ stage' = "header"
    BY <1>1 DEF WriteHeader, HeaderFits
  <2>2. UNCHANGED <<room, wish, start, sent, read>>
    BY <1>1 DEF WriteHeader
  <2>3. CASE wish = 0 /\ tell' \in {start, start + 1} /\ red' = red
    BY <2>1, <2>2, <2>3 DEF FramingInv
  <2>4. CASE /\ wish # 0 /\ tell' \in {start + 20, start + 21}
             /\ red' = WrittenRedundancy(wish, RoomForRedundancy(start + 13, room))
    <3>1. red' \in 2..257 /\ start + 21 <= 8 * (room - red')
      BY <2>1, <2>4, RedundancyLeavesRoom DEF FramingInv
    <3> QED
      BY <2>1, <2>2, <2>4, <3>1, SMTT(30) DEF FramingInv
  <2> QED
    BY <1>1, <2>3, <2>4 DEF WriteHeader
<1>2. CASE NoHeader
  BY <1>2 DEF FramingInv, NoHeader, HeaderFits
<1>3. CASE Celt
  <2>1. /\ stage = "header" /\ room - red >= 2 /\ stage' = "celt"
        /\ UNCHANGED <<room, wish, start, tell, header, red, read>>
    BY <1>3 DEF Celt
  <2>2. PICK part \in 0..7 :
           sent' \in {Least(MinAllowed(8 * tell - part), room - red) + red, room}
    BY <1>3 DEF Celt
  <2> DEFINE m == MinAllowed(8 * tell - part)
  <2>3. tell \in Nat /\ tell >= start /\ start >= 1 /\ tell >= 1
    BY <2>1 DEF FramingInv
  <2>4. m \in Nat /\ 8 * m >= tell + 37
    BY <2>3, MinAllowedLeavesRoom, Zenon
  <2>8. sent' \in {Least(m, room - red) + red, room}
    BY <2>2
  <2> HIDE DEF m
  <2>9. room \in Nat /\ red \in 0..257
    BY DEF FramingInv
  <2>5. sent' \in Nat /\ sent' <= room
         /\ (sent' - red >= m \/ sent' = room)
    <3>1. CASE sent' = room
      BY <2>9, <3>1
    <3>2. CASE sent' = m + red /\ m <= room - red
      BY <2>4, <2>9, <3>2
    <3>3. Least(m, room - red) = IF m <= room - red THEN m ELSE room - red
      BY DEF Least
    <3>4. CASE sent' = Least(m, room - red) + red /\ ~(m <= room - red)
      BY <2>9, <3>1, <3>3, <3>4
    <3> QED
      BY <2>8, <3>1, <3>2, <3>3, <3>4
  <2>10. stage # "silk"
    BY <2>1
  <2>6. /\ start \in Nat /\ header \in {"absent", "present"}
        /\ header = "present" <=> start + 37 <= 8 * room
        /\ header = "present" => tell <= 8 * (room - red)
    BY <2>10 DEF FramingInv
  <2>12. sent' \in Nat /\ sent' <= room /\ red \in Nat
    BY <2>5, <2>9
  <2>13. CASE sent' = room
    BY <2>1, <2>5, <2>6, <2>13 DEF FramingInv
  <2>14. CASE sent' - red >= m
    <3>1. start + 37 <= 8 * sent' /\ tell <= 8 * (sent' - red)
      BY <2>3, <2>4, <2>6, <2>12, <2>14, RoomBehind
    <3>2. ~(start + 37 <= 8 * room) => ~(start + 37 <= 8 * sent')
      BY <2>6, <2>9, <2>12, ShorterFrames
    <3>3. header = "present" <=> start + 37 <= 8 * sent'
      BY <2>6, <3>1, <3>2
    <3> QED
      BY <2>1, <2>5, <3>1, <3>3 DEF FramingInv
  <2> QED
    BY <2>5, <2>13, <2>14
<1>4. CASE TooSmall
  BY <1>4 DEF FramingInv, TooSmall
<1>5. CASE Read
  <2>1. /\ stage = "celt" /\ stage' = "read"
        /\ UNCHANGED <<room, wish, start, tell, header, red, sent>>
    BY <1>5 DEF Read
  <2>2. read' = [header |-> header, red |-> red]
    <3>1. CASE header = "present"
      <4>1. start + 37 <= 8 * sent /\ ~(8 * (sent - red) < tell)
        BY <2>1, <3>1 DEF FramingInv
      <4> QED
        BY <1>5, <3>1, <4>1 DEF Read, HeaderFits, FramingInv
    <3>2. CASE header = "absent"
      <4>1. ~(start + 37 <= 8 * sent) /\ red = 0
        BY <2>1, <3>2 DEF FramingInv
      <4> QED
        BY <1>5, <3>2, <4>1 DEF Read, HeaderFits, FramingInv
    <3>3. header \in {"absent", "present"}
      BY DEF FramingInv
    <3> QED
      BY <3>1, <3>2, <3>3
  <2> QED
    BY <2>1, <2>2 DEF FramingInv
<1>6. CASE UNCHANGED framingVars
  BY <1>6 DEF FramingInv, framingVars
<1> QED
  BY <1>1, <1>2, <1>3, <1>4, <1>5, <1>6 DEF FramingNext

\* What encoder and decoder know of the frame at every step.
THEOREM AlwaysShaped == FramingSpec => []FramingInv
  BY InitIsShaped, StepKeepsShape, PTL DEF FramingSpec

\* Whatever the frame, its bytes and the length CELT gives it, the decoder looks
\* for a redundancy header exactly where there is one.
THEOREM HeadersAreFound == FramingSpec => []HeaderIsFound
<1>1. FramingInv => HeaderIsFound
  BY DEF FramingInv, ReadBack, HeaderIsFound
<1> QED
  BY <1>1, AlwaysShaped, PTL

\* A redundant frame is found where it was written, and never dropped.
THEOREM RedundancyAlwaysFound == FramingSpec => []RedundancyIsFound
<1>1. FramingInv => RedundancyIsFound
  BY DEF FramingInv, ReadBack, RedundancyIsFound
<1> QED
  BY <1>1, AlwaysShaped, PTL

\* CELT always has room left to start in, and the frame fits.
THEOREM CeltAlwaysHasRoom == FramingSpec => []CeltHasRoom
<1>1. FramingInv => CeltHasRoom
  BY DEF FramingInv, FrameShape, Written, SentShape, CeltHasRoom
<1> QED
  BY <1>1, AlwaysShaped, PTL

-----------------------------------------------------------------------------
(***************************************************************************)
(* The encoder.  What a packet says is settled by the decision before its  *)
(* first frame: TheCall says what the decision and the frames coded so far *)
(* are worth together, ThePacket what the packet is when the call returns. *)
(* The silence is bounded through the two counters of the two detectors:   *)
(* while the encoder's is past its threshold, it has counted all of the    *)
(* silence but one frame; otherwise SILK's has counted what came after it. *)
(***************************************************************************)

\* The settings of the caller.
OptTypes ==
    /\ opt = [f \in DOMAIN Settable |-> opt[f]]
    /\ \A f \in DOMAIN Settable : opt[f] \in Settable[f]

\* The struct of the encoder and a decision; the sets of their fields have names,
\* which the proofs about records do not expand.
Flags == BOOLEAN
PriorModes == Modes \cup {"none"}
PriorChannels == 0..Channels
StreamCounts == 1..Channels
PriorBandwidths == 0..Full
SilkRates == {0, 8, 12, 16}
SilkCounts == 0..30
VoiceRatios == -1..100
DtxCounts == 0..DtxUntil
Complexities == 0..10

Structs == [prevMode : PriorModes, prevChannels : PriorChannels,
            streamChannels : StreamCounts, bandwidth : Bandwidths,
            autoBandwidth : PriorBandwidths, first : Flags, fec : Flags, toMono : Flags,
            silkDtx : Flags, allowSwitch : Flags, inWb : Flags, silkFs : SilkRates,
            silkCounter : SilkCounts, ratio : VoiceRatios, counter : DtxCounts,
            silkComplexity : Complexities]

Decisions == [mode : Modes, bandwidth : Bandwidths, channels : StreamCounts, toMono : Flags,
              fec : Flags, silkDtx : Flags, ratio : VoiceRatios, auto : PriorBandwidths,
              toCelt : Flags, redundancy : Flags, prefill : Flags, bitrate : Int]

\* What a frame says to the decoder and to the memories of the coders.
Payloads == {"lost", "plain", "silk_to_celt", "celt_to_silk"}
MemoryOps == {"none", "on", "reset"}
CodedFrames == [bits : Payloads, bytes : Int, celt : MemoryOps, silk : MemoryOps, again : Flags]

\* What each mode has frames for, and the bandwidths it carries.
ModeSizes(mode) == CASE mode = "silk"   -> {4, 8, 16, 24}
                     [] mode = "hybrid" -> {4, 8}
                     [] OTHER           -> {1, 2, 4, 8}
ModeBandwidths(mode) == CASE mode = "silk"   -> {Narrow, Medium, Wide}
                          [] mode = "hybrid" -> {SuperWide, Full}
                          [] OTHER           -> {Narrow, Wide, SuperWide, Full}

\* What the caller and the API rate allow a packet of this mode.
Within(mode, b) ==
    \/ b <= AllowedBandwidth
    \/ mode = "celt" /\ b = Wide /\ AllowedBandwidth = Medium

\* A call in progress.
CallRecords == [busy : {TRUE}, result : {"none"}, in : Calls, valid : Flags,
                d : Decisions, frames : Nat, coded : Nat, left : Nat, total : Int,
                retry : Flags, done : Seq(CodedFrames)]
\* The decision is for a mode that has the frames and the bandwidth, and the frames
\* together last as long as the call was asked for.
TheCall ==
    call.busy =>
        /\ call \in CallRecords
        /\ call.left \in 1..call.frames /\ Len(call.done) = call.frames - call.left
        /\ call.coded \in ModeSizes(call.d.mode)
        /\ call.d.mode # "silk" => call.d.bandwidth \in ModeBandwidths(call.d.mode)
        /\ Within(call.d.mode, call.d.bandwidth)
        /\ steady.any /\ steady.in = call.in /\ packet = NoPacket
        /\ call.coded * call.frames = FrameSizeSelect(call.in.units, opt.expert)

\* The packet last returned.
ThePacket ==
    Sending =>
        /\ packet.mode \in Modes /\ packet.size \in ModeSizes(packet.mode)
        /\ packet.bandwidth \in ModeBandwidths(packet.mode)
        /\ packet.channels \in 1..Channels
        /\ packet.frames \in Seq(CodedFrames)
        /\ steady.any =>
             /\ packet.size * Len(packet.frames) = FrameSizeSelect(steady.in.units, opt.expert)
             /\ Within(packet.mode, packet.bandwidth)

\* The history.
TheHistory ==
    /\ steady.any \in BOOLEAN
    /\ steady.any => steady = [any |-> TRUE, in |-> steady.in, said |-> steady.said,
                               left |-> steady.left]

\* The invariant of the encoder.
EncoderInv ==
    /\ caller \in Callers /\ OptTypes /\ enc \in Structs /\ call.busy \in BOOLEAN
    /\ TheHistory
    /\ TheCall /\ ThePacket

\* What the two counters know of the silence.
SilenceCounted ==
    /\ quiet \in 0..SilenceMax
    /\ enc.counter > DtxAfter => quiet <= enc.counter - DtxAfter + 120
    /\ enc.counter \in 1..DtxAfter => quiet = 0
    /\ enc.counter = 0 /\ enc.silkCounter >= 10 =>
         quiet <= (DtxUntil - DtxAfter + 120) + 40 * (enc.silkCounter - 10)

\* The sums of the lengths of the first frames of a packet.
PartialSums(frames, sum) ==
    /\ sum \in [0..Len(frames) -> Int] /\ sum[0] = 0
    /\ \A k \in 1..Len(frames) : sum[k] = sum[k - 1] + frames[k].bytes

\* The frames are this long together.
Together(frames, total) ==
    \E sum : PartialSums(frames, sum) /\ sum[Len(frames)] = total

\* What the n frames of a packet may be together.
Share(n, bytes) == IF n = 1 THEN bytes ELSE FramesBudget(n, bytes)

\* The frames coded so far keep to the budget of their packet, and those of a packet did.
BytesCounted ==
    /\ call.busy =>
         /\ Together(call.done, call.total)
         /\ call.frames > 1 => call.total <= FramesBudget(call.frames, call.in.bytes)
    /\ Sending /\ steady.any =>
         /\ steady.in.bytes \in Int
         /\ \E total \in Int :
              /\ packet.frames # <<>> /\ Together(packet.frames, total)
              /\ total <= Share(Len(packet.frames), steady.in.bytes)

\* One frame of SILK: the frame after the tenth without speech may be skipped.
LEMMA SpeechLemma ==
  ASSUME NEW counter \in 0..30, NEW voice \in BOOLEAN
  PROVE  LET r == SilkSpeech(counter, voice)
         IN  /\ r.counter \in 0..30 /\ r.skips \in BOOLEAN
             /\ r.skips => counter >= 10 /\ r.counter = counter + 1
<1>1. CASE voice
  <2>1. SilkSpeech(counter, voice) = [counter |-> 0, skips |-> FALSE]
    BY <1>1 DEF SilkSpeech
  <2>2. QED
    BY <2>1
<1>2. CASE ~voice /\ counter + 1 <= 30
  <2>1. SilkSpeech(counter, voice) = [counter |-> counter + 1, skips |-> counter + 1 > 10]
    BY <1>2 DEF SilkSpeech
  <2>2. QED
    BY <1>2, <2>1
<1>3. CASE ~voice /\ ~(counter + 1 <= 30)
  <2>1. SilkSpeech(counter, voice) = [counter |-> 10, skips |-> FALSE]
    BY <1>3 DEF SilkSpeech
  <2>2. QED
    BY <2>1
<1>4. QED
  BY <1>1, <1>2, <1>3

\* A packet of SILK that is skipped has moved the counter by all of its frames, of
\* 20 ms or less.
LEMMA SilkPacketLemma ==
  ASSUME NEW counter \in 0..30, NEW voice \in BOOLEAN, NEW units \in {1, 2, 4, 8, 16, 24}
  PROVE  LET r == SilkPacket(counter, voice, units)
         IN  /\ r.counter \in 0..30
             /\ r.skips => counter >= 10 /\ 8 * (r.counter - counter) >= units
<1> DEFINE first  == SilkSpeech(counter, voice)
           second == SilkSpeech(first.counter, voice)
           third  == SilkSpeech(second.counter, voice)
           ran    == <<first, second, third>>
           n      == SilkFrames(units)
<1>1. /\ first.counter \in 0..30
      /\ first.skips => counter >= 10 /\ first.counter = counter + 1
  BY SpeechLemma
<1>2. /\ second.counter \in 0..30
      /\ second.skips => second.counter = first.counter + 1
  BY <1>1, SpeechLemma
<1>3. /\ third.counter \in 0..30
      /\ third.skips => third.counter = second.counter + 1
  BY <1>2, SpeechLemma
<1>4. n \in 1..3 /\ 8 * n >= units
  BY DEF SilkFrames
<1>5. SilkPacket(counter, voice, units)
        = [counter |-> ran[n].counter, skips |-> \A i \in 1..n : ran[i].skips]
  BY DEF SilkPacket
<1> HIDE DEF first, second, third, n
<1>6. CASE n = 1
  BY <1>1, <1>4, <1>5, <1>6
<1>7. CASE n = 2
  <2>1. SilkPacket(counter, voice, units).counter = second.counter
    BY <1>5, <1>7
  <2>2. SilkPacket(counter, voice, units).skips => first.skips /\ second.skips
    BY <1>5, <1>7
  <2>3. QED
    BY <1>1, <1>2, <1>4, <1>7, <2>1, <2>2
<1>8. CASE n = 3
  <2>1. SilkPacket(counter, voice, units).counter = third.counter
    BY <1>5, <1>8
  <2>2. SilkPacket(counter, voice, units).skips => first.skips /\ second.skips /\ third.skips
    BY <1>5, <1>8
  <2>3. QED
    BY <1>1, <1>2, <1>3, <1>4, <1>8, <2>1, <2>2
<1>9. QED
  BY <1>4, <1>6, <1>7, <1>8

\* The widest bandwidth of a set, where the code searches from the top.
LEMMA WidestLemma ==
  ASSUME NEW S \in SUBSET Bandwidths, S # {}
  PROVE  (CHOOSE b \in S : \A c \in S : b >= c) \in S
<1>1. \E b \in S : \A c \in S : b >= c
  <2>1. \A c \in S : c \in 1..5
    BY DEF Bandwidths, Narrow, Full
  <2>2. CASE 5 \in S
    BY <2>1, <2>2
  <2>3. CASE 5 \notin S /\ 4 \in S
    BY <2>1, <2>3
  <2>4. CASE 5 \notin S /\ 4 \notin S /\ 3 \in S
    BY <2>1, <2>4
  <2>5. CASE 5 \notin S /\ 4 \notin S /\ 3 \notin S /\ 2 \in S
    BY <2>1, <2>5
  <2>6. CASE \A c \in 2..5 : c \notin S
    BY <2>1, <2>6
  <2>7. QED
    BY <2>2, <2>3, <2>4, <2>5, <2>6
<1>2. QED
  BY <1>1

\* What the rate pays for is a bandwidth.
LEMMA AutoBandwidthLemma ==
  ASSUME NEW rate, NEW voiceEst, NEW first, NEW previous
  PROVE  AutoBandwidth(rate, voiceEst, first, previous) \in Bandwidths
<1> DEFINE paid == {b \in Medium..Full :
                      rate >= BandwidthThreshold(b, voiceEst, first, previous)}
           best == IF paid = {} THEN Narrow ELSE CHOOSE b \in paid : \A c \in paid : b >= c
<1>1. paid \in SUBSET Bandwidths
  BY DEF Bandwidths, Narrow, Medium, Full
<1>2. best \in Bandwidths
  <2> HIDE DEF paid
  <2>1. CASE paid = {}
    BY <2>1 DEF Bandwidths, Narrow, Full
  <2>2. CASE paid # {}
    BY <1>1, <2>2, WidestLemma
  <2>3. QED
    BY <2>1, <2>2
<1>3. AutoBandwidth(rate, voiceEst, first, previous) = IF best = Medium THEN Wide ELSE best
  BY DEF AutoBandwidth
<1> HIDE DEF best
<1>4. QED
  BY <1>2, <1>3 DEF Bandwidths, Narrow, Wide, Full

\* The limits leave a bandwidth that the caller and the API rate allow.
LEMMA LimitedLemma ==
  ASSUME OptTypes, NEW b \in Bandwidths, NEW mode, NEW maxRate,
         NEW detected \in {OpusAuto} \cup Bandwidths, NEW rate, NEW channels
  PROVE  LET l == Limited(b, opt.maximum, opt.user, mode, maxRate, detected, rate, channels)
         IN  l \in Bandwidths /\ l <= AllowedBandwidth
<1>1. opt.maximum \in Bandwidths /\ opt.user \in {OpusAuto} \cup Bandwidths
  BY DEF OptTypes, Settable
<1>2. LeastDetected(rate, channels, mode) \in Bandwidths
  BY DEF LeastDetected, Bandwidths, Narrow, Medium, Wide, SuperWide, Full
<1>3. FsLimit \in Bandwidths
  BY FsAssumption DEF FsLimit, Bandwidths, Narrow, Medium, Wide, SuperWide, Full
<1> DEFINE least == LeastDetected(rate, channels, mode)
           limit == FsLimit
           top == opt.maximum
           user == opt.user
           chosen == IF user # OpusAuto THEN user ELSE Least(b, top)
           fit == IF mode # "celt" /\ maxRate < 15000 THEN Least(chosen, Wide) ELSE chosen
           api == Least(fit, limit)
<1>4. Limited(b, top, user, mode, maxRate, detected, rate, channels)
        = IF detected # OpusAuto /\ user = OpusAuto
          THEN Least(api, Most(detected, least)) ELSE api
  BY DEF Limited
<1>5. AllowedBandwidth = Least(IF user # OpusAuto THEN user ELSE top, limit)
  BY DEF AllowedBandwidth
<1>6. least \in 1..5 /\ limit \in 1..5 /\ top \in 1..5 /\ user \in 0..5 /\ b \in 1..5 /\ detected \in 0..5
  BY <1>1, <1>2, <1>3 DEF Bandwidths, Narrow, Full, OpusAuto
<1> HIDE DEF least, limit, top, user
<1>7. chosen \in 1..5 /\ chosen <= (IF user # OpusAuto THEN user ELSE top)
  BY <1>6 DEF Least, OpusAuto
<1> HIDE DEF chosen
<1>8. fit \in 1..5 /\ fit <= chosen
  BY <1>7 DEF Least, Wide
<1> HIDE DEF fit
<1>9. api \in 1..5 /\ api <= AllowedBandwidth
  BY <1>5, <1>6, <1>7, <1>8 DEF Least
<1> HIDE DEF api
<1>10. AllowedBandwidth \in 1..5
  BY <1>5, <1>6 DEF Least, OpusAuto
<1>11. QED
  <2>1. CASE detected # OpusAuto /\ user = OpusAuto
    BY <1>4, <1>6, <1>9, <1>10, <2>1 DEF Least, Most, OpusAuto, Bandwidths, Narrow, Full, top, user
  <2>2. CASE ~(detected # OpusAuto /\ user = OpusAuto)
    BY <1>4, <1>9, <2>2 DEF Bandwidths, Narrow, Full, top, user
  <2>3. QED
    BY <2>1, <2>2

\* Forward error correction only narrows the band.
LEMMA FecLemma ==
  ASSUME NEW use \in BOOLEAN, NEW loss, NEW last, NEW mode, NEW b \in Bandwidths, NEW rate
  PROVE  LET f == DecideFec(use, loss, last, mode, b, rate)
         IN  f.fec \in BOOLEAN /\ f.bandwidth \in Bandwidths /\ f.bandwidth <= b
<1> DEFINE tried == IF loss <= 5 THEN {b} ELSE Narrow..b
           afford == {c \in tried : rate > FecThreshold(c, last, loss)}
           best == CHOOSE c \in afford : \A d \in afford : c >= d
<1>1. afford \in SUBSET Bandwidths /\ \A c \in afford : c <= b
  BY DEF Bandwidths, Narrow, Full
<1>2. DecideFec(use, loss, last, mode, b, rate)
        = IF ~use \/ loss = 0 \/ mode = "celt" \/ afford = {}
          THEN [fec |-> FALSE, bandwidth |-> b] ELSE [fec |-> TRUE, bandwidth |-> best]
  BY DEF DecideFec
<1>3. afford # {} => best \in afford
  <2> HIDE DEF afford
  <2>1. QED
    BY <1>1, WidestLemma
<1> HIDE DEF afford, best
<1>4. CASE ~use \/ loss = 0 \/ mode = "celt" \/ afford = {}
  BY <1>2, <1>4 DEF Bandwidths, Narrow, Full
<1>5. CASE ~(~use \/ loss = 0 \/ mode = "celt" \/ afford = {})
  <2>1. DecideFec(use, loss, last, mode, b, rate) = [fec |-> TRUE, bandwidth |-> best]
    BY <1>2, <1>5
  <2>2. best \in Bandwidths /\ best <= b
    BY <1>1, <1>3, <1>5
  <2>3. QED
    BY <2>1, <2>2
<1>6. QED
  BY <1>4, <1>5

\* What opus_encoder_ctl has accepted.
LEMMA OptLemma ==
  ASSUME OptTypes
  PROVE  /\ opt.bitrate \in Nat \cup {MaxRate} /\ opt.force \in 0..Channels
         /\ opt.fec \in BOOLEAN /\ opt.dtx \in BOOLEAN /\ opt.vbr \in BOOLEAN
         /\ opt.user \in {OpusAuto} \cup Bandwidths /\ opt.maximum \in Bandwidths
         /\ opt.forced \in {"auto"} \cup Modes
BY DEF OptTypes, Settable

\* The fields of the struct.
LEMMA StructLemma ==
  ASSUME NEW e \in Structs
  PROVE  /\ e.prevMode \in Modes \cup {"none"} /\ e.prevChannels \in 0..Channels
         /\ e.streamChannels \in 1..Channels /\ e.bandwidth \in Bandwidths
         /\ e.autoBandwidth \in 0..Full /\ e.first \in BOOLEAN /\ e.fec \in BOOLEAN
         /\ e.toMono \in BOOLEAN /\ e.silkDtx \in BOOLEAN /\ e.allowSwitch \in BOOLEAN
         /\ e.inWb \in BOOLEAN /\ e.silkFs \in {0, 8, 12, 16} /\ e.silkCounter \in 0..30
         /\ e.ratio \in -1..100 /\ e.counter \in 0..DtxUntil /\ e.silkComplexity \in 0..10
<1>1. /\ e.prevMode \in PriorModes /\ e.prevChannels \in PriorChannels
      /\ e.streamChannels \in StreamCounts /\ e.bandwidth \in Bandwidths
      /\ e.autoBandwidth \in PriorBandwidths /\ e.first \in Flags /\ e.fec \in Flags
      /\ e.toMono \in Flags /\ e.silkDtx \in Flags /\ e.allowSwitch \in Flags
      /\ e.inWb \in Flags /\ e.silkFs \in SilkRates /\ e.silkCounter \in SilkCounts
      /\ e.ratio \in VoiceRatios /\ e.counter \in DtxCounts /\ e.silkComplexity \in Complexities
  BY DEF Structs
<1>2. QED
  BY <1>1 DEF Flags, PriorModes, PriorChannels, StreamCounts, PriorBandwidths, SilkRates,
       SilkCounts, VoiceRatios, DtxCounts, Complexities

\* The fields of a call.
LEMMA InputLemma ==
  ASSUME NEW in \in Calls
  PROVE  /\ in.units \in 1..48 /\ in.bytes \in Int
         /\ in.silent \in BOOLEAN /\ in.valid \in BOOLEAN /\ in.idle \in BOOLEAN
         /\ \A m \in {"none", "celt", "silk"} : in.ratio[m] \in 0..100
         /\ in.detected \in {OpusAuto} \cup Bandwidths /\ in.voice \in BOOLEAN
<1>1. in.units \in 1..48
  BY SMTT(30) DEF Calls
<1>2. in.bytes \in Buffers /\ in.ratio \in Ratios /\ in.detected \in {OpusAuto} \cup Bandwidths
  BY SMTT(30) DEF Calls
<1>3. /\ in.silent \in BOOLEAN /\ in.valid \in BOOLEAN /\ in.idle \in BOOLEAN
      /\ in.voice \in BOOLEAN
  BY SMTT(30) DEF Calls
<1>4. \A m \in {"none", "celt", "silk"} : in.ratio[m] \in 0..100
  BY <1>2 DEF Ratios
<1>5. in.bytes \in Int
  <2>1. \A b \in Buffers : b \in Int
    BY DEF Buffers
  <2>2. QED
    BY <1>2, <2>1
<1>6. QED
  BY <1>1, <1>2, <1>3, <1>4, <1>5

\* The rate is a number, where it is the most the buffer holds too.
LEMMA BitRateLemma ==
  ASSUME OptTypes, NEW units \in FrameDurations, NEW bytes \in Int
  PROVE  BitRate(units, bytes) \in Int
<1>1. opt.bitrate \in Int
  BY OptLemma DEF MaxRate
<1>2. units \in Int /\ units > 0 /\ Channels \in Int /\ Fs \in Int
  BY FsAssumption, ChannelsAssumption DEF FrameDurations
<1>3. 60 * FrameRate(units) + Channels * Fs \in Int
  BY <1>2 DEF FrameRate
<1>4. (bytes * 8 * 400) \div units \in Int
  BY <1>2
<1>5. QED
  BY <1>1, <1>3, <1>4 DEF BitRate

\* A voice ratio, if there is one.
LEMMA RatioLemma ==
  ASSUME enc \in Structs, NEW in \in Calls
  PROVE  VoiceRatio(in) \in -1..100
<1> DEFINE kind == CASE enc.prevMode = "none" -> "none" [] enc.prevMode = "celt" -> "celt"
                     [] OTHER -> "silk"
<1>1. kind \in {"none", "celt", "silk"}
  OBVIOUS
<1>2. Valid(in) \in BOOLEAN
  BY DEF Valid
<1> HIDE DEF kind
<1>3. in.ratio[kind] \in 0..100 /\ enc.ratio \in -1..100
  BY <1>1, StructLemma, InputLemma
<1>4. VoiceRatio(in) = CASE Valid(in) /\ opt.signal = "auto" -> in.ratio[kind]
                         [] ~(Valid(in) /\ opt.signal = "auto") /\ in.silent -> enc.ratio
                         [] OTHER -> -1
  BY DEF VoiceRatio, kind
<1>5. QED
  BY <1>3, <1>4

\* The channels of a stream; those the caller has set are taken.
LEMMA CountLemma ==
  ASSUME OptTypes, NEW previous, NEW rate, NEW voiceEst
  PROVE  LET count == StreamChannels(opt.force, previous, rate, voiceEst)
         IN  /\ count \in 1..Channels
             /\ Channels = 2 /\ opt.force # OpusAuto => count = opt.force
BY OptLemma, ChannelsAssumption DEF StreamChannels, OpusAuto

\* Only CELT has frames of less than 10 ms.
LEMMA ModeLemma ==
  ASSUME OptTypes, NEW in, NEW units, NEW rate, NEW voiceEst, NEW silkDtx
  PROVE  LET first == ChosenMode(in, units, rate, voiceEst, silkDtx)
         IN  first \in Modes /\ (units < 4 => first = "celt")
<1> DEFINE threshold == ModeThreshold(IF Channels = 2 /\ opt.force # 1 THEN in.width ELSE 0,
                                      voiceEst, Application, enc.prevMode)
           wants == WantsSilk(opt.fec, opt.loss, voiceEst, silkDtx)
           free == SelectedMode(rate, threshold, wants, in.bytes, units)
           asked == CASE Application = "lowdelay" -> "celt"
                      [] Application # "lowdelay" /\ opt.forced # "auto" -> opt.forced
                      [] OTHER -> free
<1>1. free \in Modes
  <2> HIDE DEF threshold, wants
  <2>1. QED
    BY DEF SelectedMode, Modes
<1>2. ChosenMode(in, units, rate, voiceEst, silkDtx) = IF units < 4 THEN "celt" ELSE asked
  BY DEF ChosenMode
<1> HIDE DEF free
<1>3. asked \in Modes
  BY <1>1, OptLemma DEF Modes
<1> HIDE DEF asked
<1>4. QED
  BY <1>2, <1>3 DEF Modes

\* Whatever the signal, the settings and the memory are, the decision is for a mode
\* that has the bandwidth, within the limits; a fade to mono is decided only where
\* the caller has not set two channels.
LEMMA DecisionLemma ==
  ASSUME OptTypes, enc \in Structs, NEW in \in Calls, NEW units \in FrameDurations
  PROVE  LET d == Decision(in, units)
         IN  /\ d \in Decisions
             /\ d.mode # "silk" => d.bandwidth \in ModeBandwidths(d.mode)
             /\ Within(d.mode, d.bandwidth)
             /\ units < 4 => d.mode = "celt"
             /\ d.toMono => opt.force \in {OpusAuto, 1}
<1> DEFINE bitrate  == BitRate(units, in.bytes)
           equiv(n, m) == EquivRate(bitrate, n, FrameRate(units), opt.vbr, m, Complexity, opt.loss)
           ratio    == VoiceRatio(in)
           voiceEst == VoiceEstimate(opt.signal, ratio, Application)
           silkDtx  == opt.dtx /\ ~(Valid(in) \/ in.silent)
           count    == StreamChannels(opt.force, enc.streamChannels, equiv(Channels, "none"), voiceEst)
           first    == ChosenMode(in, units, equiv(count, "none"), voiceEst, silkDtx)
           mode     == IF Defers(first, units) THEN enc.prevMode ELSE first
           toMono   == FadesToMono(count, mode)
           channels == IF toMono THEN 2 ELSE count
           rate     == equiv(channels, mode)
           auto     == AutoBandwidth(rate, voiceEst, enc.first, enc.autoBandwidth)
           opened   == IF ~enc.first /\ mode # "celt" /\ ~enc.inWb THEN Least(auto, Wide) ELSE auto
           base     == IF ReopensBandwidth(mode) THEN opened ELSE enc.bandwidth
           detected == IF Valid(in) THEN in.detected ELSE OpusAuto
           limited  == Limited(base, opt.maximum, opt.user, mode, FrameRate(units) * in.bytes * 8,
                               detected, rate, channels)
           fec      == DecideFec(opt.fec, opt.loss, enc.fec, mode, limited, rate)
           b        == IF mode = "celt" /\ fec.bandwidth = Medium THEN Wide ELSE fec.bandwidth
           kept     == IF ReopensBandwidth(mode) THEN auto ELSE enc.autoBandwidth
<1>1. Decision(in, units)
        = [mode |-> WithCelt(mode, b), bandwidth |-> b, channels |-> channels,
           toMono |-> toMono, fec |-> fec.fec, silkDtx |-> silkDtx, ratio |-> ratio,
           auto |-> kept, toCelt |-> Defers(first, units),
           redundancy |-> Crosses(first) /\ (first = "celt" => units >= 4),
           prefill |-> mode # "celt" /\ enc.prevMode = "celt", bitrate |-> bitrate]
  BY DEF Decision
<1>2. bitrate \in Int
  <2>2. in.bytes \in Int
    BY InputLemma
  <2> HIDE DEF bitrate
  <2>9. BitRate(units, in.bytes) \in Int
    <3> DEFINE bytes == in.bytes
    <3>1. bytes \in Int
      BY <2>2
    <3> HIDE DEF bytes
    <3>2. BitRate(units, bytes) \in Int
      BY <3>1, BitRateLemma
    <3>3. QED
      BY <3>2 DEF bytes
  <2>3. QED
    BY <2>9 DEF bitrate
<1>3. ratio \in -1..100
  BY RatioLemma
<1>4. silkDtx \in BOOLEAN
  OBVIOUS
<1>5. count \in 1..Channels /\ (Channels = 2 /\ opt.force # OpusAuto => count = opt.force)
  BY CountLemma
<1>6. first \in Modes /\ (units < 4 => first = "celt")
  BY ModeLemma
<1> HIDE DEF bitrate, ratio, voiceEst, silkDtx, count, first
<1>7. /\ mode \in Modes /\ (units < 4 => mode = "celt")
      /\ Defers(first, units) \in BOOLEAN /\ Crosses(first) \in BOOLEAN
  BY <1>6, StructLemma DEF Defers, Crosses, Modes, FrameDurations
<1> HIDE DEF mode
<1>8. /\ toMono \in BOOLEAN
      /\ toMono => count = 1 /\ enc.prevChannels = 2
  BY DEF FadesToMono
<1>9. toMono => Channels = 2
  BY <1>8, StructLemma, ChannelsAssumption
<1> HIDE DEF toMono
<1>10. channels \in 1..Channels
  BY <1>5, <1>9, ChannelsAssumption
<1>11. toMono => opt.force \in {OpusAuto, 1}
  BY <1>5, <1>8, <1>9
<1> HIDE DEF channels, equiv, rate
<1>12. auto \in Bandwidths
  BY AutoBandwidthLemma
<1> HIDE DEF auto
<1>13. opened \in Bandwidths
  BY <1>12 DEF Least, Bandwidths, Narrow, Wide, Full
<1> HIDE DEF opened
<1>14. base \in Bandwidths /\ kept \in 0..Full
  BY <1>12, <1>13, StructLemma DEF Bandwidths, Narrow, Full
<1>15. detected \in {OpusAuto} \cup Bandwidths
  BY InputLemma
<1> HIDE DEF base, kept, detected
<1>16. limited \in Bandwidths /\ limited <= AllowedBandwidth
  BY <1>14, <1>15, LimitedLemma
<1> HIDE DEF limited
<1>17. fec.fec \in BOOLEAN /\ fec.bandwidth \in Bandwidths /\ fec.bandwidth <= limited
  BY <1>16, OptLemma, FecLemma
<1> HIDE DEF fec
<1>18. AllowedBandwidth \in Int
  BY OptLemma, FsAssumption
  DEF AllowedBandwidth, FsLimit, Least, Bandwidths, Narrow, Medium, Wide, SuperWide, Full, OpusAuto
<1>19. b \in Bandwidths /\ (mode = "celt" => b # Medium)
  BY <1>17 DEF Bandwidths, Narrow, Medium, Wide, Full
<1>20. Within(mode, b)
  BY <1>16, <1>17, <1>18 DEF Within, Bandwidths, Narrow, Medium, Wide, Full
<1> HIDE DEF b
<1>21. /\ WithCelt(mode, b) \in Modes /\ (WithCelt(mode, b) = "celt" <=> mode = "celt")
       /\ WithCelt(mode, b) = "hybrid" => b > Wide
  BY <1>7 DEF WithCelt, Modes
<1>22. WithCelt(mode, b) # "silk" => b \in ModeBandwidths(WithCelt(mode, b))
  BY <1>19, <1>21 DEF ModeBandwidths, Modes, Bandwidths, Narrow, Medium, Wide, SuperWide, Full
<1>23. Within(WithCelt(mode, b), b)
  BY <1>20, <1>21 DEF Within
<1>24. (mode # "celt" /\ enc.prevMode = "celt") \in BOOLEAN
       /\ (Crosses(first) /\ (first = "celt" => units >= 4)) \in BOOLEAN
  OBVIOUS
<1> DEFINE m == WithCelt(mode, b)
           dfr == Defers(first, units)
           redundant == Crosses(first) /\ (first = "celt" => units >= 4)
           pre == mode # "celt" /\ enc.prevMode = "celt"
           f1 == fec.fec
<1>25. m \in Modes /\ dfr \in BOOLEAN /\ redundant \in BOOLEAN /\ pre \in BOOLEAN /\ f1 \in BOOLEAN
  BY <1>7, <1>17, <1>21
<1> HIDE DEF m, dfr, redundant, pre, f1
<1>26. /\ channels \in StreamCounts /\ ratio \in VoiceRatios /\ kept \in PriorBandwidths
       /\ toMono \in Flags /\ f1 \in Flags /\ silkDtx \in Flags /\ dfr \in Flags
       /\ redundant \in Flags /\ pre \in Flags
  BY <1>3, <1>4, <1>8, <1>10, <1>14, <1>25
  DEF StreamCounts, VoiceRatios, PriorBandwidths, Flags
<1>29. [mode |-> m, bandwidth |-> b, channels |-> channels,
        toMono |-> toMono, fec |-> f1, silkDtx |-> silkDtx, ratio |-> ratio,
        auto |-> kept, toCelt |-> dfr, redundancy |-> redundant, prefill |-> pre, bitrate |-> bitrate]
         \in Decisions
  BY <1>2, <1>19, <1>25, <1>26 DEF Decisions
<1>27. Decision(in, units) \in Decisions
  BY <1>1, <1>29 DEF m, dfr, redundant, pre, f1
<1>28. QED
  BY <1>1, <1>7, <1>11, <1>21, <1>22, <1>23, <1>27, SMTT(30)

\* The rate SILK runs at gives a bandwidth that is allowed, whether it is the one
\* it ran at before or not.
LEMMA SilkFsLemma ==
  ASSUME OptTypes, NEW fs \in {0, 8, 12, 16}, NEW b \in Bandwidths, b <= AllowedBandwidth
  PROVE  LET r == SilkFs(fs, DesiredSilkFs(b), 8, MaxSilkFs)
         IN  /\ r \in {8, 12, 16} /\ SilkBandwidth(r) \in {Narrow, Medium, Wide}
             /\ SilkBandwidth(r) <= AllowedBandwidth
<1> DEFINE limit == IF opt.user = OpusAuto THEN opt.maximum ELSE opt.user
           lo == 8
           hi == MaxSilkFs
           desired == DesiredSilkFs(b)
           api == Fs \div 1000
<1>1. limit \in 1..5
  BY OptLemma DEF Bandwidths, Narrow, Full, OpusAuto
<1>2. AllowedBandwidth = Least(limit, FsLimit)
  BY DEF AllowedBandwidth
<1>3. hi = CASE limit = Narrow -> 8 [] limit = Medium -> 12 [] OTHER -> 16
  BY DEF MaxSilkFs
<1>4. b \in 1..5
  BY DEF Bandwidths, Narrow, Full
<1> HIDE DEF limit, hi
<1>5. hi \in {8, 12, 16} /\ (limit = 1 => hi = 8) /\ (limit = 2 => hi = 12) /\ (limit >= 3 => hi = 16)
  BY <1>1, <1>3 DEF Narrow, Medium
<1>6. /\ desired \in {8, 12, 16} /\ (desired = 16 => b >= 3) /\ (desired = 12 => b = 2)
  BY <1>4 DEF DesiredSilkFs, Narrow, Medium
<1>7. /\ api \in {8, 12, 16, 24, 48} /\ FsLimit \in 1..5
      /\ Fs = 1000 * api
      /\ (api = 8 => FsLimit = 1) /\ (api = 12 => FsLimit = 2) /\ (api >= 16 => FsLimit >= 3)
  BY FsAssumption DEF FsLimit, Narrow, Medium, Wide, SuperWide, Full
<1> HIDE DEF desired, api
<1>8. AllowedBandwidth \in 1..5 /\ (AllowedBandwidth = limit \/ AllowedBandwidth = FsLimit)
      /\ AllowedBandwidth <= limit /\ AllowedBandwidth <= FsLimit
  BY <1>1, <1>2, <1>7 DEF Least
<1> DEFINE r == SilkFs(fs, desired, lo, hi)
<1>9. r = CASE fs = 0 -> Least(desired, api)
            [] fs # 0 /\ fs * 1000 <= Fs /\ fs \in lo..hi -> fs
            [] OTHER -> Most(Least(api, hi), lo)
  BY DEF SilkFs, api
<1> HIDE DEF r
<1>10. /\ r \in {8, 12, 16}
       /\ r = 16 => AllowedBandwidth >= 3
       /\ r = 12 => AllowedBandwidth >= 2
  <2>7. CASE fs = 0
    <3>1. r = Least(desired, api)
      BY <1>9, <2>7
    <3>2. r \in {8, 12, 16} /\ (r = 16 => AllowedBandwidth >= 3) /\ (r = 12 => AllowedBandwidth >= 2)
      BY <3>1, <1>4, <1>6, <1>7, <1>8 DEF Least
    <3>3. QED
      BY <3>2
  <2>8. CASE fs # 0 /\ fs * 1000 <= Fs /\ fs \in lo..hi
    <3>1. r = fs
      BY <1>9, <2>8
    <3>2. r \in {8, 12, 16} /\ (r = 16 => AllowedBandwidth >= 3) /\ (r = 12 => AllowedBandwidth >= 2)
      BY <3>1, <1>1, <1>5, <1>7, <1>8, <2>8
    <3>3. QED
      BY <3>2
  <2>9. CASE fs # 0 /\ ~(fs * 1000 <= Fs /\ fs \in lo..hi)
    <3>1. r = Most(Least(api, hi), lo)
      BY <1>9, <2>9
    <3>2. r \in {8, 12, 16} /\ (r = 16 => AllowedBandwidth >= 3) /\ (r = 12 => AllowedBandwidth >= 2)
      BY <3>1, <1>1, <1>5, <1>7, <1>8 DEF Least, Most
    <3>3. QED
      BY <3>2
  <2>10. QED
    BY <2>7, <2>8, <2>9
<1>11. /\ SilkBandwidth(r) \in {Narrow, Medium, Wide}
       /\ SilkBandwidth(r) <= AllowedBandwidth
  BY <1>8, <1>10 DEF SilkBandwidth, Narrow, Medium, Wide
<1>12. QED
  BY <1>10, <1>11 DEF r, desired, hi

\* A packet is split into frames its mode has, as long together as the packet.
LEMMA CodedLemma ==
  ASSUME NEW mode \in Modes, NEW units \in FrameDurations, units < 4 => mode = "celt"
  PROVE  LET coded == CodedSize(mode, units)
         IN  /\ coded \in ModeSizes(mode) /\ coded \in Nat /\ units \div coded \in Nat
             /\ units \div coded > 0 /\ coded * (units \div coded) = units
<1>1. CASE mode = "silk"
  <2>1. units \in {4, 8, 16, 24, 32, 40, 48}
    BY <1>1 DEF FrameDurations
  <2>2. CodedSize(mode, units) = CASE units <= 24 -> units [] units = 32 -> 16
                                   [] units = 48 -> 24 [] OTHER -> 8
    BY <1>1, <2>1 DEF CodedSize
  <2> DEFINE coded == CodedSize(mode, units)
  <2>3. \/ units = 4 /\ coded = 4
        \/ units = 8 /\ coded = 8
        \/ units = 16 /\ coded = 16
        \/ units = 24 /\ coded = 24
        \/ units = 32 /\ coded = 16
        \/ units = 40 /\ coded = 8
        \/ units = 48 /\ coded = 24
    BY <2>1, <2>2
  <2> HIDE DEF coded
  <2>4. /\ coded \in {4, 8, 16, 24} /\ units \div coded \in Nat
        /\ units \div coded > 0 /\ coded * (units \div coded) = units
    BY <2>3
  <2>5. QED
    BY <1>1, <2>4 DEF ModeSizes, coded
<1>2. CASE mode = "hybrid"
  <2>1. CodedSize(mode, units) = IF units <= 8 THEN units ELSE 8
    BY <1>2 DEF CodedSize
  <2>2. units \in {4, 8, 16, 24, 32, 40, 48}
    BY <1>2 DEF FrameDurations
  <2>3. QED
    BY <1>2, <2>1, <2>2 DEF ModeSizes
<1>3. CASE mode = "celt"
  <2>1. CodedSize(mode, units) = IF units <= 8 THEN units ELSE 8
    BY <1>3 DEF CodedSize
  <2>2. QED
    BY <1>3, <2>1 DEF ModeSizes, FrameDurations
<1>4. QED
  BY <1>1, <1>2, <1>3 DEF Modes

\* The fields of a decision and of the call in progress.
LEMMA DecisionFields ==
  ASSUME NEW d \in Decisions
  PROVE  /\ d.mode \in Modes /\ d.bandwidth \in Bandwidths /\ d.channels \in 1..Channels
         /\ d.toMono \in BOOLEAN /\ d.fec \in BOOLEAN /\ d.silkDtx \in BOOLEAN
         /\ d.ratio \in -1..100 /\ d.auto \in 0..Full /\ d.toCelt \in BOOLEAN
         /\ d.redundancy \in BOOLEAN /\ d.prefill \in BOOLEAN /\ d.bitrate \in Int
<1>1. /\ d.mode \in Modes /\ d.bandwidth \in Bandwidths /\ d.channels \in StreamCounts
      /\ d.toMono \in Flags /\ d.fec \in Flags /\ d.silkDtx \in Flags
      /\ d.ratio \in VoiceRatios /\ d.auto \in PriorBandwidths /\ d.toCelt \in Flags
      /\ d.redundancy \in Flags /\ d.prefill \in Flags /\ d.bitrate \in Int
  BY DEF Decisions
<1>2. QED
  BY <1>1 DEF Flags, StreamCounts, VoiceRatios, PriorBandwidths

\* The fields of the call in progress, and the frames its packet is split into.
LEMMA CallLemma ==
  ASSUME TheCall, call.busy
  PROVE  /\ call.in \in Calls /\ call.valid \in BOOLEAN /\ call.d \in Decisions
         /\ call.frames \in Nat /\ call.coded \in Nat /\ call.total \in Int
         /\ call.retry \in BOOLEAN /\ call.done \in Seq(CodedFrames)
         /\ call.left \in 1..call.frames /\ Len(call.done) = call.frames - call.left
         /\ call.coded \in ModeSizes(ModeNow) /\ ModeNow \in Modes
         /\ call.coded \in {1, 2, 4, 8, 16, 24}
<1>1. call \in CallRecords
  BY DEF TheCall
<1>2. /\ call.in \in Calls /\ call.valid \in BOOLEAN /\ call.d \in Decisions
      /\ call.frames \in Nat /\ call.coded \in Nat /\ call.total \in Int
      /\ call.retry \in BOOLEAN /\ call.done \in Seq(CodedFrames)
  BY <1>1 DEF CallRecords, Flags
<1>3. call.coded \in ModeSizes(ModeNow) /\ ModeNow \in Modes
  BY <1>2, DecisionFields DEF TheCall, ModeNow
<1>4. call.coded \in {1, 2, 4, 8, 16, 24}
  BY <1>3 DEF ModeSizes
<1>5. QED
  BY <1>2, <1>3, <1>4 DEF TheCall

\* The bandwidth a frame is coded in is one of its mode's, and allowed.
LEMMA FrameBandwidthLemma ==
  ASSUME OptTypes, enc \in Structs, TheCall, call.busy
  PROVE  /\ SilkFsNow \in {8, 12, 16} /\ FrameBandwidth \in Bandwidths
         /\ FrameBandwidth \in ModeBandwidths(ModeNow) /\ Within(ModeNow, FrameBandwidth)
<1>1. /\ call.d.bandwidth \in Bandwidths /\ ModeNow \in Modes
      /\ ModeNow # "silk" => call.d.bandwidth \in ModeBandwidths(ModeNow)
      /\ Within(ModeNow, call.d.bandwidth)
  BY CallLemma, DecisionFields DEF TheCall, ModeNow
<1>2. CASE ModeNow = "silk"
  <2>1. call.d.bandwidth <= AllowedBandwidth
    BY <1>1, <1>2 DEF Within
  <2>2. enc.silkFs \in {0, 8, 12, 16}
    BY StructLemma
  <2>3. SilkFsNow = SilkFs(enc.silkFs, DesiredSilkFs(call.d.bandwidth), 8, MaxSilkFs)
    BY <1>2 DEF SilkFsNow
  <2>4. /\ SilkFsNow \in {8, 12, 16} /\ SilkBandwidth(SilkFsNow) \in {Narrow, Medium, Wide}
        /\ SilkBandwidth(SilkFsNow) <= AllowedBandwidth
    BY <1>1, <2>1, <2>2, <2>3, SilkFsLemma
  <2>5. FrameBandwidth = SilkBandwidth(SilkFsNow)
    BY <1>2 DEF FrameBandwidth
  <2>6. QED
    BY <1>2, <2>4, <2>5
    DEF ModeBandwidths, Within, Bandwidths, Narrow, Medium, Wide, Full
<1>3. CASE ModeNow # "silk"
  <2>1. FrameBandwidth = call.d.bandwidth
    BY <1>3 DEF FrameBandwidth
  <2>2. SilkFsNow \in {8, 12, 16}
    <3>1. CASE ModeNow = "hybrid"
      BY <3>1 DEF SilkFsNow
    <3>2. CASE ModeNow = "celt"
      <4> DEFINE fs == enc.silkFs
                 desired == DesiredSilkFs(call.d.bandwidth)
                 lo == 8
                 hi == MaxSilkFs
                 api == Fs \div 1000
      <4>1. SilkFsNow = SilkFs(fs, desired, lo, hi)
        BY <3>2 DEF SilkFsNow
      <4>2. desired \in {8, 12, 16} /\ hi \in {8, 12, 16}
        BY DEF DesiredSilkFs, MaxSilkFs
      <4>3. api \in {8, 12, 16, 24, 48} /\ fs \in {0, 8, 12, 16}
        BY FsAssumption, StructLemma
      <4> HIDE DEF desired, hi, fs
      <4>4. SilkFs(fs, desired, lo, hi) \in {Least(desired, api), fs, Most(Least(api, hi), lo)}
            /\ (SilkFs(fs, desired, lo, hi) = fs => fs # 0 \/ fs = Least(desired, api)
                                                 \/ fs = Most(Least(api, hi), lo))
        BY DEF SilkFs
      <4> HIDE DEF api
      <4>5. QED
        BY <4>1, <4>2, <4>3, <4>4 DEF Least, Most
    <3>3. QED
      BY <1>1, <1>3, <3>1, <3>2 DEF Modes
  <2>3. QED
    BY <1>1, <1>3, <2>1, <2>2
<1>4. QED
  BY <1>2, <1>3

\* What the coders leave of the struct is a struct.
LEMMA DecidedLemma ==
  ASSUME enc \in Structs, NEW d \in Decisions
  PROVE  /\ Decided(d) \in Structs /\ Decided(d).counter = enc.counter
         /\ Decided(d).silkCounter \in {0, enc.silkCounter}
         /\ d.prefill => Decided(d).silkCounter = 0
<1>1. /\ d.bandwidth \in Bandwidths /\ d.channels \in StreamCounts /\ d.toMono \in Flags
      /\ d.fec \in Flags /\ d.silkDtx \in Flags /\ d.ratio \in VoiceRatios
      /\ d.auto \in PriorBandwidths
  BY DEF Decisions
<1> DEFINE fs == IF d.prefill THEN 0 ELSE enc.silkFs
           counter == IF d.prefill THEN 0 ELSE enc.silkCounter
<1>2. fs \in SilkRates /\ counter \in SilkCounts
  BY StructLemma DEF SilkRates, SilkCounts
<1>3. Decided(d) = [enc EXCEPT !.streamChannels = d.channels, !.toMono = d.toMono,
                      !.fec = d.fec, !.silkDtx = d.silkDtx, !.ratio = d.ratio,
                      !.bandwidth = d.bandwidth, !.autoBandwidth = d.auto,
                      !.silkFs = fs, !.silkCounter = counter]
  BY DEF Decided, Structs
<1> DEFINE c == d.channels
           t == d.toMono
           f == d.fec
           s == d.silkDtx
           r == d.ratio
           b == d.bandwidth
           a == d.auto
<1>4. Decided(d) = [enc EXCEPT !.streamChannels = c, !.toMono = t, !.fec = f,
                      !.silkDtx = s, !.ratio = r, !.bandwidth = b, !.autoBandwidth = a,
                      !.silkFs = fs, !.silkCounter = counter]
  BY <1>3
<1>5. /\ c \in StreamCounts /\ t \in Flags /\ f \in Flags /\ s \in Flags
      /\ r \in VoiceRatios /\ b \in Bandwidths /\ a \in PriorBandwidths
  BY <1>1
<1> HIDE DEF fs, counter, c, t, f, s, r, b, a
<1>6. Decided(d) \in Structs
  <2> DEFINE e1 == [enc EXCEPT !.streamChannels = c, !.toMono = t, !.fec = f, !.silkDtx = s]
             e2 == [e1 EXCEPT !.ratio = r, !.bandwidth = b, !.autoBandwidth = a]
             e3 == [e2 EXCEPT !.silkFs = fs, !.silkCounter = counter]
  <2>1. Decided(d) = e3
    BY <1>4
  <2>2. e1 \in Structs
    BY <1>5 DEF Structs
  <2> HIDE DEF e1
  <2>3. e2 \in Structs
    BY <1>5, <2>2 DEF Structs
  <2> HIDE DEF e2
  <2>4. e3 \in Structs
    BY <1>2, <2>3 DEF Structs
  <2>5. QED
    BY <2>1, <2>4
<1>7. Decided(d).counter = enc.counter /\ Decided(d).silkCounter = counter
  BY <1>4 DEF Structs
<1>8. QED
  BY <1>6, <1>7 DEF counter

\* A fade to mono is put aside for the frames of a packet.
LEMMA InPacketLemma ==
  ASSUME enc \in Structs
  PROVE  /\ InPacket \in Structs /\ InPacket.counter = enc.counter
         /\ InPacket.silkCounter = enc.silkCounter
<1> DEFINE no == FALSE
<1>1. no \in Flags
  BY DEF Flags
<1>2. InPacket = IF call.frames > 1 THEN [enc EXCEPT !.toMono = no] ELSE enc
  BY DEF InPacket
<1> HIDE DEF no
<1>3. QED
  BY <1>1, <1>2 DEF Structs

\* SILK moves its counter and its rate, and leaves the encoder's own counter.
LEMMA WithSilkLemma ==
  ASSUME OptTypes, enc \in Structs, TheCall, call.busy, NEW e \in Structs, NEW allow \in BOOLEAN
  PROVE  /\ WithSilk(e, allow) \in Structs /\ WithSilk(e, allow).counter = e.counter
         /\ ModeNow # "celt" => WithSilk(e, allow).silkCounter = SilkRan.counter
         /\ ModeNow = "celt" => WithSilk(e, allow).silkCounter = e.silkCounter
         /\ SilkRan.counter \in 0..30
<1>1. SilkFsNow \in SilkRates
  BY FrameBandwidthLemma DEF SilkRates
<1>2. SilkRan.counter \in 0..30
  <2>1. (Active /\ call.in.voice) \in BOOLEAN
    BY DEF Active
  <2>2. (IF SilkRestarts THEN 0 ELSE enc.silkCounter) \in 0..30
    BY StructLemma
  <2>3. call.coded \in {1, 2, 4, 8, 16, 24}
    BY CallLemma
  <2>4. QED
    BY <2>1, <2>2, <2>3, SilkPacketLemma, ZenonT(60) DEF SilkRan
<1> DEFINE fs == SilkFsNow
           counter == SilkRan.counter
           wb == (fs = 16)
<1>3. WithSilk(e, allow) = IF ModeNow = "celt" THEN e
        ELSE [e EXCEPT !.silkFs = fs, !.silkCounter = counter, !.inWb = wb,
                       !.allowSwitch = allow, !.silkComplexity = Complexity]
  BY DEF WithSilk
<1>4. /\ wb \in Flags /\ allow \in Flags /\ Complexity \in Complexities
      /\ fs \in SilkRates /\ counter \in SilkCounts
  BY <1>1, <1>2, ComplexityAssumption DEF Flags, Complexities, SilkCounts
<1> HIDE DEF fs, counter, wb
<1>5. /\ WithSilk(e, allow) \in Structs /\ WithSilk(e, allow).counter = e.counter
      /\ ModeNow # "celt" => WithSilk(e, allow).silkCounter = counter
      /\ ModeNow = "celt" => WithSilk(e, allow).silkCounter = e.silkCounter
  BY <1>3, <1>4, ZenonT(60) DEF Structs
<1>6. QED
  BY <1>2, <1>5 DEF counter

\* The end of a frame leaves both counters, and the bandwidth it was coded in.
LEMMA FinishEncodeLemma ==
  ASSUME OptTypes, enc \in Structs, TheCall, call.busy, NEW e \in Structs, NEW b \in Bandwidths
  PROVE  LET f == FinishEncode(e, b)
         IN  /\ f \in Structs /\ f.bandwidth = b
             /\ f.counter = e.counter /\ f.silkCounter = e.silkCounter
<1> DEFINE mode == IF FrameToCelt THEN "celt" ELSE ModeNow
           channels == enc.streamChannels
           no == FALSE
<1>1. mode \in PriorModes /\ channels \in PriorChannels /\ no \in Flags
  BY CallLemma, StructLemma, ChannelsAssumption DEF Modes, PriorModes, PriorChannels, Flags
<1>2. FinishEncode(e, b) = [e EXCEPT !.prevMode = mode, !.prevChannels = channels,
                              !.bandwidth = b, !.first = no]
  BY DEF FinishEncode
<1> HIDE DEF mode, channels, no
<1>3. QED
  BY <1>1, <1>2 DEF Structs

\* The encoder's own transmission: the counter passes the threshold only while
\* nothing is sent.
LEMMA DtxLemma ==
  ASSUME enc \in Structs, TheCall, call.busy
  PROVE  /\ Dtx.quiet \in BOOLEAN /\ Dtx.counter \in 0..DtxUntil
         /\ Dtx.quiet => Dtx.counter = enc.counter + Duration /\ Dtx.counter > DtxAfter
         /\ ~Dtx.quiet => Dtx.counter <= DtxAfter
         /\ enc.silkDtx => Dtx.counter = 0
         /\ Duration \in 5..120
<1>1. Duration \in 5..120 /\ Duration \in Int
  <2> DEFINE coded == call.coded
  <2>1. coded \in {1, 2, 4, 8, 16, 24}
    BY CallLemma
  <2>2. Duration = 5 * coded
    BY DEF Duration
  <2> HIDE DEF coded
  <2>3. QED
    BY <2>1, <2>2
<1>2. enc.counter \in Nat
  <2>1. \A n \in 0..DtxUntil : n \in Nat
    BY DEF DtxUntil
  <2>2. QED
    BY <2>1, StructLemma
<1>3. CASE opt.dtx /\ ~enc.silkDtx
  <2> DEFINE next == enc.counter + Duration
  <2>1. next \in Int /\ next > 0
    BY <1>1, <1>2
  <2>2. Active \in BOOLEAN
    BY DEF Active
  <2>3. Dtx = CASE Active -> [quiet |-> FALSE, counter |-> 0]
                [] ~Active /\ next <= DtxAfter -> [quiet |-> FALSE, counter |-> next]
                [] ~Active /\ next > DtxAfter /\ next <= DtxUntil -> [quiet |-> TRUE, counter |-> next]
                [] OTHER -> [quiet |-> FALSE, counter |-> DtxAfter]
    BY <1>3 DEF Dtx, DecideDtx
  <2> HIDE DEF next
  <2>8. next \in Int /\ DtxAfter \in Int /\ DtxUntil \in Int
    BY <2>1 DEF DtxAfter, DtxUntil
  <2>4. CASE Active
    <3>1. Dtx = [quiet |-> FALSE, counter |-> 0]
      BY <2>3, <2>4
    <3>2. QED
      BY <1>1, <3>1 DEF DtxAfter, DtxUntil
  <2>5. CASE ~Active /\ next <= DtxAfter
    <3>4. ~(next > DtxAfter)
      BY <2>5, <2>8
    <3>1. Dtx = [quiet |-> FALSE, counter |-> next]
      BY <2>3, <2>5, <3>4
    <3>2. next \in 0..DtxUntil
      BY <2>1, <2>5 DEF DtxAfter, DtxUntil
    <3>3. QED
      BY <1>1, <1>3, <2>5, <3>1, <3>2
  <2>6. CASE ~Active /\ next > DtxAfter /\ next <= DtxUntil
    <3>1. Dtx = [quiet |-> TRUE, counter |-> next]
      BY <2>3, <2>6
    <3>2. next \in 0..DtxUntil
      BY <2>1, <2>6 DEF DtxUntil
    <3>3. QED
      BY <1>1, <1>3, <2>6, <3>1, <3>2 DEF next
  <2>7. CASE ~Active /\ next > DtxUntil
    <3>1. ~(next <= DtxAfter) /\ ~(next <= DtxUntil)
      BY <2>1, <2>7 DEF DtxAfter, DtxUntil
    <3>2. Dtx = [quiet |-> FALSE, counter |-> DtxAfter]
      BY <2>3, <2>7, <3>1
    <3>3. QED
      BY <1>1, <1>3, <3>2 DEF DtxAfter, DtxUntil
  <2>9. QED
    BY <2>2, <2>4, <2>5, <2>6, <2>7, <2>8
<1>4. CASE ~(opt.dtx /\ ~enc.silkDtx)
  <2>1. Dtx = [quiet |-> FALSE, counter |-> 0]
    BY <1>4 DEF Dtx
  <2>2. QED
    BY <1>1, <2>1 DEF DtxAfter, DtxUntil
<1>5. QED
  BY <1>3, <1>4

\* The lengths a frame may be given.
LEMMA AimedLemma ==
  ASSUME OptTypes, TheCall, call.busy
  PROVE  /\ Longest \in Int /\ Aimed \in Int /\ Least(Aimed, MaxFrameBytes) \in Int
         /\ FrameLengths \subseteq Int
<1>1. /\ call.in.bytes \in Int /\ call.frames \in Nat /\ call.total \in Int
      /\ call.left \in Nat /\ call.left > 0 /\ call.coded \in Nat /\ call.d.bitrate \in Int
  BY CallLemma, InputLemma, DecisionFields
<1>2. FramesBudget(call.frames, call.in.bytes) \in Int
  BY <1>1 DEF FramesBudget
<1>3. (FramesBudget(call.frames, call.in.bytes) - call.total) \div call.left \in Int
  BY <1>1, <1>2
<1>4. Longest \in Int
  BY <1>1, <1>3 DEF Longest
<1>5. (call.d.bitrate * call.coded) \div 3200 \in Int
  <2>1. call.d.bitrate * call.coded \in Int
    BY <1>1
  <2>2. QED
    BY <2>1
<1>6. Aimed \in Int
  BY <1>4, <1>5 DEF Aimed, Least
<1>7. QED
  BY <1>4, <1>6 DEF FrameLengths, Least, MaxFrameBytes

\* One more frame of the packet: the last one makes the packet, which lasts as
\* long as the call was asked for.
LEMMA EmitLemma ==
  ASSUME EncoderInv, call.busy, NEW frame \in CodedFrames, NEW bytes \in Int,
         NEW e \in Structs, e.bandwidth = FrameBandwidth, Emit(frame, bytes, e)
  PROVE  EncoderInv'
<1> DEFINE f == [frame EXCEPT !.bytes = bytes]
<1>1. f \in CodedFrames
  BY DEF CodedFrames
<1>2. /\ call \in CallRecords /\ call.done \in Seq(CodedFrames) /\ call.left \in 1..call.frames
      /\ Len(call.done) = call.frames - call.left /\ call.frames \in Nat /\ call.total \in Int
      /\ call.d \in Decisions
  BY CallLemma DEF EncoderInv, TheCall
<1>3. Append(call.done, f) \in Seq(CodedFrames) /\ Len(Append(call.done, f)) = call.frames - call.left + 1
  <2> DEFINE done == call.done
             n == call.frames - call.left
  <2>1. done \in Seq(CodedFrames) /\ Len(done) = n
    BY <1>2
  <2> HIDE DEF done, f, n
  <2>2. Append(done, f) \in Seq(CodedFrames) /\ Len(Append(done, f)) = n + 1
    BY <1>1, <2>1
  <2>3. QED
    BY <2>2 DEF done, n
<1>4. caller \in Callers /\ OptTypes /\ enc \in Structs /\ TheHistory /\ TheCall /\ call.busy
  BY DEF EncoderInv
<1>5. caller' = caller /\ opt' = opt
  BY DEF Emit
<1>6. OptTypes'
  BY <1>4, <1>5 DEF OptTypes
<1>7. AllowedBandwidth' = AllowedBandwidth
  BY <1>5 DEF AllowedBandwidth
<1>8. CASE LastFrame
  <2>1. /\ call' = [busy |-> FALSE, result |-> "ok"]
        /\ steady' = Saying([mode |-> ModeNow, bandwidth |-> e.bandwidth,
                             channels |-> enc.streamChannels])
        /\ enc' = IF call.frames > 1 THEN [e EXCEPT !.toMono = call.d.toMono] ELSE e
        /\ packet' = [mode |-> ModeNow, channels |-> enc.streamChannels,
                      size |-> call.coded, bandwidth |-> e.bandwidth,
                      frames |-> Append(call.done, f)]
    BY <1>8 DEF Emit, Return
  <2>2. call'.busy = FALSE
    BY <2>1
  <2>3. enc' \in Structs
    <3> DEFINE t == call.d.toMono
    <3>1. t \in Flags
      BY <1>2 DEF Decisions
    <3> HIDE DEF t
    <3>2. [e EXCEPT !.toMono = t] \in Structs
      BY <3>1 DEF Structs
    <3>3. QED
      BY <2>1, <3>2 DEF t
  <2>4. steady.any /\ steady.in = call.in
    BY <1>4 DEF TheCall
  <2>5. steady = [any |-> TRUE, in |-> steady.in, said |-> steady.said, left |-> steady.left]
    BY <1>4, <2>4 DEF TheHistory
  <2>6. /\ steady'.any = TRUE /\ steady'.in = call.in /\ TheHistory'
    <3> DEFINE i == steady.in
               sd == steady.said
               lf == steady.left
               said == [mode |-> ModeNow, bandwidth |-> e.bandwidth,
                        channels |-> enc.streamChannels]
               left == lf \cup ({sd} \ {said, Unsaid})
    <3>1. steady' = [[any |-> TRUE, in |-> i, said |-> sd, left |-> lf]
                       EXCEPT !.said = said, !.left = left]
      BY <2>1, <2>5 DEF Saying
    <3> HIDE DEF i, sd, lf, said, left
    <3>2. steady' = [any |-> TRUE, in |-> i, said |-> said, left |-> left]
      BY <3>1
    <3>3. steady'.any = TRUE /\ steady'.in = i
      BY <3>2
    <3>4. steady' = [any |-> TRUE, in |-> steady'.in, said |-> steady'.said, left |-> steady'.left]
      BY <3>2
    <3>5. QED
      BY <2>4, <3>3, <3>4 DEF TheHistory, i
  <2>7. TheCall'
    BY <2>2 DEF TheCall
  <2>8. /\ packet'.mode = ModeNow /\ packet'.size = call.coded
        /\ packet'.bandwidth = FrameBandwidth /\ packet'.channels = enc.streamChannels
        /\ packet'.frames = Append(call.done, f)
    <3> DEFINE m == ModeNow
               c == enc.streamChannels
               z == call.coded
               b == e.bandwidth
               q == Append(call.done, f)
    <3>1. packet' = [mode |-> m, channels |-> c, size |-> z, bandwidth |-> b, frames |-> q]
      BY <2>1
    <3> HIDE DEF m, c, z, b, q
    <3>2. QED
      BY <3>1 DEF m, c, z, b, q
  <2>9. Len(packet'.frames) = call.frames
    BY <1>2, <1>3, <1>8, <2>8 DEF LastFrame
  <2>10. /\ ModeNow \in Modes /\ call.coded \in ModeSizes(ModeNow)
         /\ FrameBandwidth \in ModeBandwidths(ModeNow) /\ Within(ModeNow, FrameBandwidth)
         /\ enc.streamChannels \in 1..Channels
    BY <1>4, CallLemma, FrameBandwidthLemma, StructLemma
  <2>11. Within(ModeNow, FrameBandwidth) = (Within(packet.mode, packet.bandwidth))'
    BY <1>7, <2>8 DEF Within
  <2>12. call.coded * call.frames = FrameSizeSelect(call.in.units, opt.expert)
    BY <1>4 DEF TheCall
  <2>13. packet'.size * Len(packet'.frames) = FrameSizeSelect(steady'.in.units, opt'.expert)
    BY <1>5, <2>6, <2>8, <2>9, <2>12
  <2>14. ThePacket'
    BY <1>3, <2>8, <2>10, <2>11, <2>13 DEF ThePacket
  <2>15. QED
    BY <1>4, <1>5, <1>6, <2>2, <2>3, <2>6, <2>7, <2>14 DEF EncoderInv
<1>9. CASE ~LastFrame
  <2>1. /\ call' = [call EXCEPT !.left = @ - 1, !.total = @ + bytes, !.retry = FALSE,
                                !.done = Append(@, f)]
        /\ enc' = e /\ packet' = packet /\ steady' = steady
    BY <1>9 DEF Emit
  <2> DEFINE l == call.left - 1
             t == call.total + bytes
             no == FALSE
             q == Append(call.done, f)
  <2>2. call' = [call EXCEPT !.left = l, !.total = t, !.retry = no, !.done = q]
    BY <2>1
  <2>3. l \in 1..call.frames /\ l \in Nat /\ t \in Int /\ no \in Flags
    BY <1>2, <1>9 DEF LastFrame, Flags
  <2>4. q \in Seq(CodedFrames) /\ Len(q) = call.frames - l
    BY <1>2, <1>3
  <2> HIDE DEF l, t, no, q
  <2>5. call' \in CallRecords
    BY <1>2, <2>2, <2>3, <2>4 DEF CallRecords
  <2>6. /\ call'.left = l /\ call'.done = q /\ call'.frames = call.frames /\ call'.d = call.d
        /\ call'.coded = call.coded /\ call'.in = call.in /\ call'.busy = call.busy
    BY <1>2, <2>2 DEF CallRecords
  <2>7. Within(call.d.mode, call.d.bandwidth) = (Within(call.d.mode, call.d.bandwidth))'
    BY <1>7, <2>6 DEF Within
  <2>8. TheCall'
    BY <1>4, <1>5, <2>1, <2>3, <2>4, <2>5, <2>6, <2>7 DEF TheCall
  <2>9. call'.busy
    BY <2>6
  <2>10. ThePacket'
    BY <2>9 DEF ThePacket, Sending
  <2>11. TheHistory'
    BY <1>4, <2>1 DEF TheHistory
  <2>12. QED
    BY <1>4, <1>5, <1>6, <2>1, <2>6, <2>8, <2>10, <2>11 DEF EncoderInv
<1>10. QED
  BY <1>8, <1>9

\* The whole encoder's transmission drops the bits of the frame, no more.
LEMMA FinishLemma ==
  ASSUME EncoderInv, call.busy, NEW frame \in CodedFrames, NEW bytes \in Int,
         NEW e \in Structs, e.bandwidth = FrameBandwidth, Finish(frame, bytes, e)
  PROVE  EncoderInv'
<1> DEFINE n == Dtx.counter
           counted == [e EXCEPT !.counter = n]
           none == "lost"
           lost == [frame EXCEPT !.bits = none]
<1>1. n \in DtxCounts
  BY DtxLemma DEF EncoderInv, DtxCounts
<1>2. counted \in Structs /\ counted.bandwidth = e.bandwidth
  <2> HIDE DEF n
  <2>1. QED
    BY <1>1 DEF Structs
<1>3. lost \in CodedFrames
  <2>1. none \in Payloads
    BY DEF Payloads
  <2> HIDE DEF none
  <2>2. QED
    BY <2>1 DEF CodedFrames
<1>4. Emit(lost, 1, counted) \/ Emit(frame, bytes, counted)
  BY DEF Finish
<1> HIDE DEF counted, lost
<1>5. CASE Emit(lost, 1, counted)
  BY <1>2, <1>3, <1>5, EmitLemma
<1>6. CASE Emit(frame, bytes, counted)
  BY <1>2, <1>6, EmitLemma
<1>7. QED
  BY <1>4, <1>5, <1>6

\* A frame and the struct it leaves.
LEMMA FrameLemma ==
  ASSUME TheCall, call.busy, NEW bits \in Payloads, NEW celt \in MemoryOps, NEW silk \in MemoryOps
  PROVE  FrameOf(bits, celt, silk) \in CodedFrames
<1> DEFINE again == call.retry
           none == 0
<1>1. again \in Flags /\ none \in Int
  BY CallLemma DEF Flags
<1>2. FrameOf(bits, celt, silk)
        = [bits |-> bits, bytes |-> none, celt |-> celt, silk |-> silk, again |-> again]
  BY DEF FrameOf
<1> HIDE DEF again, none
<1>3. QED
  BY <1>1, <1>2 DEF CodedFrames

\* What a frame may say of its payload and of the memories.
LEMMA OpsLemma == /\ SilkOp \in MemoryOps /\ CeltOp \in MemoryOps
                  /\ {"none", "on", "reset"} \subseteq MemoryOps
                  /\ {"lost", "plain", "silk_to_celt", "celt_to_silk"} \subseteq Payloads
BY DEF SilkOp, CeltOp, MemoryOps, Payloads

\* SILK is allowed to switch or not.
LEMMA SwitchLemma == SwitchPoints \subseteq BOOLEAN
BY DEF SwitchPoints

\* A coded frame leaves a struct with the bandwidth of the frame.
LEMMA CodedStructLemma ==
  ASSUME EncoderInv, call.busy, NEW e \in Structs
  PROVE  LET f == FinishEncode(e, FrameBandwidth)
         IN  f \in Structs /\ f.bandwidth = FrameBandwidth
<1>1. FrameBandwidth \in Bandwidths
  BY FrameBandwidthLemma DEF EncoderInv
<1>2. QED
  BY <1>1, FinishEncodeLemma DEF EncoderInv

\* A call that ends without a packet.
LEMMA FailLemma ==
  ASSUME EncoderInv, call'.busy = FALSE, enc' \in Structs, ~Sending',
         UNCHANGED <<caller, opt, steady>>
  PROVE  EncoderInv'
BY DEF EncoderInv, OptTypes, TheHistory, TheCall, ThePacket

\* A frame that is tried again is the same frame of the same call.
LEMMA FrameTooLongLemma ==
  ASSUME EncoderInv, FrameTooLong
  PROVE  EncoderInv'
<1>1. call.busy /\ OptTypes /\ enc \in Structs /\ TheCall /\ call \in CallRecords
  BY DEF FrameTooLong, Begun, EncoderInv, TheCall
<1>2. enc' \in Structs
  <2>1. PICK allow \in SwitchPoints : enc' = WithSilk(InPacket, allow)
    BY DEF FrameTooLong
  <2>2. QED
    BY <1>1, <2>1, SwitchLemma, InPacketLemma, WithSilkLemma
<1>3. ~Sending' /\ packet' = NoPacket
  BY DEF FrameTooLong, Sending, NoPacket
<1>4. UNCHANGED <<caller, opt, steady>>
  BY DEF FrameTooLong
<1>5. CASE Aimed < Longest
  <2> DEFINE yes == TRUE
  <2>1. call' = [call EXCEPT !.retry = yes]
    BY <1>5 DEF FrameTooLong
  <2>2. yes \in Flags
    BY DEF Flags
  <2> HIDE DEF yes
  <2>3. call' \in CallRecords
    BY <1>1, <2>1, <2>2 DEF CallRecords
  <2>4. /\ call'.left = call.left /\ call'.done = call.done /\ call'.frames = call.frames
        /\ call'.d = call.d /\ call'.coded = call.coded /\ call'.in = call.in
        /\ call'.busy = call.busy
    BY <1>1, <2>1 DEF CallRecords
  <2>5. AllowedBandwidth' = AllowedBandwidth
    BY <1>4 DEF AllowedBandwidth
  <2>6. Within(call.d.mode, call.d.bandwidth) = (Within(call.d.mode, call.d.bandwidth))'
    BY <2>4, <2>5 DEF Within
  <2>7. TheCall'
    BY <1>1, <1>3, <1>4, <2>3, <2>4, <2>6 DEF TheCall
  <2>8. QED
    BY <1>2, <1>3, <1>4, <2>4, <2>7 DEF EncoderInv, OptTypes, TheHistory, ThePacket
<1>6. CASE ~(Aimed < Longest)
  <2>1. call'.busy = FALSE
    BY <1>6 DEF FrameTooLong, Return
  <2>2. QED
    BY <1>2, <1>3, <1>4, <2>1, FailLemma
<1>7. QED
  BY <1>5, <1>6

\* The other steps of a call, each by the lemma on what it leaves.
LEMMA CeltStarvesLemma ==
  ASSUME EncoderInv, CeltStarves
  PROVE  EncoderInv'
<1>1. call.busy /\ OptTypes /\ enc \in Structs /\ TheCall
  BY DEF CeltStarves, Begun, EncoderInv
<1>2. enc' \in Structs
  <2>1. PICK allow \in SwitchPoints : enc' = WithSilk(InPacket, allow)
    BY DEF CeltStarves
  <2>2. QED
    BY <1>1, <2>1, SwitchLemma, InPacketLemma, WithSilkLemma
<1>3. ~Sending' /\ call'.busy = FALSE
  BY DEF CeltStarves, Sending, NoPacket, Return
<1>4. UNCHANGED <<caller, opt, steady>>
  BY DEF CeltStarves
<1>5. QED
  BY <1>2, <1>3, <1>4, FailLemma

LEMMA SkipFrameLemma ==
  ASSUME EncoderInv, SkipFrame
  PROVE  EncoderInv'
<1>1. call.busy /\ OptTypes /\ enc \in Structs /\ TheCall
  BY DEF SkipFrame, Begun, EncoderInv
<1>2. PICK allow \in SwitchPoints :
        Finish(FrameOf("lost", "none", SilkOp), 1,
               FinishEncode(WithSilk(InPacket, allow), FrameBandwidth))
  BY DEF SkipFrame
<1> DEFINE e == FinishEncode(WithSilk(InPacket, allow), FrameBandwidth)
           frame == FrameOf("lost", "none", SilkOp)
<1>3. WithSilk(InPacket, allow) \in Structs
  BY <1>1, SwitchLemma, InPacketLemma, WithSilkLemma
<1>4. e \in Structs /\ e.bandwidth = FrameBandwidth
  BY <1>1, <1>3, CodedStructLemma
<1>5. frame \in CodedFrames
  BY <1>1, OpsLemma, FrameLemma
<1> HIDE DEF e, frame
<1>6. Finish(frame, 1, e)
  BY <1>2 DEF e, frame
<1>7. QED
  BY <1>1, <1>4, <1>5, <1>6, FinishLemma

LEMMA SilkFrameLemma ==
  ASSUME EncoderInv, SilkFrame
  PROVE  EncoderInv'
<1>1. call.busy /\ OptTypes /\ enc \in Structs /\ TheCall
  BY DEF SilkFrame, Begun, EncoderInv
<1>2. PICK allow \in SwitchPoints, bytes \in FrameLengths :
        Finish(FrameOf("plain", "none", SilkOp), bytes,
               FinishEncode(WithSilk(InPacket, allow), FrameBandwidth))
  BY DEF SilkFrame
<1> DEFINE e == FinishEncode(WithSilk(InPacket, allow), FrameBandwidth)
           frame == FrameOf("plain", "none", SilkOp)
<1>3. WithSilk(InPacket, allow) \in Structs
  BY <1>1, SwitchLemma, InPacketLemma, WithSilkLemma
<1>4. e \in Structs /\ e.bandwidth = FrameBandwidth
  BY <1>1, <1>3, CodedStructLemma
<1>5. frame \in CodedFrames /\ bytes \in Int
  BY <1>1, OpsLemma, FrameLemma, AimedLemma
<1> HIDE DEF e, frame
<1>6. Finish(frame, bytes, e)
  BY <1>2 DEF e, frame
<1>7. QED
  BY <1>1, <1>4, <1>5, <1>6, FinishLemma

LEMMA CeltFrameLemma ==
  ASSUME EncoderInv, CeltFrame
  PROVE  EncoderInv'
<1>1. call.busy /\ OptTypes /\ enc \in Structs /\ TheCall
  BY DEF CeltFrame, Begun, EncoderInv
<1>2. PICK bytes \in FrameLengths :
        Finish(FrameOf("plain", "on", "none"), bytes, FinishEncode(InPacket, FrameBandwidth))
  BY DEF CeltFrame
<1> DEFINE e == FinishEncode(InPacket, FrameBandwidth)
           frame == FrameOf("plain", "on", "none")
<1>3. e \in Structs /\ e.bandwidth = FrameBandwidth
  BY <1>1, InPacketLemma, CodedStructLemma
<1>4. frame \in CodedFrames /\ bytes \in Int
  BY <1>1, OpsLemma, FrameLemma, AimedLemma
<1> HIDE DEF e, frame
<1>5. Finish(frame, bytes, e)
  BY <1>2 DEF e, frame
<1>6. QED
  BY <1>1, <1>3, <1>4, <1>5, FinishLemma

LEMMA HybridFrameLemma ==
  ASSUME EncoderInv, HybridFrame
  PROVE  EncoderInv'
<1>1. call.busy /\ OptTypes /\ enc \in Structs /\ TheCall
  BY DEF HybridFrame, Begun, EncoderInv
<1> DEFINE bitsIf(fits) == CASE ~fits \/ HybridRedundancy = 0 -> "plain"
                             [] fits /\ HybridRedundancy # 0 /\ FrameToCelt -> "silk_to_celt"
                             [] OTHER -> "celt_to_silk"
           celtIf(b) == IF b = "celt_to_silk" THEN "reset" ELSE CeltOp
<1>2. PICK allow \in SwitchPoints, bytes \in FrameLengths, fits \in BOOLEAN :
        Finish(FrameOf(bitsIf(fits), celtIf(bitsIf(fits)), SilkOp),
               bytes, FinishEncode(WithSilk(InPacket, allow), FrameBandwidth))
  BY DEF HybridFrame
<1> DEFINE e == FinishEncode(WithSilk(InPacket, allow), FrameBandwidth)
           bits == bitsIf(fits)
           celt == celtIf(bits)
           frame == FrameOf(bits, celt, SilkOp)
<1>3. WithSilk(InPacket, allow) \in Structs
  BY <1>1, SwitchLemma, InPacketLemma, WithSilkLemma
<1>4. e \in Structs /\ e.bandwidth = FrameBandwidth
  BY <1>1, <1>3, CodedStructLemma
<1>5. bits \in Payloads
  BY DEF Payloads
<1> HIDE DEF bits
<1>6. celt \in MemoryOps
  BY OpsLemma
<1> HIDE DEF celt
<1>7. frame \in CodedFrames /\ bytes \in Int
  BY <1>1, <1>5, <1>6, OpsLemma, FrameLemma, AimedLemma
<1> HIDE DEF e, frame
<1>8. Finish(frame, bytes, e)
  BY <1>2 DEF e, frame, bits, celt
<1>9. QED
  BY <1>1, <1>4, <1>7, <1>8, FinishLemma

LEMMA OutOfBytesLemma ==
  ASSUME EncoderInv, OutOfBytes
  PROVE  EncoderInv'
<1>1. call.busy /\ enc \in Structs /\ packet = NoPacket
  BY DEF OutOfBytes, EncoderInv, TheCall
<1>2. enc' \in Structs
  BY <1>1, InPacketLemma DEF OutOfBytes
<1>3. ~Sending' /\ call'.busy = FALSE
  BY <1>1 DEF OutOfBytes, Sending, NoPacket, Return
<1>4. UNCHANGED <<caller, opt, steady>>
  BY DEF OutOfBytes
<1>5. QED
  BY <1>2, <1>3, <1>4, FailLemma

LEMMA RefuseLemma ==
  ASSUME EncoderInv, NEW in \in Calls, Refuse(in)
  PROVE  EncoderInv'
<1>1. enc' \in Structs
  BY DEF Refuse, EncoderInv
<1>2. ~Sending' /\ call'.busy = FALSE
  BY DEF Refuse, Sending, NoPacket, Return
<1>3. UNCHANGED <<caller, opt, steady>>
  BY DEF Refuse
<1>4. QED
  BY <1>1, <1>2, <1>3, FailLemma

\* The durations a call may be taken for.
LEMMA SelectLemma ==
  ASSUME NEW asked, NEW expert
  PROVE  FrameSizeSelect(asked, expert) \in FrameDurations \cup {0}
BY DEF FrameSizeSelect

\* A call starts with a decision for the duration selected, and with the frames that
\* its mode has for it; the force of a permanent fade is one channel.
LEMMA BeginLemma ==
  ASSUME EncoderInv, NEW in \in Calls, Begin(in)
  PROVE  EncoderInv'
<1>1. caller \in Callers /\ OptTypes /\ enc \in Structs /\ TheHistory /\ ~call.busy
  BY DEF EncoderInv, Begin
<1> DEFINE units == FrameSizeSelect(in.units, opt.expert)
           d == Decision(in, units)
           coded == CodedSize(d.mode, units)
           frames == units \div coded
           split == [Decided(d) EXCEPT !.prevChannels = d.channels]
           valid == Valid(in)
<1>2. /\ units # 0 /\ packet' = NoPacket /\ steady' = Steadier(in)
      /\ UNCHANGED <<caller, quiet>>
      /\ \/ /\ enc' = Decided(d)
            /\ Return("BufferTooSmall")
            /\ UNCHANGED opt
         \/ /\ enc' = IF frames > 1 /\ ~d.toMono THEN split ELSE Decided(d)
            /\ opt' = IF frames > 1 /\ d.toMono THEN [opt EXCEPT !.force = 1] ELSE opt
            /\ call' = [busy |-> TRUE, result |-> "none", in |-> in, valid |-> valid, d |-> d,
                        frames |-> frames, coded |-> coded, left |-> frames, total |-> 0,
                        retry |-> FALSE, done |-> <<>>]
  BY DEF Begin
<1>3. units \in FrameDurations
  BY <1>2, SelectLemma
<1> HIDE DEF units
<1>4. /\ d \in Decisions /\ (d.mode # "silk" => d.bandwidth \in ModeBandwidths(d.mode))
      /\ Within(d.mode, d.bandwidth) /\ (units < 4 => d.mode = "celt")
  BY <1>1, <1>3, DecisionLemma
<1> HIDE DEF d
<1>5. d.mode \in Modes /\ d.channels \in PriorChannels
  BY <1>4, DecisionFields, ChannelsAssumption DEF PriorChannels
<1>6. /\ coded \in ModeSizes(d.mode) /\ coded \in Nat /\ frames \in Nat /\ frames > 0
      /\ coded * frames = units
  <2> DEFINE mode == d.mode
  <2>1. mode \in Modes /\ (units < 4 => mode = "celt")
    BY <1>4, <1>5
  <2> HIDE DEF mode
  <2>2. LET c == CodedSize(mode, units)
        IN  /\ c \in ModeSizes(mode) /\ c \in Nat /\ units \div c \in Nat
            /\ units \div c > 0 /\ c * (units \div c) = units
    BY <1>3, <2>1, CodedLemma
  <2>3. QED
    BY <2>2 DEF mode
<1> HIDE DEF coded, frames
<1>7. Decided(d) \in Structs /\ split \in Structs
  <2> DEFINE c == d.channels
  <2>1. Decided(d) \in Structs
    BY <1>1, <1>4, DecidedLemma
  <2>2. c \in PriorChannels
    BY <1>5
  <2> HIDE DEF c
  <2>3. [Decided(d) EXCEPT !.prevChannels = c] \in Structs
    BY <2>1, <2>2 DEF Structs
  <2>4. QED
    BY <2>1, <2>3 DEF c
<1> HIDE DEF split
<1>8. enc' \in Structs
  BY <1>2, <1>7
<1>9. steady'.any /\ steady'.any \in BOOLEAN /\ steady'.in = in /\ TheHistory'
  <2>1. CASE steady.any /\ steady.in = in
    <3>1. steady' = steady
      BY <1>2, <2>1 DEF Steadier
    <3>2. QED
      BY <1>1, <2>1, <3>1 DEF TheHistory
  <2>2. CASE ~(steady.any /\ steady.in = in)
    <3>1. steady' = [any |-> TRUE, in |-> in, said |-> Unsaid, left |-> {}]
      BY <1>2, <2>2 DEF Steadier
    <3> HIDE DEF Unsaid
    <3>2. steady'.any = TRUE /\ steady'.in = in /\ steady'.said = Unsaid /\ steady'.left = {}
      BY <3>1
    <3>3. QED
      BY <3>1, <3>2 DEF TheHistory
  <2>3. QED
    BY <2>1, <2>2
<1>10. ~Sending'
  BY <1>2 DEF Sending, NoPacket
<1>11. opt' = opt \/ opt' = [opt EXCEPT !.force = 1]
  BY <1>2
<1>12. OptTypes' /\ opt'.expert = opt.expert /\ opt'.user = opt.user /\ opt'.maximum = opt.maximum
  <2>1. CASE opt' = opt
    BY <1>1, <2>1 DEF OptTypes
  <2>2. CASE opt' = [opt EXCEPT !.force = 1]
    <3>1. opt = [f \in DOMAIN Settable |-> opt[f]] /\ \A f \in DOMAIN Settable : opt[f] \in Settable[f]
      BY <1>1 DEF OptTypes
    <3>2. /\ 1 \in Settable["force"]
          /\ {"force", "expert", "user", "maximum"} \subseteq DOMAIN Settable
      BY ChannelsAssumption DEF Settable
    <3> HIDE DEF Settable
    <3>3. opt' = [f \in DOMAIN Settable |-> IF f = "force" THEN 1 ELSE opt[f]]
      BY <2>2, <3>1, <3>2
    <3>4. QED
      BY <3>1, <3>2, <3>3 DEF OptTypes
  <2>3. QED
    BY <1>11, <2>1, <2>2
<1>13. AllowedBandwidth' = AllowedBandwidth
  BY <1>12 DEF AllowedBandwidth
<1>14. CASE Return("BufferTooSmall")
  <2>1. call'.busy = FALSE
    BY <1>14 DEF Return
  <2>2. QED
    BY <1>1, <1>2, <1>8, <1>9, <1>10, <1>12, <2>1 DEF EncoderInv, TheCall, ThePacket
<1>15. CASE call' = [busy |-> TRUE, result |-> "none", in |-> in, valid |-> valid, d |-> d,
                     frames |-> frames, coded |-> coded, left |-> frames, total |-> 0,
                     retry |-> FALSE, done |-> <<>>]
  <2> DEFINE yes == TRUE
             no == FALSE
             zero == 0
             empty == <<>>
             none == "none"
  <2>1. call' = [busy |-> yes, result |-> none, in |-> in, valid |-> valid, d |-> d,
                 frames |-> frames, coded |-> coded, left |-> frames, total |-> zero,
                 retry |-> no, done |-> empty]
    BY <1>15
  <2>2. /\ valid \in Flags /\ no \in Flags /\ yes \in {TRUE} /\ none \in {"none"}
        /\ zero \in Int
    BY DEF Valid, Flags
  <2>3. empty \in Seq(CodedFrames) /\ Len(empty) = 0
    OBVIOUS
  <2>4. yes = TRUE
    OBVIOUS
  <2> HIDE DEF yes, no, zero, empty, none, valid
  <2>5. call' \in CallRecords
    <3> DEFINE Y == {TRUE}
               R == {"none"}
    <3>1. CallRecords = [busy : Y, result : R, in : Calls, valid : Flags,
                         d : Decisions, frames : Nat, coded : Nat, left : Nat, total : Int,
                         retry : Flags, done : Seq(CodedFrames)]
      BY DEF CallRecords
    <3>2. yes \in Y /\ none \in R
      BY <2>2
    <3> HIDE DEF Y, R
    <3>3. QED
      BY <1>4, <1>6, <2>1, <2>2, <2>3, <3>1, <3>2
  <2>6. /\ call'.busy = yes /\ call'.in = in /\ call'.d = d /\ call'.frames = frames
        /\ call'.coded = coded /\ call'.left = frames /\ call'.done = empty
    BY <2>1
  <2>7. Within(d.mode, d.bandwidth) = (Within(call.d.mode, call.d.bandwidth))'
    BY <1>13, <2>6 DEF Within
  <2>8. call'.left \in 1..call'.frames /\ Len(call'.done) = call'.frames - call'.left
    BY <1>6, <2>3, <2>6
  <2>9. call'.coded * call'.frames = FrameSizeSelect(call'.in.units, opt'.expert)
    BY <1>6, <1>12, <2>6 DEF units
  <2>10. TheCall'
    BY <1>2, <1>4, <1>6, <1>9, <2>5, <2>6, <2>7, <2>8, <2>9 DEF TheCall
  <2>11. call'.busy \in BOOLEAN
    BY <2>4, <2>6
  <2>12. QED
    BY <1>1, <1>2, <1>8, <1>9, <1>10, <1>12, <2>10, <2>11 DEF EncoderInv, ThePacket
<1>16. QED
  BY <1>2, <1>14, <1>15

\* A setting is one that opus_encoder_ctl accepts; the packet before it is no longer
\* compared with the settings.
LEMMA CtlLemma ==
  ASSUME EncoderInv, NEW c \in Ctls[caller], Ctl(c)
  PROVE  EncoderInv'
<1>1. caller \in Callers /\ OptTypes /\ enc \in Structs /\ ~call.busy
  BY DEF EncoderInv, Ctl
<1> DEFINE field == c.field
           value == c.value
<1>2. field \in DOMAIN Settable /\ value \in Settable[field]
  BY <1>1, CtlsAssumption
<1>3. opt' = [opt EXCEPT ![field] = value] /\ steady'.any = FALSE
      /\ UNCHANGED <<caller, enc, call, packet>>
  BY DEF Ctl, NotSteady
<1> HIDE DEF field, value
<1>4. OptTypes'
  <2>1. opt = [f \in DOMAIN Settable |-> opt[f]] /\ \A f \in DOMAIN Settable : opt[f] \in Settable[f]
    BY <1>1 DEF OptTypes
  <2> HIDE DEF Settable
  <2>2. opt' = [f \in DOMAIN Settable |-> IF f = field THEN value ELSE opt[f]]
    BY <1>2, <1>3, <2>1
  <2>3. QED
    BY <1>2, <2>1, <2>2 DEF OptTypes
<1>5. TheHistory' /\ TheCall'
  BY <1>1, <1>3 DEF TheHistory, TheCall
<1>6. ThePacket'
  BY <1>3 DEF EncoderInv, ThePacket, Sending
<1>7. QED
  BY <1>1, <1>3, <1>4, <1>5, <1>6 DEF EncoderInv

\* The struct of a new encoder.
LEMMA FreshLemma == Fresh \in Structs
<1> DEFINE zero == 0
<1> DEFINE yes == TRUE
           no == FALSE
           none == "none"
           minus == -1
           nine == 9
           all == Channels
           full == Full
<1>1. Fresh = [prevMode |-> none, prevChannels |-> zero, streamChannels |-> all,
               bandwidth |-> full, autoBandwidth |-> zero, first |-> yes, fec |-> no,
               toMono |-> no, silkDtx |-> no, allowSwitch |-> no, inWb |-> no,
               silkFs |-> zero, silkCounter |-> zero, ratio |-> minus, counter |-> zero,
               silkComplexity |-> nine]
  BY DEF Fresh
<1>2. /\ none \in PriorModes /\ zero \in PriorChannels /\ all \in StreamCounts
      /\ full \in Bandwidths /\ zero \in PriorBandwidths /\ zero \in SilkRates
      /\ zero \in SilkCounts /\ minus \in VoiceRatios /\ zero \in DtxCounts
      /\ nine \in Complexities
  BY ChannelsAssumption DEF PriorModes, PriorChannels, StreamCounts, Bandwidths, Narrow, Full,
       PriorBandwidths, SilkRates, SilkCounts, VoiceRatios, DtxCounts, DtxUntil, Complexities
<1>3. yes \in Flags /\ no \in Flags
  BY DEF Flags
<1> HIDE DEF yes, no, none, minus, nine, all, full, zero
<1>4. QED
  BY <1>1, <1>2, <1>3 DEF Structs

\* A reset leaves the struct of a new encoder but for what outlives it.
LEMMA ResetLemma ==
  ASSUME EncoderInv, ResetState
  PROVE  EncoderInv'
<1> DEFINE fec == enc.fec
           mono == enc.toMono
           ratio == enc.ratio
           zero == 0
<1>1. Fresh \in Structs
  BY FreshLemma
<1>2. enc \in Structs /\ caller \in Callers /\ OptTypes
  BY DEF EncoderInv
<1>3. /\ fec \in Flags /\ mono \in Flags /\ ratio \in VoiceRatios /\ zero \in Complexities
  BY <1>2, StructLemma DEF Flags, VoiceRatios, Complexities
<1>4. /\ enc' = [Fresh EXCEPT !.fec = fec, !.toMono = mono, !.ratio = ratio,
                              !.silkComplexity = zero]
      /\ call'.busy = FALSE /\ steady'.any = FALSE /\ packet'.mode = "none"
      /\ UNCHANGED <<caller, opt>>
  BY DEF ResetState, NotSteady, NoPacket
<1> HIDE DEF fec, mono, ratio, zero
<1>5. enc' \in Structs
  <2> HIDE DEF Fresh
  <2>1. QED
    BY <1>1, <1>3, <1>4 DEF Structs
<1>6. TheHistory' /\ TheCall' /\ ThePacket'
  BY <1>4 DEF TheHistory, TheCall, ThePacket, Sending
<1>7. OptTypes'
  BY <1>2, <1>4 DEF OptTypes
<1>8. QED
  BY <1>2, <1>4, <1>5, <1>6, <1>7 DEF EncoderInv

\* The settings of a new encoder are settings.
LEMMA DefaultsLemma ==
  ASSUME opt = Defaults
  PROVE  OptTypes
<1>1. /\ OpusAuto \in Nat \cup {MaxRate} /\ 0 \in 0..100 /\ OpusAuto \in 0..Channels
      /\ OpusAuto \in {OpusAuto} \cup Bandwidths /\ Full \in Bandwidths
      /\ "auto" \in {"auto"} \cup Modes /\ "auto" \in {"auto", "voice", "music"}
      /\ OpusAuto \in {OpusAuto} \cup FrameDurations
  BY ChannelsAssumption DEF OpusAuto, Bandwidths, Narrow, Full
<1>2. TRUE \in BOOLEAN /\ FALSE \in BOOLEAN
  OBVIOUS
<1>3. DOMAIN opt = DOMAIN Settable
  BY DEF Defaults, Settable
<1>4. opt = [f \in DOMAIN Settable |-> opt[f]]
  <2>1. opt = [f \in DOMAIN opt |-> opt[f]]
    BY DEF Defaults
  <2>2. QED
    BY <1>3, <2>1
<1>5. \A f \in DOMAIN Settable : opt[f] \in Settable[f]
  <2>1. DOMAIN Settable = {"bitrate", "loss", "fec", "dtx", "force", "user", "maximum",
                           "forced", "vbr", "signal", "expert"}
    BY DEF Settable
  <2>2. opt["bitrate"] \in Settable["bitrate"] /\ opt["loss"] \in Settable["loss"]
    BY <1>1 DEF Defaults, Settable
  <2>3. opt["fec"] \in Settable["fec"] /\ opt["dtx"] \in Settable["dtx"]
        /\ opt["vbr"] \in Settable["vbr"]
    BY <1>2 DEF Defaults, Settable
  <2>4. opt["force"] \in Settable["force"] /\ opt["user"] \in Settable["user"]
        /\ opt["maximum"] \in Settable["maximum"]
    BY <1>1 DEF Defaults, Settable
  <2>5. opt["forced"] \in Settable["forced"] /\ opt["signal"] \in Settable["signal"]
        /\ opt["expert"] \in Settable["expert"]
    BY <1>1 DEF Defaults, Settable
  <2>6. QED
    BY <2>1, <2>2, <2>3, <2>4, <2>5
<1>6. QED
  BY <1>4, <1>5 DEF OptTypes

\* The invariant holds of a new encoder, and every step keeps it.
LEMMA InitLemma == Init => EncoderInv
<1> SUFFICES ASSUME Init PROVE EncoderInv
  OBVIOUS
<1>1. caller \in Callers /\ OptTypes /\ enc \in Structs
  BY DefaultsLemma, FreshLemma DEF Init, EncoderStart
<1>2. call.busy = FALSE /\ steady.any = FALSE /\ packet.mode = "none"
  BY DEF Init, EncoderStart, NotSteady, NoPacket
<1>3. QED
  BY <1>1, <1>2 DEF EncoderInv, TheHistory, TheCall, ThePacket, Sending

LEMMA NextLemma == EncoderInv /\ [Next]_vars => EncoderInv'
<1> SUFFICES ASSUME EncoderInv, [Next]_vars PROVE EncoderInv'
  OBVIOUS
<1>1. CASE Call
  <2>1. PICK in \in Inputs[caller] : Refuse(in) \/ Begin(in)
    BY <1>1 DEF Call
  <2>2. in \in Calls
    BY <2>1, InputsAssumption DEF EncoderInv
  <2>3. QED
    BY <2>1, <2>2, RefuseLemma, BeginLemma
<1>2. CASE Step
  BY <1>2, SkipFrameLemma, SilkFrameLemma, CeltFrameLemma, HybridFrameLemma,
     FrameTooLongLemma, CeltStarvesLemma, OutOfBytesLemma DEF Step
<1>3. CASE \E c \in Ctls[caller] : Ctl(c)
  BY <1>3, CtlLemma
<1>4. CASE ResetState
  BY <1>4, ResetLemma
<1>5. CASE UNCHANGED vars
  BY <1>5 DEF vars, EncoderInv, OptTypes, TheHistory, TheCall, ThePacket, Sending, Within,
              AllowedBandwidth
<1>6. QED
  BY <1>1, <1>2, <1>3, <1>4, <1>5 DEF Next

\* What the reader of a TOC byte makes of the one written for a packet.
LEMMA TocLemma ==
  ASSUME NEW mode \in Modes, NEW size \in ModeSizes(mode), NEW b \in ModeBandwidths(mode),
         NEW channels \in {1, 2}
  PROVE  LET toc == GenToc(mode, size, b, channels)
         IN  /\ Reader!FrameUnits(toc) = size /\ Reader!ModeOf(toc) = mode
             /\ Reader!BandwidthOf(toc) = b /\ Reader!ChannelsOf(toc) = channels
<1> DEFINE c == IF channels = 2 THEN 4 ELSE 0
           toc == GenToc(mode, size, b, channels)
<1>1. c \in {0, 4} /\ 1 + (c \div 4) = channels
  OBVIOUS
<1>2. Period(1) = 0 /\ Period(2) = 1 /\ Period(4) = 2 /\ Period(8) = 3 /\ Period(16) = 4
      /\ Period(24) = 5
  BY DEF Period
<1>3. CASE mode = "silk"
  <2> DEFINE p == IF size = 24 THEN 3 ELSE IF size = 16 THEN 2 ELSE IF size = 8 THEN 1 ELSE 0
  <2>1. size \in {4, 8, 16, 24} /\ b \in {1, 2, 3}
    BY <1>3 DEF ModeSizes, ModeBandwidths, Narrow, Medium, Wide
  <2>2. p \in 0..3 /\ Clamped(Period(size) - 2, 0, 3) = p /\ Clamped(b - Narrow, 0, 3) = b - 1
    BY <1>2, <2>1 DEF Clamped, Least, Most, Narrow
  <2>3. toc = (b - 1) * 32 + p * 8 + c
    BY <1>3, <2>1, <2>2 DEF GenToc
  <2>4. size = IF p = 3 THEN 24 ELSE IF p = 2 THEN 16 ELSE IF p = 1 THEN 8 ELSE 4
    BY <2>1
  <2> HIDE DEF toc, p, c
  <2>5. toc \in Int /\ toc < 96 /\ (toc \div 8) % 4 = p /\ (toc \div 32) % 4 = b - 1
        /\ (toc \div 4) % 2 = c \div 4 /\ toc >= 0 /\ toc % 128 = toc
    BY <1>1, <2>1, <2>2, <2>3
  <2>6. Reader!FrameUnits(toc) = IF p = 3 THEN 24 ELSE 4 * 2 ^ p
    BY <2>5 DEF Reader!FrameUnits
  <2>7. 2 ^ 0 = 1 /\ 2 ^ 1 = 2 /\ 2 ^ 2 = 4
    OBVIOUS
  <2>8. Reader!FrameUnits(toc) = size
    <3>1. CASE p = 0
      <4>1. 2 ^ p = 1
        BY <2>7, <3>1
      <4>2. QED
        BY <2>4, <2>6, <3>1, <4>1
    <3>2. CASE p = 1
      <4>1. 2 ^ p = 2
        BY <2>7, <3>2
      <4>2. QED
        BY <2>4, <2>6, <3>2, <4>1
    <3>3. CASE p = 2
      <4>1. 2 ^ p = 4
        BY <2>7, <3>3
      <4>2. QED
        BY <2>4, <2>6, <3>3, <4>1
    <3>4. CASE p = 3
      BY <2>4, <2>6, <3>4
    <3>5. QED
      BY <2>2, <3>1, <3>2, <3>3, <3>4
  <2>9. Reader!ModeOf(toc) = "silk"
    BY <2>5 DEF Reader!ModeOf
  <2>10. Reader!BandwidthOf(toc) = b
    BY <2>1, <2>5, <2>9 DEF Reader!BandwidthOf
  <2>11. Reader!ChannelsOf(toc) = channels
    BY <1>1, <2>5 DEF Reader!ChannelsOf
  <2>12. QED
    BY <1>3, <2>8, <2>9, <2>10, <2>11 DEF toc
<1>4. CASE mode = "hybrid"
  <2> DEFINE p == IF size = 8 THEN 1 ELSE 0
             h == IF b = 5 THEN 1 ELSE 0
  <2>1. size \in {4, 8} /\ b \in {4, 5}
    BY <1>4 DEF ModeSizes, ModeBandwidths, SuperWide, Full
  <2>2. p \in 0..1 /\ h \in 0..1 /\ Clamped(Period(size) - 2, 0, 3) = p
        /\ (IF b = Full THEN 16 ELSE 0) = h * 16
    BY <1>2, <2>1 DEF Clamped, Least, Most, Full
  <2>3. toc = 96 + h * 16 + p * 8 + c
    BY <1>4, <2>1, <2>2 DEF GenToc
  <2>4. size = (IF p = 1 THEN 8 ELSE 4) /\ b = 4 + h
    BY <2>1
  <2> HIDE DEF toc, p, c, h
  <2>5. toc \in Int /\ toc < 128 /\ toc >= 96 /\ toc % 128 >= 96 /\ (toc \div 8) % 4 = p + 2 * h
        /\ (toc \div 16) % 2 = h /\ (toc \div 4) % 2 = c \div 4
    BY <1>1, <2>1, <2>2, <2>3
  <2>6. (p + 2 * h) % 2 = p
    BY <2>2
  <2>7. Reader!FrameUnits(toc) = IF (p + 2 * h) % 2 = 1 THEN 8 ELSE 4
    BY <2>5 DEF Reader!FrameUnits
  <2>8. Reader!FrameUnits(toc) = size
    BY <2>2, <2>4, <2>6, <2>7
  <2>9. Reader!ModeOf(toc) = "hybrid"
    BY <2>5 DEF Reader!ModeOf
  <2>10. Reader!BandwidthOf(toc) = b
    BY <2>4, <2>5, <2>9 DEF Reader!BandwidthOf
  <2>11. Reader!ChannelsOf(toc) = channels
    BY <1>1, <2>5 DEF Reader!ChannelsOf
  <2>12. QED
    BY <1>4, <2>8, <2>9, <2>10, <2>11 DEF toc
<1>5. CASE mode = "celt"
  <2> DEFINE p == IF size = 8 THEN 3 ELSE IF size = 4 THEN 2 ELSE IF size = 2 THEN 1 ELSE 0
             w == IF b = 5 THEN 3 ELSE IF b = 4 THEN 2 ELSE IF b = 3 THEN 1 ELSE 0
  <2>1. size \in {1, 2, 4, 8} /\ b \in {1, 3, 4, 5}
    BY <1>5 DEF ModeSizes, ModeBandwidths, Narrow, Wide, SuperWide, Full
  <2>2. p \in 0..3 /\ w \in 0..3 /\ Clamped(Period(size), 0, 3) = p /\ Most(b - Medium, 0) = w
    BY <1>2, <2>1 DEF Clamped, Least, Most, Medium
  <2>3. toc = 128 + w * 32 + p * 8 + c
    BY <1>5, <2>1, <2>2 DEF GenToc
  <2>4. size = (IF p = 3 THEN 8 ELSE IF p = 2 THEN 4 ELSE IF p = 1 THEN 2 ELSE 1)
        /\ b = <<1, 3, 4, 5>>[w + 1]
    BY <2>1
  <2> HIDE DEF toc, p, c, w
  <2>5. toc \in Int /\ toc >= 128 /\ (toc \div 8) % 4 = p /\ (toc \div 32) % 4 = w
        /\ (toc \div 4) % 2 = c \div 4
    BY <1>1, <2>2, <2>3
  <2>6. Reader!FrameUnits(toc) = 2 ^ p
    BY <2>5 DEF Reader!FrameUnits
  <2>7. 2 ^ 0 = 1 /\ 2 ^ 1 = 2 /\ 2 ^ 2 = 4 /\ 2 ^ 3 = 8
    OBVIOUS
  <2>8. Reader!FrameUnits(toc) = size
    <3>1. CASE p = 0
      <4>1. 2 ^ p = 1
        BY <2>7, <3>1
      <4>2. QED
        BY <2>4, <2>6, <3>1, <4>1
    <3>2. CASE p = 1
      <4>1. 2 ^ p = 2
        BY <2>7, <3>2
      <4>2. QED
        BY <2>4, <2>6, <3>2, <4>1
    <3>3. CASE p = 2
      <4>1. 2 ^ p = 4
        BY <2>7, <3>3
      <4>2. QED
        BY <2>4, <2>6, <3>3, <4>1
    <3>4. CASE p = 3
      <4>1. 2 ^ p = 8
        BY <2>7, <3>4
      <4>2. QED
        BY <2>4, <2>6, <3>4, <4>1
    <3>5. QED
      BY <2>2, <3>1, <3>2, <3>3, <3>4
  <2>9. Reader!ModeOf(toc) = "celt"
    BY <2>5 DEF Reader!ModeOf
  <2>10. Reader!BandwidthOf(toc) = b
    BY <2>4, <2>5, <2>9 DEF Reader!BandwidthOf
  <2>11. Reader!ChannelsOf(toc) = channels
    BY <1>1, <2>5 DEF Reader!ChannelsOf
  <2>12. QED
    BY <1>5, <2>8, <2>9, <2>10, <2>11 DEF toc
<1>6. QED
  BY <1>3, <1>4, <1>5 DEF Modes

\* What the packet returned says of itself.
LEMMA SaidLemma ==
  ASSUME EncoderInv
  PROVE  TocTellsTheTruth /\ LastsAsAsked /\ NoWiderThanAllowed
<1> SUFFICES ASSUME Sending
             PROVE  TocTellsTheTruth /\ LastsAsAsked /\ NoWiderThanAllowed
  BY DEF TocTellsTheTruth, LastsAsAsked, NoWiderThanAllowed
<1> DEFINE mode == packet.mode
           size == packet.size
           b == packet.bandwidth
           channels == packet.channels
<1>1. /\ mode \in Modes /\ size \in ModeSizes(mode) /\ b \in ModeBandwidths(mode)
      /\ channels \in {1, 2}
  BY ChannelsAssumption DEF EncoderInv, ThePacket
<1>2. PacketToc = GenToc(mode, size, b, channels)
  BY DEF PacketToc
<1> HIDE DEF mode, size, b, channels
<1>3. /\ Reader!FrameUnits(PacketToc) = size /\ Reader!ModeOf(PacketToc) = mode
      /\ Reader!BandwidthOf(PacketToc) = b /\ Reader!ChannelsOf(PacketToc) = channels
  BY <1>1, <1>2, TocLemma
<1>4. TocTellsTheTruth
  BY <1>3 DEF TocTellsTheTruth, mode, b, channels
<1>5. LastsAsAsked
  BY <1>3 DEF LastsAsAsked, EncoderInv, ThePacket, size
<1>6. NoWiderThanAllowed
  BY DEF NoWiderThanAllowed, EncoderInv, ThePacket, Within
<1>7. QED
  BY <1>4, <1>5, <1>6

\* What a frame does to the counters of the two detectors and to the silence.
LEMMA EmitCounts ==
  ASSUME EncoderInv, call.busy, NEW frame \in CodedFrames, NEW bytes, NEW e \in Structs,
         Emit(frame, bytes, e)
  PROVE  /\ enc'.counter = e.counter /\ enc'.silkCounter = e.silkCounter
         /\ quiet' = IF frame.bits = "lost" THEN quiet + Duration ELSE 0
<1> DEFINE t == call.d.toMono
<1>1. enc' = [e EXCEPT !.toMono = t] \/ enc' = e
  BY DEF Emit
<1> HIDE DEF t
<1>2. enc'.counter = e.counter /\ enc'.silkCounter = e.silkCounter
  BY <1>1 DEF Structs
<1>3. QED
  BY <1>2 DEF Emit

\* The same, once the whole encoder's transmission has had its say.
LEMMA FinishCounts ==
  ASSUME EncoderInv, call.busy, NEW frame \in CodedFrames, NEW bytes, NEW e \in Structs,
         Finish(frame, bytes, e)
  PROVE  /\ enc'.counter = Dtx.counter /\ enc'.silkCounter = e.silkCounter
         /\ quiet' = IF Dtx.quiet \/ frame.bits = "lost" THEN quiet + Duration ELSE 0
<1> DEFINE n == Dtx.counter
           counted == [e EXCEPT !.counter = n]
           none == "lost"
           lost == [frame EXCEPT !.bits = none]
<1>1. n \in DtxCounts /\ Dtx.quiet \in BOOLEAN
  BY DtxLemma DEF EncoderInv, DtxCounts
<1>2. counted \in Structs /\ counted.counter = n /\ counted.silkCounter = e.silkCounter
  <2> HIDE DEF n
  <2>1. QED
    BY <1>1 DEF Structs
<1>3. lost \in CodedFrames /\ lost.bits = none
  <2>1. none \in Payloads
    BY DEF Payloads
  <2> HIDE DEF none
  <2>2. QED
    BY <2>1 DEF CodedFrames
<1>4. IF Dtx.quiet THEN Emit(lost, 1, counted) ELSE Emit(frame, bytes, counted)
  BY DEF Finish
<1> HIDE DEF counted, lost
<1>5. CASE Dtx.quiet
  <2>1. Emit(lost, 1, counted)
    BY <1>4, <1>5
  <2>2. /\ enc'.counter = counted.counter /\ enc'.silkCounter = counted.silkCounter
        /\ quiet' = IF lost.bits = "lost" THEN quiet + Duration ELSE 0
    BY <1>2, <1>3, <2>1, EmitCounts
  <2>3. QED
    BY <1>2, <1>3, <1>5, <2>2
<1>6. CASE ~Dtx.quiet
  <2>1. Emit(frame, bytes, counted)
    BY <1>4, <1>6
  <2>2. /\ enc'.counter = counted.counter /\ enc'.silkCounter = counted.silkCounter
        /\ quiet' = IF frame.bits = "lost" THEN quiet + Duration ELSE 0
    BY <1>2, <2>1, EmitCounts
  <2>3. QED
    BY <1>2, <1>6, <2>2
<1>7. QED
  BY <1>1, <1>5, <1>6

\* A frame that only the whole encoder's transmission may keep back.
LEMMA SentSilence ==
  ASSUME EncoderInv, SilenceCounted, call.busy, NEW frame \in CodedFrames, NEW bytes,
         NEW e \in Structs, Finish(frame, bytes, e), frame.bits # "lost"
  PROVE  SilenceCounted'
<1> DEFINE n == enc.counter
           m == enc'.counter
           q == quiet
           r == quiet'
           k == enc'.silkCounter
           du == Duration
<1>1. k \in 0..30
  BY FinishCounts, StructLemma
<1>2. /\ Dtx.quiet \in BOOLEAN /\ m \in Nat /\ m <= 1200 /\ du \in 5..120
      /\ Dtx.quiet => m = n + du /\ m > 400
  <2>1. \A x \in 0..DtxUntil : x \in Nat /\ x <= 1200
    BY DEF DtxUntil
  <2>2. QED
    BY <2>1, FinishCounts, DtxLemma DEF EncoderInv, DtxAfter
<1>3. r = IF Dtx.quiet THEN q + du ELSE 0
  BY FinishCounts
<1>4. n \in Nat
  <2>1. \A x \in 0..DtxUntil : x \in Nat
    BY DEF DtxUntil
  <2>2. QED
    BY <2>1, StructLemma DEF EncoderInv
<1>5. /\ q \in Nat /\ (n > 400 => q <= n - 400 + 120) /\ (n \in 1..400 => q = 0)
  BY DEF SilenceCounted, DtxAfter, DtxUntil, SilenceMax
<1> HIDE DEF n, m, q, r, k, du
<1>6. /\ r \in Nat /\ r <= 1720 /\ (m > 400 => r <= m - 400 + 120) /\ (m \in 1..400 => r = 0)
      /\ (m = 0 => r = 0)
  BY <1>2, <1>3, <1>4, <1>5
<1>7. /\ r \in 0..SilenceMax /\ (m > DtxAfter => r <= m - DtxAfter + 120)
      /\ (m \in 1..DtxAfter => r = 0)
      /\ (m = 0 /\ k >= 10 => r <= (DtxUntil - DtxAfter + 120) + 40 * (k - 10))
  BY <1>1, <1>2, <1>6 DEF DtxAfter, DtxUntil, SilenceMax
<1>8. QED
  BY <1>7 DEF SilenceCounted, m, r, k

\* A frame SILK keeps back: its own counter has counted it.
LEMMA SkippedSilence ==
  ASSUME EncoderInv, SilenceCounted, SkipFrame
  PROVE  SilenceCounted'
<1>1. call.busy /\ OptTypes /\ enc \in Structs /\ TheCall /\ enc.silkDtx /\ SilkRan.skips
      /\ ModeNow # "celt"
  BY DEF SkipFrame, Begun, EncoderInv
<1>2. PICK allow \in SwitchPoints :
        Finish(FrameOf("lost", "none", SilkOp), 1,
               FinishEncode(WithSilk(InPacket, allow), FrameBandwidth))
  BY DEF SkipFrame
<1> DEFINE w == WithSilk(InPacket, allow)
           e == FinishEncode(w, FrameBandwidth)
           frame == FrameOf("lost", "none", SilkOp)
<1>3. w \in Structs /\ w.silkCounter = SilkRan.counter
  BY <1>1, SwitchLemma, InPacketLemma, WithSilkLemma
<1> HIDE DEF w
<1>4. e \in Structs /\ e.silkCounter = SilkRan.counter
  BY <1>1, <1>3, FrameBandwidthLemma, FinishEncodeLemma
<1>5. frame \in CodedFrames /\ frame.bits = "lost"
  BY <1>1, OpsLemma, FrameLemma DEF FrameOf
<1> HIDE DEF e, frame
<1>6. Finish(frame, 1, e)
  BY <1>2 DEF e, frame, w
<1>7. enc'.counter = Dtx.counter /\ enc'.silkCounter = SilkRan.counter /\ quiet' = quiet + Duration
  BY <1>1, <1>4, <1>5, <1>6, FinishCounts
<1>8. enc'.counter = 0
  BY <1>1, <1>7, DtxLemma
<1> DEFINE c == IF SilkRestarts THEN 0 ELSE enc.silkCounter
           n == enc.counter
           q == quiet
           r == quiet'
           k == SilkRan.counter
           coded == call.coded
<1>9. c \in 0..30 /\ k \in 0..30 /\ c >= 10 /\ 8 * (k - c) >= coded
  <2>1. (Active /\ call.in.voice) \in BOOLEAN /\ c \in 0..30
    BY <1>1, StructLemma DEF Active
  <2>2. coded \in {1, 2, 4, 8, 16, 24}
    BY <1>1, CallLemma
  <2>3. SilkRan = SilkPacket(c, Active /\ call.in.voice, coded)
    BY SMTT(30) DEF SilkRan
  <2> HIDE DEF c, coded, k
  <2>4. SilkRan.counter \in 0..30 /\ (SilkRan.skips => c >= 10 /\ 8 * (SilkRan.counter - c) >= coded)
    BY <2>1, <2>2, <2>3, SilkPacketLemma
  <2>5. QED
    BY <1>1, <2>1, <2>4 DEF k
<1>10. c = enc.silkCounter
  BY <1>9
<1>11. coded \in {1, 2, 4, 8, 16, 24} /\ r = q + 5 * coded
  BY <1>1, <1>7, CallLemma DEF Duration
<1>12. n \in Nat /\ n <= 1200
  <2>1. \A x \in 0..DtxUntil : x \in Nat /\ x <= 1200
    BY DEF DtxUntil
  <2>2. QED
    BY <1>1, <2>1, StructLemma
<1>13. /\ q \in Nat /\ (n > 400 => q <= n - 400 + 120) /\ (n \in 1..400 => q = 0)
       /\ (n = 0 /\ c >= 10 => q <= 920 + 40 * (c - 10))
  BY <1>10 DEF SilenceCounted, DtxAfter, DtxUntil, SilenceMax
<1> HIDE DEF c, n, q, r, k, coded
<1>14. q <= 920 + 40 * (c - 10)
  BY <1>9, <1>12, <1>13
<1>15. r \in Nat /\ r <= 920 + 40 * (k - 10) /\ r <= 1720
  BY <1>9, <1>11, <1>13, <1>14
<1>16. r \in 0..SilenceMax /\ r <= (DtxUntil - DtxAfter + 120) + 40 * (k - 10)
  BY <1>9, <1>15 DEF SilenceMax, DtxUntil, DtxAfter
<1>17. quiet' \in 0..SilenceMax
       /\ quiet' <= (DtxUntil - DtxAfter + 120) + 40 * (enc'.silkCounter - 10)
  BY <1>7, <1>16 DEF r, k
<1>18. QED
  BY <1>8, <1>17 DEF SilenceCounted, DtxAfter

\* The frames that are coded, by any mode.
LEMMA SilkSentSilence ==
  ASSUME EncoderInv, SilenceCounted, SilkFrame \/ CeltFrame \/ HybridFrame
  PROVE  SilenceCounted'
<1>1. call.busy /\ OptTypes /\ enc \in Structs /\ TheCall
  BY DEF SilkFrame, CeltFrame, HybridFrame, Begun, EncoderInv
<1>2. PICK bits \in Payloads, celt \in MemoryOps, silk \in MemoryOps, e \in Structs :
        /\ bits # "lost"
        /\ \E bytes : Finish(FrameOf(bits, celt, silk), bytes, e)
  <2> DEFINE w(allow) == WithSilk(InPacket, allow)
             f(x) == FinishEncode(x, FrameBandwidth)
  <2>1. \A x \in Structs : f(x) \in Structs
    BY <1>1, FrameBandwidthLemma, FinishEncodeLemma
  <2>2. InPacket \in Structs /\ \A allow \in SwitchPoints : w(allow) \in Structs
    BY <1>1, SwitchLemma, InPacketLemma, WithSilkLemma
  <2>3. f(InPacket) \in Structs /\ \A allow \in SwitchPoints : f(w(allow)) \in Structs
    BY <2>1, <2>2
  <2>4. CASE SilkFrame
    <3>1. PICK allow \in SwitchPoints, bytes \in FrameLengths :
            Finish(FrameOf("plain", "none", SilkOp), bytes, f(w(allow)))
      BY <2>4 DEF SilkFrame
    <3> HIDE DEF f, w
    <3>2. QED
      BY <2>3, <3>1, OpsLemma
  <2>5. CASE CeltFrame
    <3>1. PICK bytes \in FrameLengths :
            Finish(FrameOf("plain", "on", "none"), bytes, f(InPacket))
      BY <2>5 DEF CeltFrame
    <3> HIDE DEF f, w
    <3>2. QED
      BY <2>3, <3>1, OpsLemma
  <2>6. CASE HybridFrame
    <3> DEFINE bitsIf(fits) == CASE ~fits \/ HybridRedundancy = 0 -> "plain"
                                 [] fits /\ HybridRedundancy # 0 /\ FrameToCelt -> "silk_to_celt"
                                 [] OTHER -> "celt_to_silk"
               celtIf(b) == IF b = "celt_to_silk" THEN "reset" ELSE CeltOp
    <3>1. PICK allow \in SwitchPoints, bytes \in FrameLengths, fits \in BOOLEAN :
            Finish(FrameOf(bitsIf(fits), celtIf(bitsIf(fits)), SilkOp), bytes, f(w(allow)))
      BY <2>6 DEF HybridFrame
    <3>2. bitsIf(fits) \in Payloads /\ bitsIf(fits) # "lost"
      BY DEF Payloads
    <3>3. celtIf(bitsIf(fits)) \in MemoryOps
      BY OpsLemma
    <3> HIDE DEF f, w, bitsIf, celtIf
    <3>4. QED
      BY <2>3, <3>1, <3>2, <3>3, OpsLemma
  <2>7. QED
    BY <2>4, <2>5, <2>6
<1> DEFINE frame == FrameOf(bits, celt, silk)
<1>3. frame \in CodedFrames /\ frame.bits # "lost"
  BY <1>1, <1>2, FrameLemma DEF FrameOf
<1> HIDE DEF frame
<1>4. QED
  BY <1>1, <1>2, <1>3, SentSilence DEF frame

\* A decision starts SILK's count again where SILK starts again, and leaves the
\* encoder's.
LEMMA BeginSilence ==
  ASSUME EncoderInv, SilenceCounted, NEW in \in Calls, Begin(in)
  PROVE  SilenceCounted'
<1>1. OptTypes /\ enc \in Structs
  BY DEF EncoderInv
<1>2. PICK units \in {FrameSizeSelect(in.units, opt.expert)} \ {0} :
        \E d \in {Decision(in, units)} :
          \/ enc' = Decided(d)
          \/ enc' = [Decided(d) EXCEPT !.prevChannels = d.channels]
  BY DEF Begin
<1> DEFINE d == Decision(in, units)
           c == d.channels
<1>3. enc' = Decided(d) \/ enc' = [Decided(d) EXCEPT !.prevChannels = c]
  BY <1>2
<1>4. d \in Decisions
  BY <1>1, <1>2, SelectLemma, DecisionLemma
<1> HIDE DEF d
<1>5. Decided(d) \in Structs /\ Decided(d).counter = enc.counter
      /\ Decided(d).silkCounter \in {0, enc.silkCounter}
  BY <1>1, <1>4, DecidedLemma
<1> HIDE DEF c
<1>6. enc'.counter = Decided(d).counter /\ enc'.silkCounter = Decided(d).silkCounter
  BY <1>3, <1>5 DEF Structs
<1>7. quiet' = quiet
  BY DEF Begin
<1>8. CASE enc'.silkCounter = enc.silkCounter
  BY <1>5, <1>6, <1>7, <1>8 DEF SilenceCounted
<1>9. CASE enc'.silkCounter = 0
  <2>1. ~(enc'.silkCounter >= 10)
    BY <1>9
  <2>2. QED
    BY <1>5, <1>6, <1>7, <2>1 DEF SilenceCounted
<1>10. QED
  BY <1>5, <1>6, <1>8, <1>9

\* Every step, but those by which a frame that has to be sent is not.
LEMMA SilenceLemma ==
  ASSUME EncoderInv, SilenceCounted, [Next]_vars, ~(FrameTooLong \/ CeltStarves)
  PROVE  SilenceCounted'
<1>1. CASE Call
  <2>1. PICK in \in Inputs[caller] : Refuse(in) \/ Begin(in)
    BY <1>1 DEF Call
  <2>2. in \in Calls
    BY <2>1, InputsAssumption DEF EncoderInv
  <2>3. CASE Refuse(in)
    BY <2>3 DEF Refuse, SilenceCounted
  <2>4. QED
    BY <2>1, <2>2, <2>3, BeginSilence
<1>2. CASE OutOfBytes
  <2>1. enc' = InPacket /\ quiet' = quiet
    BY <1>2 DEF OutOfBytes
  <2>2. enc'.counter = enc.counter /\ enc'.silkCounter = enc.silkCounter
    BY <2>1, InPacketLemma DEF EncoderInv
  <2>3. QED
    BY <2>1, <2>2 DEF SilenceCounted
<1>3. CASE \E c \in Ctls[caller] : Ctl(c)
  BY <1>3 DEF Ctl, SilenceCounted
<1>4. CASE ResetState
  <2>1. enc'.counter = 0 /\ enc'.silkCounter = 0 /\ quiet' = 0
    BY <1>4 DEF ResetState, Fresh
  <2>2. QED
    BY <2>1 DEF SilenceCounted, SilenceMax, DtxAfter, DtxUntil
<1>5. CASE UNCHANGED vars
  BY <1>5 DEF vars, SilenceCounted
<1>6. QED
  BY <1>1, <1>2, <1>3, <1>4, <1>5, SkippedSilence, SilkSentSilence DEF Next, Step

\* A number of channels the caller has set is kept, by the steps of a packet too.
LEMMA ForceLemma ==
  ASSUME EncoderInv, [Next]_vars
  PROVE  steady'.any /\ opt.force # OpusAuto => opt'.force = opt.force
<1>1. CASE Call
  <2>1. PICK in \in Inputs[caller] : Refuse(in) \/ Begin(in)
    BY <1>1 DEF Call
  <2>2. in \in Calls
    BY <2>1, InputsAssumption DEF EncoderInv
  <2>3. CASE Refuse(in)
    BY <2>3 DEF Refuse
  <2>4. CASE Begin(in)
    <3>1. PICK units \in {FrameSizeSelect(in.units, opt.expert)} \ {0} :
            \E d \in {Decision(in, units)} :
              opt' = opt \/ (d.toMono /\ opt' = [opt EXCEPT !.force = 1])
      BY <2>4 DEF Begin
    <3> DEFINE d == Decision(in, units)
    <3>2. d.toMono => opt.force \in {OpusAuto, 1}
      BY <2>2, <3>1, SelectLemma, DecisionLemma DEF EncoderInv
    <3>3. opt' = opt \/ (d.toMono /\ opt' = [opt EXCEPT !.force = 1])
      BY <3>1
    <3> HIDE DEF d
    <3>4. CASE d.toMono /\ opt' = [opt EXCEPT !.force = 1]
      <4>1. opt = [f \in DOMAIN Settable |-> opt[f]] /\ "force" \in DOMAIN Settable
        BY DEF EncoderInv, OptTypes, Settable
      <4>2. opt'.force = 1
        BY <3>4, <4>1, SMTT(30)
      <4>3. QED
        BY <3>2, <3>4, <4>2
    <3>5. QED
      BY <3>3, <3>4
  <2>5. QED
    BY <2>1, <2>3, <2>4
<1>2. CASE SkipFrame \/ SilkFrame \/ CeltFrame \/ HybridFrame
  BY <1>2, ZenonT(60) DEF SkipFrame, SilkFrame, CeltFrame, HybridFrame, Finish, Emit
<1>3. CASE FrameTooLong \/ CeltStarves \/ OutOfBytes
  BY <1>3 DEF FrameTooLong, CeltStarves, OutOfBytes
<1>4. CASE \E c \in Ctls[caller] : Ctl(c)
  BY <1>4 DEF Ctl, NotSteady
<1>5. CASE ResetState
  BY <1>5 DEF ResetState
<1>6. CASE UNCHANGED vars
  BY <1>6 DEF vars
<1>7. QED
  BY <1>1, <1>2, <1>3, <1>4, <1>5, <1>6 DEF Next, Step

-----------------------------------------------------------------------------
(***************************************************************************)
(* The bytes of a packet.  The lengths of its frames have sums, and what   *)
(* the encoder counts is the last of them; what the repacketizer makes of  *)
(* the frames is that sum, with the header they need.                      *)
(***************************************************************************)

\* A set of numbers has a least one.
LEMMA LeastNumber ==
  ASSUME NEW S, S \subseteq Nat, S # {}
  PROVE  \E n \in S : \A m \in S : n <= m
<1> DEFINE R == OpToRel(<, Nat)
<1>1. IsWellFoundedOn(R, Nat)
  BY NatLessThanWellFounded
<1>2. \E n \in S : \A m \in S : ~(<<m, n>> \in R)
  BY <1>1, WFMin
<1>3. PICK n \in S : \A m \in S : ~(<<m, n>> \in R)
  BY <1>2
<1>4. ASSUME NEW m \in S PROVE n <= m
  <2>1. ~(<<m, n>> \in R)
    BY <1>3
  <2>2. m < n => <<m, n>> \in R
    BY DEF OpToRel
  <2>3. ~(m < n)
    BY <2>1, <2>2
  <2>4. m \in Nat /\ n \in Nat
    OBVIOUS
  <2>5. QED
    BY <2>3, <2>4
<1>5. QED
  BY <1>4

\* One frame more.
LEMMA TogetherAppend ==
  ASSUME NEW done \in Seq(CodedFrames), NEW total \in Int, Together(done, total),
         NEW f \in CodedFrames
  PROVE  /\ Together(Append(done, f), total + f.bytes)
         /\ Len(Append(done, f)) = Len(done) + 1 /\ Append(done, f) # <<>>
<1> DEFINE n == Len(done)
           b == f.bytes
           all == Append(done, f)
<1>1. PICK sum : PartialSums(done, sum) /\ sum[n] = total
  BY DEF Together
<1>2. n \in Nat /\ b \in Int /\ Len(all) = n + 1 /\ all[n + 1] = f
      /\ \A k \in 1..n : all[k] = done[k]
  BY DEF CodedFrames
<1> DEFINE more == [k \in 0..(n + 1) |-> IF k = n + 1 THEN total + b ELSE sum[k]]
<1>3. sum \in [0..n -> Int] /\ sum[0] = 0 /\ \A k \in 1..n : sum[k] = sum[k - 1] + done[k].bytes
  BY <1>1 DEF PartialSums
<1>4. /\ more \in [0..(n + 1) -> Int] /\ more[0] = 0 /\ more[n + 1] = total + b
      /\ \A k \in 0..n : more[k] = sum[k]
  BY <1>2, <1>3
<1>5. ASSUME NEW k \in 1..(n + 1)
      PROVE  more[k] = more[k - 1] + all[k].bytes
  <2> HIDE DEF more, all
  <2>1. CASE k = n + 1
    <3>1. more[k - 1] = total /\ all[k] = f
      BY <1>1, <1>2, <1>4, <2>1
    <3>2. QED
      BY <1>4, <2>1, <3>1
  <2>2. CASE k \in 1..n
    <3>1. k - 1 \in 0..n /\ k \in 0..n
      BY <1>2, <2>2
    <3>2. QED
      BY <1>2, <1>3, <1>4, <2>2, <3>1
  <2>3. QED
    BY <1>2, <2>1, <2>2
<1>6. all # <<>>
  <2> HIDE DEF all
  <2>1. QED
    BY <1>2
<1> HIDE DEF more, all, b, n
<1>7. PartialSums(all, more)
  BY <1>2, <1>4, <1>5 DEF PartialSums
<1>8. more[Len(all)] = total + b
  BY <1>2, <1>4
<1>9. Together(all, total + b)
  BY <1>7, <1>8 DEF Together
<1>10. QED
  BY <1>2, <1>6, <1>9 DEF all, b, n

\* The sum of lengths less one is the sum of the lengths less their number.
LEMMA SumLemma ==
  ASSUME NEW n \in Nat, NEW sum \in [0..n -> Int], NEW b \in [1..n -> Int],
         sum[0] = 0, \A k \in 1..n : sum[k] = sum[k - 1] + b[k] + 1,
         NEW f, \A k \in 0..n : f[k] = IF k = 0 THEN 0 ELSE f[k - 1] + b[k]
  PROVE  f[n] = sum[n] - n
<1> DEFINE S == {k \in 0..n : f[k] # sum[k] - k}
<1>1. S = {}
  <2> SUFFICES ASSUME S # {} PROVE FALSE
    OBVIOUS
  <2>1. PICK k \in S : \A m \in S : k <= m
    <3>1. S \subseteq Nat
      OBVIOUS
    <3> HIDE DEF S
    <3>2. QED
      BY <3>1, LeastNumber
  <2>2. k \in 0..n /\ f[k] # sum[k] - k
    OBVIOUS
  <2>3. CASE k = 0
    BY <2>2, <2>3
  <2>4. CASE k # 0
    <3>1. k \in 1..n /\ k - 1 \in 0..n /\ ~(k <= k - 1)
      BY <2>2, <2>4
    <3>2. f[k - 1] = sum[k - 1] - (k - 1)
      BY <2>1, <3>1
    <3>3. sum[k] = sum[k - 1] + b[k] + 1 /\ sum[k - 1] \in Int /\ b[k] \in Int /\ k \in Int
      BY <3>1
    <3>4. f[k] = f[k - 1] + b[k]
      BY <2>4, <2>2
    <3>5. f[k] = sum[k] - k
      BY ONLY <3>2, <3>3, <3>4, SMTT(30)
    <3>6. QED
      BY <2>2, <3>5
  <2>5. QED
    BY <2>3, <2>4
<1>2. n \in 0..n
  OBVIOUS
<1>3. QED
  BY <1>1, <1>2

\* There is such a sum.
LEMMA SumExists ==
  ASSUME NEW n \in Nat, NEW sum \in [0..n -> Int], NEW b \in [1..n -> Int],
         sum[0] = 0, \A k \in 1..n : sum[k] = sum[k - 1] + b[k] + 1
  PROVE  \E f : f = [k \in 0..n |-> IF k = 0 THEN 0 ELSE f[k - 1] + b[k]]
<1> DEFINE rest == [k \in 0..n |-> sum[k] - k]
           r(k) == sum[k] - k
           v(k) == IF k = 0 THEN 0 ELSE rest[k - 1] + b[k]
<1>1. ASSUME NEW k \in 0..n
      PROVE  r(k) = v(k)
  <2>1. CASE k = 0
    BY <2>1
  <2>2. CASE k # 0
    <3>1. k \in 1..n /\ k - 1 \in 0..n /\ k \in Int
      BY <2>2
    <3>2. rest[k - 1] = sum[k - 1] - (k - 1)
      BY <3>1
    <3>3. sum[k] = sum[k - 1] + b[k] + 1 /\ sum[k] \in Int /\ sum[k - 1] \in Int /\ b[k] \in Int
      BY <3>1
    <3>4. sum[k] - k = rest[k - 1] + b[k]
      <4> HIDE DEF rest
      <4>1. QED
        BY ONLY <3>1, <3>2, <3>3
    <3>5. QED
      BY <2>2, <3>4
  <2>3. QED
    BY <2>1, <2>2
<1>2. rest = [k \in 0..n |-> v(k)]
  <2>1. rest = [k \in 0..n |-> r(k)]
    OBVIOUS
  <2> HIDE DEF rest, r, v
  <2>2. [k \in 0..n |-> r(k)] = [k \in 0..n |-> v(k)]
    BY <1>1, Zenon
  <2>3. QED
    BY <2>1, <2>2
<1>3. rest = [k \in 0..n |-> IF k = 0 THEN 0 ELSE rest[k - 1] + b[k]]
  BY <1>2
<1> HIDE DEF rest, r, v
<1>4. QED
  BY <1>3, Zenon

\* Frames that keep to their share are gathered within the caller's buffer.
LEMMA GatheredLemma ==
  ASSUME NEW lengths \in Seq(Int), lengths # <<>>,
         NEW sum \in [0..Len(lengths) -> Int], sum[0] = 0,
         \A k \in 1..Len(lengths) : sum[k] = sum[k - 1] + lengths[k],
         NEW bytes \in Int, sum[Len(lengths)] <= Share(Len(lengths), bytes)
  PROVE  GatheredBytes(lengths) <= bytes
<1> DEFINE n == Len(lengths)
           payload == [i \in 1..n |-> lengths[i] - 1]
           body == CHOOSE f : f = [k \in 0..n |-> IF k = 0 THEN 0 ELSE f[k - 1] + payload[k]]
           long == {i \in 1..(n - 1) : payload[i] >= 252}
           sizes == n - 1 + Cardinality(long)
           same == \A i \in 1..n : payload[i] = payload[1]
<1>1. GatheredBytes(lengths) =
        CASE n = 1             -> 1 + body[n]
          [] n = 2 /\ same     -> 1 + body[n]
          [] n = 2 /\ ~same    -> 1 + sizes + body[n]
          [] n > 2 /\ same     -> 2 + body[n]
          [] n > 2 /\ ~same    -> 2 + sizes + body[n]
  BY Zenon DEF GatheredBytes
<1>2. n \in Nat /\ n > 0 /\ \A k \in 1..n : lengths[k] \in Int
  OBVIOUS
<1>3. payload \in [1..n -> Int] /\ \A k \in 1..n : lengths[k] = payload[k] + 1
  BY <1>2
<1> HIDE DEF body
<1>4. body[n] = sum[n] - n
  <2> HIDE DEF payload
  <2>1. \A k \in 1..n : sum[k] = sum[k - 1] + payload[k] + 1
    <3> SUFFICES ASSUME NEW k \in 1..n PROVE sum[k] = sum[k - 1] + payload[k] + 1
      OBVIOUS
    <3>1. k - 1 \in 0..n /\ payload[k] \in Int /\ lengths[k] = payload[k] + 1
      BY <1>2, <1>3
    <3>2. sum[k - 1] \in Int /\ sum[k] = sum[k - 1] + lengths[k]
      BY <3>1
    <3>3. QED
      BY ONLY <3>1, <3>2
  <2> HIDE DEF n
  <2>2. sum \in [0..n -> Int] /\ sum[0] = 0
    BY DEF n
  <2>3. \E f : f = [k \in 0..n |-> IF k = 0 THEN 0 ELSE f[k - 1] + payload[k]]
    BY <1>2, <1>3, <2>1, <2>2, SumExists, Zenon
  <2>4. body = [k \in 0..n |-> IF k = 0 THEN 0 ELSE body[k - 1] + payload[k]]
    BY <2>3, Zenon DEF body
  <2>5. ASSUME NEW k \in 0..n
        PROVE  body[k] = IF k = 0 THEN 0 ELSE body[k - 1] + payload[k]
    <3> DEFINE all == [i \in 0..n |-> IF i = 0 THEN 0 ELSE body[i - 1] + payload[i]]
    <3>1. all[k] = IF k = 0 THEN 0 ELSE body[k - 1] + payload[k]
      OBVIOUS
    <3>2. body = all
      BY <2>4
    <3> HIDE DEF all
    <3>3. QED
      BY ONLY <3>1, <3>2
  <2>6. QED
    BY <1>2, <1>3, <2>1, <2>2, <2>5, SumLemma
<1>5. Cardinality(long) \in Nat /\ Cardinality(long) <= n - 1
  <2> DEFINE m == n - 1
             all == 1..m
  <2>1. IsFiniteSet(all) /\ Cardinality(all) = m
    <3>1. m \in Nat
      BY <1>2
    <3> HIDE DEF m
    <3>2. Cardinality(1..m) = IF 1 > m THEN 0 ELSE m - 1 + 1
      BY <3>1, FS_Interval
    <3>3. QED
      BY <3>1, <3>2, FS_Interval
  <2>2. long \subseteq all
    OBVIOUS
  <2> HIDE DEF long, all, m
  <2>3. IsFiniteSet(long) /\ Cardinality(long) <= Cardinality(all)
    BY <2>1, <2>2, FS_Subset
  <2>4. Cardinality(long) \in Nat
    BY <2>3, FS_CardinalityType
  <2>5. QED
    BY <2>1, <2>3, <2>4 DEF m
<1>6. same \in BOOLEAN
  OBVIOUS
<1> DEFINE c == Cardinality(long)
           g == GatheredBytes(lengths)
           s == sizes
           t == body[n]
           total == sum[n]
<1>7. s = n - 1 + c /\ c \in Nat /\ c <= n - 1 /\ t = total - n /\ total \in Int
  BY <1>2, <1>4, <1>5
<1>8. total <= IF n = 1 THEN bytes ELSE n + bytes - (IF n = 2 THEN 3 ELSE 2 + (n - 1) * 2)
  BY DEF Share, FramesBudget
<1>9. g = CASE n = 1             -> 1 + t
             [] n = 2 /\ same     -> 1 + t
             [] n = 2 /\ ~same    -> 1 + s + t
             [] n > 2 /\ same     -> 2 + t
             [] n > 2 /\ ~same    -> 2 + s + t
  BY <1>1
<1> HIDE DEF g, s, t, c, total, n, same
<1>10. n \in Nat /\ n > 0 /\ bytes \in Int
  BY <1>2
<1>11. g <= bytes
  <2>1. CASE n = 1
    <3>1. g = 1 + t
      BY ONLY <1>9, <2>1
    <3>2. QED
      BY ONLY <1>7, <1>8, <1>10, <2>1, <3>1
  <2>2. CASE n > 1 /\ same
    <3>1. g = (IF n = 2 THEN 1 ELSE 2) + t
      BY ONLY <1>9, <1>10, <2>2
    <3>2. QED
      BY ONLY <1>7, <1>8, <1>10, <2>2, <3>1
  <2>3. CASE n > 1 /\ ~same
    <3>1. g = (IF n = 2 THEN 1 ELSE 2) + s + t
      BY ONLY <1>9, <1>10, <2>3
    <3>2. QED
      BY ONLY <1>7, <1>8, <1>10, <2>3, <3>1
  <2>4. QED
    BY <1>6, <1>10, <2>1, <2>2, <2>3
<1>12. QED
  BY <1>11 DEF g

\* One more frame, no longer than is left for it, keeps to the budget.
LEMMA EmitBytes ==
  ASSUME EncoderInv, BytesCounted, call.busy, NEW frame \in CodedFrames,
         NEW bytes \in Int, bytes <= Longest, NEW e, Emit(frame, bytes, e)
  PROVE  BytesCounted'
<1> DEFINE f == [frame EXCEPT !.bytes = bytes]
           done == call.done
           all == Append(done, f)
           n == call.frames
           left == call.left
           total == call.total
           budget == FramesBudget(n, call.in.bytes)
           more == total + bytes
<1>1. f \in CodedFrames /\ f.bytes = bytes
  BY DEF CodedFrames
<1>2. /\ done \in Seq(CodedFrames) /\ left \in 1..n /\ Len(done) = n - left /\ n \in Nat
      /\ total \in Int /\ call.in.bytes \in Int
  BY CallLemma, InputLemma DEF EncoderInv
<1>3. Together(done, total) /\ (n > 1 => total <= budget)
  BY DEF BytesCounted
<1>4. bytes <= IF n = 1 THEN call.in.bytes ELSE (budget - total) \div left
  BY DEF Longest
<1>5. budget \in Int
  <2> HIDE DEF done, left, total
  <2>1. QED
    BY <1>2 DEF FramesBudget
<1> HIDE DEF f, done, n, left, total, budget
<1>6. Together(all, more) /\ Len(all) = n - left + 1 /\ all # <<>>
  <2>1. Together(all, total + f.bytes) /\ Len(all) = Len(done) + 1 /\ all # <<>>
    BY <1>1, <1>2, <1>3, TogetherAppend
  <2> HIDE DEF all
  <2>2. QED
    BY <1>1, <1>2, <2>1
<1>7. n > 1 => more <= budget
  <2> SUFFICES ASSUME n > 1 PROVE more <= budget
    OBVIOUS
  <2> DEFINE gap == budget - total
             part == gap \div left
  <2>1. gap \in Nat /\ left \in Nat /\ left >= 1
    BY <1>2, <1>3, <1>5
  <2>2. bytes <= part
    BY <1>2, <1>4
  <2> HIDE DEF gap
  <2>3. part \in Nat /\ part <= gap
    <3>1. \A x, y \in Nat : y >= 1 => x \div y \in Nat /\ x \div y <= x
      <4> SUFFICES ASSUME NEW x \in Nat, NEW y \in Nat, y >= 1
                   PROVE  x \div y \in Nat /\ x \div y <= x
        OBVIOUS
      <4> DEFINE q == x \div y
      <4>1. q \in Nat /\ y * q <= x
        OBVIOUS
      <4> HIDE DEF q
      <4>2. q <= y * q
        BY <4>1
      <4>3. QED
        BY <4>1, <4>2 DEF q
    <3>2. QED
      BY <2>1, <3>1
  <2> HIDE DEF part
  <2>4. QED
    BY <1>2, <1>5, <2>1, <2>2, <2>3 DEF gap
<1>8. more \in Int
  BY <1>2
<1> HIDE DEF all, more
<1>9. CASE LastFrame
  <2>1. left = 1
    BY <1>9 DEF LastFrame, left
  <2>2. call'.busy = FALSE /\ packet'.frames = all
    BY <1>9 DEF Emit, Return, all, done, f
  <2>3. steady'.any => steady'.in = call.in
    <3>1. steady.any /\ steady.in = call.in
      BY DEF EncoderInv, TheCall
    <3>2. steady = [any |-> TRUE, in |-> steady.in, said |-> steady.said, left |-> steady.left]
      BY <3>1 DEF EncoderInv, TheHistory
    <3> DEFINE said == [mode |-> ModeNow, bandwidth |-> e.bandwidth,
                        channels |-> enc.streamChannels]
               gone == steady.left \cup ({steady.said} \ {said, Unsaid})
               i == steady.in
               sd == steady.said
               lf == steady.left
    <3>3. steady' = [steady EXCEPT !.said = said, !.left = gone]
      BY <1>9 DEF Emit, Saying
    <3> HIDE DEF said, gone
    <3>4. steady'.in = steady.in
      <4>1. steady = [any |-> TRUE, in |-> i, said |-> sd, left |-> lf]
        BY <3>2
      <4> HIDE DEF i, sd, lf
      <4>2. steady'.in = i
        BY <3>3, <4>1
      <4>3. QED
        BY <4>2 DEF i
    <3>5. QED
      BY <3>1, <3>4
  <2>4. Len(all) = n
    BY <1>2, <1>6, <2>1
  <2>5. more <= Share(n, call.in.bytes)
    <3>1. CASE n = 1
      <4>1. Len(done) = 0
        BY <1>2, <2>1, <3>1
      <4>2. total = 0
        BY <1>3, <4>1 DEF Together, PartialSums
      <4>3. QED
        BY <1>2, <1>4, <3>1, <4>2 DEF Share, more
    <3>2. CASE n # 1
      BY <1>2, <1>7, <2>1, <3>2 DEF Share, budget
    <3>3. QED
      BY <3>1, <3>2
  <2>6. steady'.any => /\ packet'.frames # <<>> /\ Together(packet'.frames, more)
                       /\ more <= Share(Len(packet'.frames), steady'.in.bytes)
    BY <1>6, <2>2, <2>3, <2>4, <2>5
  <2>7. (Sending /\ steady.any)' =>
           /\ steady'.in.bytes \in Int
           /\ \E x \in Int : /\ packet'.frames # <<>> /\ Together(packet'.frames, x)
                             /\ x <= Share(Len(packet'.frames), steady'.in.bytes)
    BY <1>2, <1>8, <2>3, <2>6
  <2>8. QED
    BY <2>2, <2>7 DEF BytesCounted
<1>10. CASE ~LastFrame
  <2> DEFINE l == left - 1
             retry == FALSE
  <2>1. call' = [call EXCEPT !.left = l, !.total = more, !.retry = retry, !.done = all]
    BY <1>10 DEF Emit, all, more, total, left, done, f
  <2>2. call \in CallRecords
    BY DEF EncoderInv, TheCall
  <2> HIDE DEF l, retry
  <2>3. /\ call'.busy = call.busy /\ call'.done = all /\ call'.total = more
        /\ call'.frames = call.frames /\ call'.in = call.in
    BY <2>1, <2>2 DEF CallRecords
  <2>4. call'.frames > 1 => call'.total <= FramesBudget(call'.frames, call'.in.bytes)
    BY <1>7, <2>3 DEF budget, n
  <2>5. ~Sending'
    BY <2>3 DEF Sending
  <2>6. QED
    BY <1>6, <2>3, <2>4, <2>5 DEF BytesCounted
<1>11. QED
  BY <1>9, <1>10

\* The same, once the whole encoder's transmission has had its say.
LEMMA FinishBytes ==
  ASSUME EncoderInv, BytesCounted, Begun, NEW frame \in CodedFrames,
         NEW bytes \in Int, bytes = 1 \/ bytes \in FrameLengths, NEW e,
         Finish(frame, bytes, e)
  PROVE  BytesCounted'
<1>1. call.busy /\ Aimed >= 2
  BY DEF Begun
<1>2. Longest \in Int /\ Aimed \in Int /\ Aimed <= Longest
  <2>1. Longest \in Int /\ Aimed \in Int
    BY <1>1, AimedLemma DEF EncoderInv
  <2> DEFINE rate == (call.d.bitrate * call.coded) \div 3200
             longest == Longest
  <2>2. Aimed = longest \/ Aimed = Least(longest, rate)
    BY DEF Aimed
  <2>3. rate \in Int
    <3>1. call.d.bitrate \in Int /\ call.coded \in Int
      BY <1>1, CallLemma, DecisionFields DEF EncoderInv
    <3>2. call.d.bitrate * call.coded \in Int
      BY <3>1
    <3>3. QED
      BY <3>2
  <2> HIDE DEF rate, longest
  <2>4. Aimed <= longest
    BY <2>1, <2>2, <2>3 DEF Least, longest
  <2>5. QED
    BY <2>1, <2>4 DEF longest
<1>3. bytes <= Longest /\ 1 <= Longest
  <2> DEFINE a == Aimed
             l == Longest
             least == Least(a, MaxFrameBytes)
  <2>1. least <= a
    BY <1>2 DEF Least, MaxFrameBytes
  <2>2. bytes \in {1, 2, least}
    BY DEF FrameLengths
  <2>3. a \in Int /\ l \in Int /\ a <= l /\ a >= 2 /\ least \in Int
    BY <1>1, <1>2, AimedLemma DEF EncoderInv
  <2> HIDE DEF a, l, least
  <2>4. bytes <= l /\ 1 <= l
    BY <2>1, <2>2, <2>3
  <2>5. QED
    BY <2>4 DEF l
<1> DEFINE n == Dtx.counter
           counted == [e EXCEPT !.counter = n]
           none == "lost"
           lost == [frame EXCEPT !.bits = none]
<1>4. lost \in CodedFrames
  <2>1. none \in Payloads
    BY DEF Payloads
  <2> HIDE DEF none
  <2>2. QED
    BY <2>1 DEF CodedFrames
<1>5. Emit(lost, 1, counted) \/ Emit(frame, bytes, counted)
  BY DEF Finish
<1> HIDE DEF counted, lost
<1>6. QED
  BY <1>1, <1>3, <1>4, <1>5, EmitBytes

\* The frames that are skipped or coded, by any mode.
LEMMA CodedBytes ==
  ASSUME EncoderInv, BytesCounted, SkipFrame \/ SilkFrame \/ CeltFrame \/ HybridFrame
  PROVE  BytesCounted'
<1>1. Begun /\ call.busy /\ OptTypes /\ TheCall
  BY DEF SkipFrame, SilkFrame, CeltFrame, HybridFrame, Begun, EncoderInv
<1>2. PICK bits \in Payloads, celt \in MemoryOps, silk \in MemoryOps :
        \E bytes \in {1} \cup FrameLengths : \E e : Finish(FrameOf(bits, celt, silk), bytes, e)
  <2> DEFINE w(allow) == WithSilk(InPacket, allow)
             f(x) == FinishEncode(x, FrameBandwidth)
  <2>1. CASE SkipFrame
    <3>1. PICK allow \in SwitchPoints : Finish(FrameOf("lost", "none", SilkOp), 1, f(w(allow)))
      BY <2>1 DEF SkipFrame
    <3> HIDE DEF f, w
    <3>2. QED
      BY <3>1, OpsLemma
  <2>2. CASE SilkFrame
    <3>1. PICK allow \in SwitchPoints, bytes \in FrameLengths :
            Finish(FrameOf("plain", "none", SilkOp), bytes, f(w(allow)))
      BY <2>2 DEF SilkFrame
    <3> HIDE DEF f, w
    <3>2. QED
      BY <3>1, OpsLemma
  <2>3. CASE CeltFrame
    <3>1. PICK bytes \in FrameLengths :
            Finish(FrameOf("plain", "on", "none"), bytes, f(InPacket))
      BY <2>3 DEF CeltFrame
    <3> HIDE DEF f, w
    <3>2. QED
      BY <3>1, OpsLemma
  <2>4. CASE HybridFrame
    <3> DEFINE bitsIf(fits) == CASE ~fits \/ HybridRedundancy = 0 -> "plain"
                                 [] fits /\ HybridRedundancy # 0 /\ FrameToCelt -> "silk_to_celt"
                                 [] OTHER -> "celt_to_silk"
               celtIf(b) == IF b = "celt_to_silk" THEN "reset" ELSE CeltOp
    <3>1. PICK allow \in SwitchPoints, bytes \in FrameLengths, fits \in BOOLEAN :
            Finish(FrameOf(bitsIf(fits), celtIf(bitsIf(fits)), SilkOp), bytes, f(w(allow)))
      BY <2>4 DEF HybridFrame
    <3>2. bitsIf(fits) \in Payloads
      BY DEF Payloads
    <3>3. celtIf(bitsIf(fits)) \in MemoryOps
      BY OpsLemma
    <3> HIDE DEF f, w, bitsIf, celtIf
    <3>4. QED
      BY <3>1, <3>2, <3>3, OpsLemma
  <2>5. QED
    BY <2>1, <2>2, <2>3, <2>4
<1> DEFINE frame == FrameOf(bits, celt, silk)
<1>3. frame \in CodedFrames
  BY <1>1, <1>2, FrameLemma DEF FrameOf
<1>4. PICK bytes \in {1} \cup FrameLengths : \E e : Finish(frame, bytes, e)
  BY <1>2
<1> HIDE DEF frame
<1>5. bytes \in Int
  BY <1>1, AimedLemma
<1>6. bytes = 1 \/ bytes \in FrameLengths
  OBVIOUS
<1>7. QED
  BY <1>1, <1>3, <1>4, <1>5, <1>6, FinishBytes

\* A packet begins with all of its budget, or is refused.
LEMMA BeginBytes ==
  ASSUME EncoderInv, NEW in \in Calls, Begin(in)
  PROVE  BytesCounted'
<1>1. ~Sending'
  BY DEF Begin, Sending, NoPacket
<1>2. PICK units \in {FrameSizeSelect(in.units, opt.expert)} \ {0} :
        \E d \in {Decision(in, units)} : \E frames \in {units \div CodedSize(d.mode, units)} :
          \/ Return("BufferTooSmall")
          \/ /\ frames > 1 => FramesBudget(frames, in.bytes) >= 2 * frames
             /\ call' = [busy |-> TRUE, result |-> "none", in |-> in, valid |-> Valid(in), d |-> d, frames |-> frames,
                         coded |-> CodedSize(d.mode, units), left |-> frames,
                         total |-> 0, retry |-> FALSE, done |-> <<>>]
  BY DEF Begin
<1>3. CASE Return("BufferTooSmall")
  BY <1>1, <1>3 DEF Return, BytesCounted
<1>4. CASE ~Return("BufferTooSmall")
  <2> DEFINE frames == call'.frames
  <2>1. /\ call'.done = <<>> /\ call'.total = 0 /\ call'.in = in /\ call'.busy
        /\ frames > 1 => FramesBudget(frames, in.bytes) >= 2 * frames
    BY <1>2, <1>4
  <2>2. frames \in Nat
    <3>1. EncoderInv'
      BY BeginLemma
    <3>2. call' \in CallRecords
      BY <2>1, <3>1 DEF EncoderInv, TheCall
    <3>3. QED
      BY <3>2 DEF CallRecords
  <2>3. Together(<<>>, 0)
    <3>1. PartialSums(<<>>, [k \in 0..0 |-> 0])
      BY DEF PartialSums
    <3>2. QED
      BY <3>1 DEF Together
  <2>4. frames > 1 => 0 <= FramesBudget(frames, in.bytes)
    <3>1. in.bytes \in Int
      BY InputLemma
    <3>2. FramesBudget(frames, in.bytes) \in Int
      BY <2>2, <3>1 DEF FramesBudget
    <3>3. QED
      BY <2>1, <2>2, <3>2
  <2>5. QED
    BY <1>1, <2>1, <2>3, <2>4 DEF BytesCounted
<1>5. QED
  BY <1>3, <1>4

\* Every step keeps the frames to their budget.
LEMMA BytesLemma ==
  ASSUME EncoderInv, BytesCounted, [Next]_vars
  PROVE  BytesCounted'
<1>1. CASE Call
  <2>1. PICK in \in Inputs[caller] : Refuse(in) \/ Begin(in)
    BY <1>1 DEF Call
  <2>2. in \in Calls
    BY <2>1, InputsAssumption DEF EncoderInv
  <2>3. CASE Refuse(in)
    BY <2>3 DEF Refuse, Return, Sending, NoPacket, BytesCounted
  <2>4. QED
    BY <2>1, <2>2, <2>3, BeginBytes
<1>2. CASE FrameTooLong
  <2>1. ~Sending'
    BY <1>2 DEF FrameTooLong, Sending, NoPacket
  <2>2. CASE call' = [call EXCEPT !.retry = TRUE]
    <3> DEFINE retry == TRUE
    <3>1. call' = [call EXCEPT !.retry = retry]
      BY <2>2
    <3>2. call.busy /\ call \in CallRecords
      BY <1>2 DEF FrameTooLong, Begun, EncoderInv, TheCall
    <3> HIDE DEF retry
    <3>3. /\ call'.done = call.done /\ call'.total = call.total
          /\ call'.frames = call.frames /\ call'.in = call.in
      BY <3>1, <3>2 DEF CallRecords
    <3>4. QED
      BY <2>1, <3>2, <3>3 DEF BytesCounted
  <2>3. CASE Return("BufferTooSmall")
    BY <2>1, <2>3 DEF Return, BytesCounted
  <2>4. QED
    BY <1>2, <2>2, <2>3 DEF FrameTooLong
<1>3. CASE CeltStarves
  BY <1>3 DEF CeltStarves, Return, Sending, NoPacket, BytesCounted
<1>4. CASE OutOfBytes
  <2>1. packet' = NoPacket
    BY <1>4 DEF OutOfBytes, EncoderInv, TheCall
  <2>2. QED
    BY <1>4, <2>1 DEF OutOfBytes, Return, Sending, NoPacket, BytesCounted
<1>5. CASE \E c \in Ctls[caller] : Ctl(c)
  BY <1>5 DEF Ctl, NotSteady, BytesCounted
<1>6. CASE ResetState
  BY <1>6 DEF ResetState, NotSteady, BytesCounted
<1>7. CASE UNCHANGED vars
  BY <1>7 DEF vars, BytesCounted, Sending
<1>8. QED
  BY <1>1, <1>2, <1>3, <1>4, <1>5, <1>6, <1>7, CodedBytes DEF Next, Step

\* What was counted is what is gathered.
LEMMA FitsLemma ==
  ASSUME EncoderInv, BytesCounted
  PROVE  PacketFits
<1> SUFFICES ASSUME Sending, steady.any
             PROVE  GatheredBytes([i \in 1..Len(packet.frames) |-> packet.frames[i].bytes])
                      <= steady.in.bytes
  BY DEF PacketFits
<1> DEFINE frames == packet.frames
           n == Len(frames)
           lengths == [i \in 1..n |-> frames[i].bytes]
           bytes == steady.in.bytes
<1>1. PICK total \in Int : frames # <<>> /\ Together(frames, total) /\ total <= Share(n, bytes)
  BY DEF BytesCounted
<1>2. frames \in Seq(CodedFrames)
  BY DEF EncoderInv, ThePacket
<1>3. PICK sum : PartialSums(frames, sum) /\ sum[n] = total
  BY <1>1 DEF Together
<1>4. bytes \in Int
  BY DEF BytesCounted
<1>5. n \in Nat /\ n > 0 /\ \A k \in 1..n : frames[k].bytes \in Int
  <2> HIDE DEF frames
  <2>1. \A k \in 1..n : frames[k] \in CodedFrames
    BY <1>2
  <2>2. \A f \in CodedFrames : f.bytes \in Int
    BY DEF CodedFrames
  <2>3. QED
    BY <1>1, <1>2, <2>1, <2>2
<1> HIDE DEF frames, bytes
<1>6. /\ lengths \in Seq(Int) /\ Len(lengths) = n /\ lengths # <<>>
      /\ \A k \in 1..n : lengths[k] = frames[k].bytes
  BY <1>5
<1>7. /\ sum \in [0..n -> Int] /\ sum[0] = 0
      /\ \A k \in 1..n : sum[k] = sum[k - 1] + frames[k].bytes
  BY <1>3 DEF PartialSums
<1> HIDE DEF lengths, n
<1>8. GatheredBytes(lengths) <= bytes
  BY <1>1, <1>3, <1>4, <1>6, <1>7, GatheredLemma
<1>9. QED
  BY <1>8 DEF lengths, frames, n, bytes

-----------------------------------------------------------------------------
\* The struct and the call hold what the code's types allow.
LEMMA TypeLemma ==
  ASSUME EncoderInv
  PROVE  TypeOK
<1>1. /\ enc.prevMode \in Modes \cup {"none"}
      /\ enc.prevChannels \in 0..2 /\ enc.streamChannels \in 1..Channels
      /\ enc.bandwidth \in Bandwidths /\ enc.autoBandwidth \in 0..Full
  BY StructLemma, ChannelsAssumption DEF EncoderInv
<1>2. {enc.first, enc.fec, enc.toMono, enc.silkDtx, enc.allowSwitch, enc.inWb} \subseteq BOOLEAN
  BY StructLemma DEF EncoderInv
<1>3. enc.silkFs \in {0, 8, 12, 16} /\ enc.silkCounter \in 0..30 /\ enc.counter \in 0..DtxUntil
  BY StructLemma DEF EncoderInv
<1>4. enc.ratio \in -1..127
  <2>1. \A r \in -1..100 : r \in -1..127
    OBVIOUS
  <2>2. QED
    BY <2>1, StructLemma DEF EncoderInv
<1>5. call.busy => call.left \in 1..call.frames /\ Len(call.done) = call.frames - call.left
  BY DEF EncoderInv, TheCall
<1>6. QED
  BY <1>1, <1>2, <1>3, <1>4, <1>5 DEF TypeOK

\* Whatever is asked of the encoder, the call in progress and the packet returned
\* are worth the duration asked for, in a bandwidth that is allowed.
THEOREM EncoderHolds == Spec => []EncoderInv
<1>1. QED
  BY InitLemma, NextLemma, PTL DEF Spec

\* The struct of the encoder and the call in progress keep their types (TypeOK).
THEOREM EncoderTypes == Spec => []TypeOK
<1>1. EncoderInv => TypeOK
  BY TypeLemma
<1>2. QED
  BY <1>1, EncoderHolds, PTL

\* A packet lasts as long as the call that made it was asked for, and its TOC byte
\* says so (LastsAsAsked).
THEOREM PacketsLastAsAsked == Spec => []LastsAsAsked
<1>1. EncoderInv => LastsAsAsked
  BY SaidLemma
<1>2. QED
  BY <1>1, EncoderHolds, PTL

\* A decoder reads from the TOC byte how the frames were coded.
THEOREM TocIsTrue == Spec => []TocTellsTheTruth
<1>1. EncoderInv => TocTellsTheTruth
  BY SaidLemma
<1>2. QED
  BY <1>1, EncoderHolds, PTL

\* No packet is wider than the caller and the API rate allow.
THEOREM NeverWider == Spec => []NoWiderThanAllowed
<1>1. EncoderInv => NoWiderThanAllowed
  BY SaidLemma
<1>2. QED
  BY <1>1, EncoderHolds, PTL

\* The encoder's own fade to mono never takes the place of the channels set.
THEOREM ForceAlwaysSticks == Spec => ForceSticks
<1>1. EncoderInv /\ [Next]_vars => [steady'.any /\ opt.force # OpusAuto => opt'.force = opt.force]_vars
  BY ForceLemma
<1>2. QED
  BY <1>1, EncoderHolds, PTL DEF Spec, ForceSticks

\* The silence is bounded where every frame that has to be sent is: a frame that is
\* refused for want of room has started SILK's count again.
THEOREM SilenceIsBounded ==
  Spec /\ [][~(FrameTooLong \/ CeltStarves)]_vars => []SilenceBounded
<1>1. Init => SilenceCounted
  BY DEF Init, EncoderStart, Fresh, SilenceCounted, SilenceMax, DtxAfter, DtxUntil
<1>2. EncoderInv /\ SilenceCounted /\ [Next]_vars /\ [~(FrameTooLong \/ CeltStarves)]_vars
        => SilenceCounted'
  <2>1. CASE UNCHANGED vars
    BY <2>1 DEF vars, SilenceCounted
  <2>2. QED
    BY <2>1, SilenceLemma
<1>3. SilenceCounted => SilenceBounded
  <2>1. \A q \in 0..SilenceMax : q <= SilenceMax
    BY DEF SilenceMax, DtxAfter, DtxUntil
  <2>2. QED
    BY <2>1 DEF SilenceCounted, SilenceBounded
<1>4. QED
  BY <1>1, <1>2, <1>3, EncoderHolds, PTL DEF Spec

\* The frames of a packet are gathered within the caller's buffer, with the header
\* they turn out to need (PacketFits).
THEOREM PacketsFit == Spec => []PacketFits
<1>1. Init => BytesCounted
  BY DEF Init, EncoderStart, NoPacket, Sending, BytesCounted
<1>2. EncoderInv /\ BytesCounted /\ [Next]_vars => BytesCounted'
  BY BytesLemma
<1>3. EncoderInv /\ BytesCounted => PacketFits
  BY FitsLemma
<1>4. QED
  BY <1>1, <1>2, <1>3, EncoderHolds, PTL DEF Spec
=============================================================================
