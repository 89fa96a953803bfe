--------------------------- MODULE CeltMemoryProofs ---------------------------
(***************************************************************************)
(* What CELT remembers from frame to frame, for every value of the         *)
(* constants: the reservoir of the constrained rate, the energies and the  *)
(* concealment, the pitch filter.                                          *)
(*                                                                         *)
(* The constrained rate: for every set of rates, buffers, targets and      *)
(* headers.  The induction is on TypeOK and ExcessIsCounted together: that *)
(* the reservoir stays below the highest rate comes from the limit alone,  *)
(* that it counts every excess from the two ways a frame's bytes are       *)
(* charged: in full, or, when the reservoir would fall below zero, less    *)
(* than what it is short of.                                               *)
(***************************************************************************)
EXTENDS CeltRate, CeltHistory, CeltPitchFilter, TLAPS

(* What a frame is charged, and what it has, by its limit.                 *)
LEMMA GivenLemma ==
  ASSUME NEW r \in Rates, NEW buffer \in Buffers, NEW target \in Targets, NEW header \in Headers,
         vbr_reservoir \in 0..MaxRate
  PROVE  LET limit == MaxAllowed(r, buffer)
             given == Available(target, header, limit)
         IN /\ limit \in Nat /\ given \in Nat /\ given <= limit /\ given >= 2
            /\ limit <= 2 \/ 64 * limit <= r + r - vbr_reservoir
<1> DEFINE q == (r + r - vbr_reservoir) \div 64
           t == (target + 32) \div 64
<1>1. r \in Int /\ 192 <= r /\ r <= MaxRate /\ MaxRate \in Nat /\ buffer \in Nat /\ buffer >= 2
      /\ target \in Int /\ header \in Nat /\ header >= 3 /\ vbr_reservoir \in Int
  BY RatesAssumption
<1>2. q \in Int /\ 64 * q <= r + r - vbr_reservoir
  BY <1>1, SMT
<1>3. t \in Int
  BY <1>1, SMT
<1> HIDE DEF q, t
<1>4. MaxAllowed(r, buffer) = Least(Most(2, q), buffer)
  BY DEF MaxAllowed, q
<1>5. \A limit : Available(target, header, limit) = Least(limit, Most(header, t))
  BY DEF Available, t
<1>6. QED
  BY <1>1, <1>2, <1>3, <1>4, <1>5, SMT DEF Least, Most

(* What is added to a frame is worth no more than what the reservoir is    *)
(* short of.                                                               *)
LEMMA AdjustLemma ==
  ASSUME NEW res \in Int
  PROVE  /\ Adjust(res) \in Nat
         /\ res >= 0 => Adjust(res) = 0
         /\ res < 0 => 64 * Adjust(res) <= -res
BY SMT DEF Adjust

(* One frame that has its limit and its bytes leaves the reservoir within  *)
(* its bounds and every excess counted.                                    *)
LEMMA EmitLemma ==
  ASSUME TypeOK, ExcessIsCounted,
         NEW charged \in Nat, NEW bytes \in Nat,
         charged <= 2 \/ 64 * charged <= vbr_rate + vbr_rate - vbr_reservoir,
         bytes <= charged + Adjust(Charged(charged)),
         Emit(charged, bytes)
  PROVE  TypeOK' /\ ExcessIsCounted' /\ excess' = Most(0, excess + 64 * bytes - vbr_rate)
         /\ vbr_reservoir' >= vbr_reservoir + 64 * bytes - vbr_rate
<1> DEFINE res == Charged(charged)
<1>1. /\ vbr_reservoir \in Nat /\ vbr_reservoir <= MaxRate /\ excess \in Nat /\ MaxRate \in Nat
      /\ vbr_rate \in Rates /\ vbr_rate \in Nat /\ 192 <= vbr_rate /\ vbr_rate <= MaxRate
  BY RatesAssumption DEF TypeOK
<1>2. res = vbr_reservoir + 64 * charged - vbr_rate /\ res \in Int
  BY <1>1 DEF Charged
<1>3. /\ Adjust(res) \in Nat
      /\ res >= 0 => Adjust(res) = 0
      /\ res < 0 => 64 * Adjust(res) <= -res
  BY <1>2, AdjustLemma
<1>4. bytes <= charged + Adjust(res)
  OBVIOUS
<1> HIDE DEF res
<1>5. /\ vbr_reservoir' = Most(0, res)
      /\ sent' = [rate |-> vbr_rate, bytes |-> bytes]
      /\ excess' = Most(0, excess + 64 * bytes - vbr_rate)
      /\ vbr_rate' = vbr_rate
  BY DEF Emit, Kept, res
<1>6. res <= MaxRate
  BY <1>1, <1>2, SMT
<1>7. vbr_reservoir + 64 * bytes - vbr_rate <= vbr_reservoir'
  BY <1>1, <1>2, <1>3, <1>4, <1>5, SMT DEF Most
<1>8. vbr_reservoir' \in 0..MaxRate
  BY <1>1, <1>2, <1>5, <1>6, SMT DEF Most
<1>9. excess' \in Nat /\ excess' <= vbr_reservoir'
  <2>1. excess <= vbr_reservoir
    BY DEF ExcessIsCounted
  <2>2. vbr_reservoir' \in Int /\ 0 <= vbr_reservoir'
    BY <1>1, <1>8
  <2> DEFINE x == excess + 64 * bytes - vbr_rate
  <2>3. x \in Int /\ x <= vbr_reservoir'
    BY <1>1, <1>7, <2>1, <2>2, SMT
  <2>4. excess' = Most(0, x)
    BY <1>5
  <2> HIDE DEF x
  <2>5. QED
    BY <2>2, <2>3, <2>4, SMT DEF Most
<1>10. sent' \in [rate : Rates, bytes : Nat] /\ vbr_rate' \in Rates
  BY <1>1, <1>5
<1>11. QED
  BY <1>5, <1>7, <1>8, <1>9, <1>10 DEF TypeOK, ExcessIsCounted

(* What every frame with the constraint is: one that EmitLemma is about.   *)
LEMMA FrameLemma ==
  ASSUME TypeOK, ExcessIsCounted, EncodeFrame \/ EncodeSilence
  PROVE  \E charged, bytes \in Nat :
           /\ charged <= 2 \/ 64 * charged <= vbr_rate + vbr_rate - vbr_reservoir
           /\ bytes <= charged + Adjust(Charged(charged))
           /\ bytes >= 2
           /\ Emit(charged, bytes)
<1>1. vbr_reservoir \in 0..MaxRate /\ vbr_rate \in Rates /\ vbr_rate \in Int /\ vbr_reservoir \in Int
  BY RatesAssumption DEF TypeOK
<1>2. CASE EncodeSilence
  <2>1. Charged(2) \in Int
    BY <1>1 DEF Charged
  <2>2. 2 <= 2 + Adjust(Charged(2))
    BY <2>1, AdjustLemma
  <2>3. QED
    BY <1>2, <2>2 DEF EncodeSilence
<1>3. CASE EncodeFrame
  <2>1. PICK buffer \in Buffers, target \in Targets, header \in Headers :
          LET limit == MaxAllowed(vbr_rate, buffer)
              given == Available(target, header, limit)
          IN Emit(given, Least(limit, given + Adjust(Charged(given))))
    BY <1>3 DEF EncodeFrame
  <2> DEFINE limit == MaxAllowed(vbr_rate, buffer)
             given == Available(target, header, limit)
             bytes == Least(limit, given + Adjust(Charged(given)))
  <2>2. /\ limit \in Nat /\ given \in Nat /\ given <= limit /\ given >= 2
        /\ limit <= 2 \/ 64 * limit <= vbr_rate + vbr_rate - vbr_reservoir
    BY <1>1, GivenLemma
  <2>3. Emit(given, bytes)
    BY <2>1
  <2> HIDE DEF limit, given
  <2>4. Charged(given) \in Int
    BY <1>1, <2>2 DEF Charged
  <2>5. Adjust(Charged(given)) \in Nat
    BY <2>4, AdjustLemma
  <2>6. bytes \in Nat /\ bytes >= 2 /\ bytes <= given + Adjust(Charged(given))
    BY <2>2, <2>5, SMT DEF Least
  <2>7. given <= 2 \/ 64 * given <= vbr_rate + vbr_rate - vbr_reservoir
    BY <1>1, <2>2, SMT
  <2> HIDE DEF bytes
  <2>8. QED
    BY <2>2, <2>3, <2>6, <2>7
<1>4. QED
  BY <1>2, <1>3

(* The types, and what the reservoir counts.                               *)
Inv == TypeOK /\ ExcessIsCounted

(* Every frame keeps the count.                                            *)
LEMMA InvStep ==
  ASSUME Inv, [Next]_vars
  PROVE  Inv'
<1>1. CASE EncodeFrame \/ EncodeSilence
  BY <1>1, FrameLemma, EmitLemma DEF Inv
<1>2. CASE EncodeFreely
  <2>1. PICK bytes \in FreeSizes : sent' = [rate |-> vbr_rate, bytes |-> bytes]
    BY <1>2 DEF EncodeFreely
  <2>2. excess' = 0 /\ vbr_reservoir' = vbr_reservoir /\ vbr_rate' = vbr_rate
    BY <1>2 DEF EncodeFreely
  <2>3. QED
    BY <2>1, <2>2, RatesAssumption DEF Inv, TypeOK, ExcessIsCounted
<1>3. CASE SetRate
  BY <1>3 DEF SetRate, Inv, TypeOK, ExcessIsCounted
<1>4. CASE ResetState
  BY <1>4, RatesAssumption DEF ResetState, Inv, TypeOK, ExcessIsCounted
<1>5. CASE UNCHANGED vars
  BY <1>5 DEF vars, Inv, TypeOK, ExcessIsCounted
<1>6. QED
  BY <1>1, <1>2, <1>3, <1>4, <1>5 DEF Next

(* The reservoir begins empty.                                             *)
LEMMA InvInit == Init => Inv
BY RatesAssumption DEF Init, Inv, TypeOK, ExcessIsCounted

(* The reservoir stays between nothing and the highest rate (TypeOK) and   *)
(* counts every excess of the frames over their rate.                      *)
THEOREM ReservoirCounts == Spec => [](TypeOK /\ ExcessIsCounted)
<1>1. Spec => []Inv
  BY InvInit, InvStep, PTL DEF Spec
<1>2. QED
  BY <1>1, PTL DEF Inv

(* The encoder implements the promise of the constrained rate.             *)
THEOREM RateIsKept == Spec => KeepsTheContract
<1>1. Init => Contract!Init
  BY RatesAssumption DEF Init, Contract!Init, Contract!Frames
<1>2. ASSUME Inv, [Next]_vars
      PROVE  [Contract!Next]_(Contract!vars)
  <2>0. Inv'
    BY <1>2, InvStep
  <2>1. CASE EncodeFrame \/ EncodeSilence
    <3>1. PICK charged \in Nat, bytes \in Nat :
            /\ charged <= 2 \/ 64 * charged <= vbr_rate + vbr_rate - vbr_reservoir
            /\ bytes <= charged + Adjust(Charged(charged))
            /\ bytes >= 2
            /\ Emit(charged, bytes)
      BY <1>2, <2>1, FrameLemma DEF Inv
    <3>2. /\ excess' = Most(0, excess + 64 * bytes - vbr_rate)
          /\ vbr_reservoir' >= vbr_reservoir + 64 * bytes - vbr_rate
      BY <1>2, <3>1, EmitLemma DEF Inv
    <3>3. sent' = [rate |-> vbr_rate, bytes |-> bytes]
      BY <3>1 DEF Emit
    <3>4. vbr_reservoir \in Int /\ excess \in Int /\ vbr_rate \in Int /\ vbr_reservoir' \in 0..MaxRate
          /\ sent' \in [rate : Rates, bytes : Nat]
      BY <1>2, <2>0, RatesAssumption DEF Inv, TypeOK
    <3>5. Contract!Charge(sent') = 64 * bytes - vbr_rate
      BY <3>3 DEF Contract!Charge
    <3>6. vbr_reservoir' >= vbr_reservoir + Contract!Charge(sent')
      BY <3>2, <3>4, <3>5, SMT
    <3>7. excess' = Contract!AtLeastZero(excess + Contract!Charge(sent'))
      BY <3>2, <3>4, <3>5, SMT DEF Contract!AtLeastZero, Most
    <3>8. QED
      BY <3>4, <3>6, <3>7 DEF Contract!Next, Contract!Send, Contract!Frames
  <2>2. CASE EncodeFreely
    BY <2>0, <2>2 DEF EncodeFreely, Contract!Next, Contract!Restart, Contract!Frames, Inv, TypeOK
  <2>3. CASE SetRate
    BY <2>3 DEF SetRate, Contract!vars
  <2>4. CASE ResetState
    BY <2>0, <2>4 DEF ResetState, Contract!Next, Contract!Restart, Contract!Frames, Inv, TypeOK
  <2>5. CASE UNCHANGED vars
    BY <2>5 DEF vars, Contract!vars
  <2>6. QED
    BY <1>2, <2>1, <2>2, <2>3, <2>4, <2>5 DEF Next
<1>3. Spec => []Inv
  BY InvInit, InvStep, PTL DEF Spec
<1>4. QED
  BY <1>1, <1>2, <1>3, PTL DEF Spec, Contract!Spec, KeepsTheContract

(* What the promise is worth: no run of frames is larger than its rate by  *)
(* more than the room.                                                     *)
THEOREM PromiseBounds == Contract!Spec => []Contract!KeepsToTheRate
<1> DEFINE CInv == /\ vbr_reservoir \in 0..MaxRate
                   /\ excess \in Nat /\ excess <= vbr_reservoir
<1>1. Contract!Init => CInv
  BY RatesAssumption DEF Contract!Init
<1>2. ASSUME CInv, [Contract!Next]_(Contract!vars)
      PROVE  CInv'
  <2>0. \A r \in Rates : r \in Int
    BY RatesAssumption
  <2>1. CASE Contract!Send
    <3> DEFINE c == Contract!Charge(sent')
    <3>1. c \in Int
      BY <2>0, <2>1 DEF Contract!Send, Contract!Charge, Contract!Frames
    <3>2. /\ vbr_reservoir' \in 0..MaxRate
          /\ vbr_reservoir' >= vbr_reservoir + c
          /\ excess' = Contract!AtLeastZero(excess + c)
      BY <2>1 DEF Contract!Send
    <3> HIDE DEF c
    <3>3. vbr_reservoir \in Int /\ excess \in Int /\ excess <= vbr_reservoir
      BY <1>2, RatesAssumption
    <3>4. excess' \in Nat /\ excess' <= vbr_reservoir'
      BY <3>1, <3>2, <3>3, RatesAssumption, SMT DEF Contract!AtLeastZero
    <3>5. QED
      BY <3>2, <3>4
  <2>2. CASE Contract!Restart
    BY <1>2, <2>2, RatesAssumption DEF Contract!Restart
  <2>3. CASE UNCHANGED Contract!vars
    BY <1>2, <2>3 DEF Contract!vars
  <2>4. QED
    BY <1>2, <2>1, <2>2, <2>3 DEF Contract!Next
<1>3. CInv => Contract!KeepsToTheRate
  BY RatesAssumption DEF Contract!KeepsToTheRate
<1>4. QED
  BY <1>1, <1>2, <1>3, PTL DEF Contract!Spec

(* No constrained frame is left with less than the two bytes CELT needs.   *)
THEOREM NoFrameIsStarved == Spec => NoFrameStarves
<1>1. ASSUME Inv, [Next]_vars
      PROVE  [EncodeFrame => sent'.bytes >= 2]_vars
  <2>1. SUFFICES ASSUME EncodeFrame
                 PROVE  sent'.bytes >= 2
    OBVIOUS
  <2>2. PICK charged \in Nat, bytes \in Nat : bytes >= 2 /\ Emit(charged, bytes)
    BY <1>1, <2>1, FrameLemma DEF Inv
  <2>3. QED
    BY <2>2 DEF Emit
<1>2. Spec => []Inv
  BY InvInit, InvStep, PTL DEF Spec
<1>3. QED
  BY <1>1, <1>2, PTL DEF Spec, NoFrameStarves

(***************************************************************************)
(* What CELT remembers.  A frame that both ends can take is one of two     *)
(* kinds: it forgets the energies before it, so both ends have those that  *)
(* it says, or it is predicted at the decoder from what the encoder        *)
(* predicted it from.  The first is known from the frame alone, even if    *)
(* the ends are apart, the second needs the decoder's memory to be what    *)
(* the encoder's was before the frame, with nothing concealed since.       *)
(***************************************************************************)
Memories == [Channels -> [Bands -> Int]]

(* What the variables may be.                                              *)
HistoryTypes ==
  /\ enc \in Memories /\ dec \in Memories /\ air \in Frames \cup {None}
  /\ loss_duration \in 0..48
  /\ skip_plc \in BOOLEAN /\ prefilter_and_fold \in BOOLEAN
  /\ apart \in BOOLEAN /\ two \in BOOLEAN
  /\ frames_sent \in 0..MaxFrames /\ lost \in 0..MaxLosses
  /\ last \in {"reset", "frame", "pitch", "noise"} /\ gap \in {"none", "pitch", "noise"}
  /\ good \in 0..2

(* An energy grows by at most one with every frame, and falls by one with  *)
(* every concealment.                                                      *)
WithinTheCounts ==
  /\ air # None => frames_sent > 0
  /\ \A ch \in Channels, b \in Bands :
       /\ Quietest <= enc[ch][b] /\ enc[ch][b] <= frames_sent
       /\ Quietest - lost <= dec[ch][b]
       /\ dec[ch][b] <= (IF air = None THEN frames_sent ELSE frames_sent - 1)

(* The channel that a channel of the frame is coded as.                    *)
Source(f, ch) == IF f.channels = 1 THEN 1 ELSE ch

(* The energies that frame f leaves where `before' was.                 *)
Left(before, f, ch, b) ==
  IF b \notin Coded(f) THEN 0
  ELSE IF f.silence THEN Quietest
  ELSE (IF f.intra THEN 0 ELSE GreaterOf(before[Source(f, ch)][b], -9)) + f.q[Source(f, ch)]

(* With nothing on its way and nothing lost since a frame without          *)
(* prediction, both ends remember the same.                                *)
TheSameBefore ==
  air = None /\ ~apart => enc = dec

(* A frame on its way: what the encoder remembers is what the frame will   *)
(* leave at the decoder.                                                   *)
OnItsWay ==
  air # None /\ (Forgiving(air) \/ ~apart) =>
    /\ \A ch \in Channels, b \in Bands : enc[ch][b] = Left(dec, air, ch, b)
    /\ Forgiving(air) \/ air.channels = 2 \/ dec[1] = dec[2]

(* After a frame of one channel both channels are alike.                   *)
AlikeAfterMono == ~two => enc[1] = enc[2]

(* Ends that are together have no concealment behind them.                 *)
NothingConcealed == ~apart => loss_duration = 0

(* Why the pitch may not be repeated, as far back as it matters.           *)
SkipRemembers ==
  /\ last = "reset" => skip_plc
  /\ last = "noise" => skip_plc /\ loss_duration > 0
  /\ last = "frame" => good > 0 /\ (gap = "noise" /\ good < 2 => skip_plc)
  /\ last = "pitch" => gap = "pitch"
  /\ last = "noise" => gap = "noise"
  /\ last = "reset" => gap = "none"

(* The inductive invariant.                                                *)
HistoryInv ==
  /\ HistoryTypes /\ WithinTheCounts /\ TheSameBefore /\ OnItsWay
  /\ AlikeAfterMono /\ NothingConcealed /\ SkipRemembers /\ FoldIsOwed

(* The fields of a frame, and the channel each channel is coded as.        *)
LEMMA SentFrameLemma ==
  ASSUME NEW f \in Frames
  PROVE  /\ f.channels \in {1, 2} /\ f.intra \in BOOLEAN /\ f.silence \in BOOLEAN
         /\ \A ch \in Channels : f.q[ch] \in 0..1
         /\ f # None
         /\ \A ch \in Channels : Source(f, ch) \in Channels
BY SMT DEF Frames, None, Channels, Source

(* What Encoded and Decoded do to a memory, band by band: the channels that*)
(* silence counts make no difference.                                      *)
LEMMA AfterLemma ==
  ASSUME NEW f \in Frames, NEW before \in Memories, NEW count \in {f.channels, 2}
  PROVE  LET coded == Predicted(before, f)
             quiet == IF f.silence THEN Silenced(coded, count) ELSE coded
             next == Cleared(Copied(quiet, f), f)
         IN  /\ next \in Memories
             /\ \A ch \in Channels, b \in Bands : next[ch][b] = Left(before, f, ch, b)
<1> DEFINE coded == Predicted(before, f)
           quiet == IF f.silence THEN Silenced(coded, count) ELSE coded
           both == Copied(quiet, f)
           next == Cleared(both, f)
<1>1. /\ f.channels \in {1, 2} /\ f.intra \in BOOLEAN /\ f.silence \in BOOLEAN
      /\ \A ch \in Channels : f.q[ch] \in 0..1
      /\ \A ch \in Channels : Source(f, ch) \in Channels
  BY SentFrameLemma
<1>2. \A ch \in Channels, b \in Bands : before[ch][b] \in Int
  BY DEF Memories
<1>3. \A ch \in Channels, b \in Bands :
        coded[ch][b] = IF ch > f.channels \/ b \notin Coded(f) THEN before[ch][b]
                       ELSE (IF f.intra THEN 0 ELSE GreaterOf(before[ch][b], -9)) + f.q[ch]
  BY DEF Predicted
<1>4. coded \in Memories
  <2>1. coded = [ch \in Channels |-> [b \in Bands |-> coded[ch][b]]]
    BY DEF Predicted
  <2>2. \A ch \in Channels, b \in Bands : coded[ch][b] \in Int
    <3> HIDE DEF coded
    <3>1. QED
      BY <1>1, <1>2, <1>3, SMT DEF GreaterOf
  <2> HIDE DEF coded
  <2>3. QED
    BY <2>1, <2>2 DEF Memories
<1> HIDE DEF coded
<1>5. /\ quiet \in Memories
      /\ \A ch \in Channels, b \in Bands :
           quiet[ch][b] = IF f.silence /\ ch <= count THEN Quietest ELSE coded[ch][b]
  BY <1>4, SMT DEF Silenced, Memories, Quietest
<1> HIDE DEF quiet
<1>6. /\ both \in Memories
      /\ \A ch \in Channels, b \in Bands : both[ch][b] = quiet[Source(f, ch)][b]
  BY <1>5, SMT DEF Copied, Source, Memories, Channels
<1> HIDE DEF both
<1>7. /\ next \in Memories
      /\ \A ch \in Channels, b \in Bands : next[ch][b] = IF b \notin Coded(f) THEN 0 ELSE both[ch][b]
  BY <1>6, SMT DEF Cleared, Memories
<1>8. ASSUME NEW ch \in Channels, NEW b \in Bands
      PROVE  next[ch][b] = Left(before, f, ch, b)
  <2>1. CASE b \notin Coded(f)
    BY <1>7, <2>1 DEF Left
  <2>2. CASE b \in Coded(f)
    <3> DEFINE src == Source(f, ch)
    <3>1. src \in Channels /\ src <= f.channels /\ src <= count
      BY <1>1 DEF Source, Channels
    <3>2. next[ch][b] = IF f.silence THEN Quietest ELSE coded[src][b]
      BY <1>5, <1>6, <1>7, <2>2, <3>1
    <3>3. coded[src][b] = (IF f.intra THEN 0 ELSE GreaterOf(before[src][b], -9)) + f.q[src]
      <4>1. ~(src > f.channels)
        BY <1>1, <3>1 DEF Channels
      <4>2. QED
        BY <1>3, <2>2, <3>1, <4>1
    <3>4. QED
      BY <2>2, <3>2, <3>3 DEF Left
  <2>3. QED
    BY <2>1, <2>2
<1>9. QED
  BY <1>7, <1>8 DEF coded, quiet, both

(* What a frame leaves at the encoder.                                     *)
LEMMA EncodedLemma ==
  ASSUME NEW f \in Frames, enc \in Memories
  PROVE  /\ Encoded(f) \in Memories
         /\ \A ch \in Channels, b \in Bands : Encoded(f)[ch][b] = Left(enc, f, ch, b)
BY AfterLemma DEF Encoded

(* What a frame leaves at the decoder, from the memory it is predicted     *)
(* from there.                                                             *)
LEMMA DecodedLemma ==
  ASSUME NEW f \in Frames, dec \in Memories, NEW n \in Nat,
         \A ch \in Channels, b \in Bands : dec[ch][b] <= n
  PROVE  LET before == Lowered(Louder(dec, f), f)
         IN  /\ before \in Memories
             /\ \A ch \in Channels, b \in Bands : before[ch][b] <= n
             /\ Decoded(f) \in Memories
             /\ \A ch \in Channels, b \in Bands : Decoded(f)[ch][b] = Left(before, f, ch, b)
<1> DEFINE loud == Louder(dec, f)
           before == Lowered(loud, f)
<1>1. loud \in Memories /\ \A ch \in Channels, b \in Bands : loud[ch][b] <= n
  BY SMT DEF Louder, Memories, Channels, GreaterOf
<1> HIDE DEF loud
<1>2. before \in Memories /\ \A ch \in Channels, b \in Bands : before[ch][b] <= n
  BY <1>1, SMT DEF Lowered, Memories
<1> HIDE DEF before
<1>3. QED
  BY <1>2, AfterLemma DEF Decoded, before, loud

(* The energies a frame leaves.                                            *)
LEMMA LeftLemma ==
  ASSUME NEW f \in Frames, NEW before \in Memories, NEW n \in Nat,
         \A ch \in Channels, b \in Bands : before[ch][b] <= n,
         NEW ch \in Channels, NEW b \in Bands
  PROVE  Left(before, f, ch, b) \in Quietest..(n + 1)
<1>1. /\ Source(f, ch) \in Channels /\ f.q[Source(f, ch)] \in 0..1
  BY SentFrameLemma
<1>2. before[Source(f, ch)][b] \in Int /\ before[Source(f, ch)][b] <= n
  BY <1>1 DEF Memories
<1>3. QED
  BY <1>1, <1>2, SMT DEF Left, GreaterOf, Quietest

(* Both ends begin with the same energies.                                 *)
LEMMA HistoryStart == HistoryInit => HistoryInv
<1>1. SUFFICES ASSUME HistoryInit PROVE HistoryInv
  OBVIOUS
<1>2. Started \in Memories /\ \A ch \in Channels, b \in Bands : Started[ch][b] = 0
  BY DEF Started, Memories
<1>3. HistoryTypes
  <2>1. enc \in Memories /\ dec \in Memories /\ air \in Frames \cup {None}
    BY <1>1, <1>2 DEF HistoryInit
  <2>2. frames_sent \in 0..MaxFrames /\ lost \in 0..MaxLosses
    BY <1>1, RangesAssumption DEF HistoryInit
  <2>3. /\ skip_plc \in BOOLEAN /\ prefilter_and_fold \in BOOLEAN
        /\ apart \in BOOLEAN /\ two \in BOOLEAN
    BY <1>1 DEF HistoryInit
  <2>4. loss_duration \in 0..48 /\ good \in 0..2
    BY <1>1 DEF HistoryInit
  <2>5. QED
    BY <1>1, <2>1, <2>2, <2>3, <2>4 DEF HistoryInit, HistoryTypes
<1>4. WithinTheCounts
  BY <1>1, <1>2 DEF HistoryInit, WithinTheCounts, Quietest
<1>5. Started[1] = Started[2]
  BY DEF Started, Channels
<1>6. TheSameBefore /\ OnItsWay /\ AlikeAfterMono /\ NothingConcealed
  BY <1>1, <1>5 DEF HistoryInit, TheSameBefore, OnItsWay, AlikeAfterMono, NothingConcealed
<1>7. SkipRemembers /\ FoldIsOwed
  BY <1>1 DEF HistoryInit, SkipRemembers, FoldIsOwed
<1>8. QED
  BY <1>3, <1>4, <1>6, <1>7 DEF HistoryInv

(* A frame is sent.                                                        *)
LEMMA EncodeStep == HistoryInv /\ Encode => HistoryInv'
<1>1. SUFFICES ASSUME HistoryInv, Encode PROVE HistoryInv'
  OBVIOUS
<1>2. PICK f \in Frames :
        /\ f.silence => ~f.intra /\ \A ch \in Channels : f.q[ch] = 0
        /\ air' = f /\ enc' = Encoded(f)
        /\ apart' = IF f.intra \/ f.silence THEN apart ELSE apart \/ MayDiffer(f)
        /\ two' = (f.channels = 2)
  BY <1>1 DEF Encode
<1>3. /\ air = None /\ frames_sent < MaxFrames /\ frames_sent' = frames_sent + 1
      /\ dec' = dec /\ loss_duration' = loss_duration /\ skip_plc' = skip_plc
      /\ prefilter_and_fold' = prefilter_and_fold /\ lost' = lost /\ last' = last
      /\ gap' = gap /\ good' = good
  BY <1>1 DEF Encode
<1>4. /\ enc \in Memories /\ dec \in Memories /\ frames_sent \in Nat /\ MaxFrames \in Nat
      /\ apart \in BOOLEAN /\ two \in BOOLEAN /\ lost \in Nat
  BY <1>1, RangesAssumption DEF HistoryInv, HistoryTypes
<1>5. /\ f.channels \in {1, 2} /\ f.intra \in BOOLEAN /\ f.silence \in BOOLEAN /\ f # None
  BY SentFrameLemma
<1>6. /\ enc' \in Memories
      /\ \A ch \in Channels, b \in Bands : enc'[ch][b] = Left(enc, f, ch, b)
  BY <1>2, <1>4, EncodedLemma
<1>7. HistoryTypes'
  BY <1>1, <1>2, <1>3, <1>4, <1>5, <1>6 DEF HistoryInv, HistoryTypes, MayDiffer
<1>8. WithinTheCounts'
  <2>1. ASSUME NEW ch \in Channels, NEW b \in Bands
        PROVE  /\ enc'[ch][b] \in Quietest..(frames_sent + 1)
               /\ Quietest - lost <= dec[ch][b] /\ dec[ch][b] <= frames_sent
    <3>1. \A c \in Channels, d \in Bands : enc[c][d] <= frames_sent
      BY <1>1 DEF HistoryInv, WithinTheCounts
    <3>2. Left(enc, f, ch, b) \in Quietest..(frames_sent + 1)
      BY <1>4, <3>1, LeftLemma
    <3>3. QED
      BY <1>1, <1>3, <1>6, <3>2 DEF HistoryInv, WithinTheCounts
  <2>2. \A ch \in Channels, b \in Bands : dec[ch][b] \in Int /\ enc'[ch][b] \in Int
    BY <1>4, <1>6 DEF Memories
  <2>3. QED
    BY <1>2, <1>3, <1>4, <1>5, <2>1, <2>2 DEF WithinTheCounts, Quietest
<1>9. TheSameBefore'
  BY <1>2, <1>5 DEF TheSameBefore
<1>10. OnItsWay'
  <2>1. SUFFICES ASSUME Forgiving(f) \/ ~apart'
                 PROVE  /\ \A ch \in Channels, b \in Bands : enc'[ch][b] = Left(dec, f, ch, b)
                        /\ Forgiving(f) \/ f.channels = 2 \/ dec[1] = dec[2]
    BY <1>2, <1>3 DEF OnItsWay, Forgiving
  <2>2. CASE Forgiving(f)
    <3>1. \A ch \in Channels, b \in Bands : Left(enc, f, ch, b) = Left(dec, f, ch, b)
      BY <2>2 DEF Left, Forgiving
    <3>2. QED
      BY <1>6, <2>2, <3>1
  <2>3. CASE ~Forgiving(f) /\ ~apart'
    <3>1. ~apart /\ ~MayDiffer(f)
      BY <1>2, <2>3 DEF Forgiving
    <3>2. enc = dec
      BY <1>1, <1>3, <3>1 DEF HistoryInv, TheSameBefore
    <3>3. f.channels = 2 \/ ~two
      BY <1>5, <2>3, <3>1 DEF MayDiffer, Forgiving
    <3>4. f.channels = 2 \/ enc[1] = enc[2]
      BY <1>1, <3>3 DEF HistoryInv, AlikeAfterMono
    <3>5. QED
      BY <1>6, <3>2, <3>4
  <2>4. QED
    BY <2>1, <2>2, <2>3
<1>11. AlikeAfterMono'
  <2>1. SUFFICES ASSUME f.channels = 1 PROVE enc'[1] = enc'[2]
    BY <1>2, <1>5 DEF AlikeAfterMono
  <2>2. \A b \in Bands : enc'[1][b] = enc'[2][b]
    BY <1>6, <2>1 DEF Left, Source, Channels
  <2>3. enc'[1] \in [Bands -> Int] /\ enc'[2] \in [Bands -> Int]
    BY <1>6 DEF Memories, Channels
  <2>4. QED
    BY <2>2, <2>3
<1>12. NothingConcealed'
  BY <1>1, <1>2, <1>3, <1>4 DEF HistoryInv, NothingConcealed
<1>13. SkipRemembers' /\ FoldIsOwed'
  BY <1>1, <1>3 DEF HistoryInv, SkipRemembers, FoldIsOwed
<1>14. QED
  BY <1>7, <1>8, <1>9, <1>10, <1>11, <1>12, <1>13 DEF HistoryInv

(* A received frame finds the memory it was predicted from, or none.       *)
LEMMA DecodedAsSent ==
  ASSUME HistoryInv, air # None, Forgiving(air) \/ ~apart
  PROVE  Decoded(air) = enc
<1> DEFINE before == Lowered(Louder(dec, air), air)
<1>1. /\ air \in Frames /\ dec \in Memories /\ enc \in Memories /\ loss_duration \in Int
  BY DEF HistoryInv, HistoryTypes
<1>2. PICK n \in Nat : \A ch \in Channels, b \in Bands : dec[ch][b] <= n
  <2>1. frames_sent \in Nat /\ (frames_sent > 0 => frames_sent - 1 \in Nat)
    BY RangesAssumption DEF HistoryInv, HistoryTypes
  <2>2. QED
    BY <2>1 DEF HistoryInv, WithinTheCounts
<1>3. /\ Decoded(air) \in Memories
      /\ \A ch \in Channels, b \in Bands : Decoded(air)[ch][b] = Left(before, air, ch, b)
  BY <1>1, <1>2, DecodedLemma
<1>4. /\ \A ch \in Channels, b \in Bands : enc[ch][b] = Left(dec, air, ch, b)
      /\ Forgiving(air) \/ air.channels = 2 \/ dec[1] = dec[2]
  BY DEF HistoryInv, OnItsWay
<1>5. \A ch \in Channels, b \in Bands : Left(before, air, ch, b) = Left(dec, air, ch, b)
  <2>1. CASE Forgiving(air)
    <3> HIDE DEF before
    <3>1. QED
      BY <2>1 DEF Left, Forgiving
  <2>2. CASE ~Forgiving(air)
    <3>1. loss_duration = 0 /\ (air.channels = 2 \/ dec[1] = dec[2])
      BY <1>4, <2>2 DEF HistoryInv, NothingConcealed
    <3>2. before = Louder(dec, air)
      BY <3>1 DEF Lowered
    <3>3. \A ch \in Channels, b \in Bands : before[ch][b] = dec[ch][b]
      <4>1. CASE air.channels # 1
        BY <3>2, <4>1 DEF Louder
      <4>2. CASE air.channels = 1
        <5>1. dec[1] = dec[2]
          BY <3>1, <4>2
        <5>2. before = [dec EXCEPT ![1] = [b \in Bands |-> GreaterOf(dec[1][b], dec[2][b])]]
          BY <3>2, <4>2 DEF Louder
        <5> HIDE DEF before
        <5>3. \A b \in Bands : before[1][b] = dec[1][b] /\ before[2][b] = dec[2][b]
          BY <1>1, <5>1, <5>2 DEF Memories, Channels, GreaterOf
        <5>4. QED
          BY <5>3 DEF Channels
      <4>3. QED
        BY <4>1, <4>2
    <3>4. \A ch \in Channels : Source(air, ch) \in Channels
      BY <1>1, SentFrameLemma
    <3> HIDE DEF before
    <3>5. QED
      BY <3>3, <3>4 DEF Left
  <2>3. QED
    BY <2>1, <2>2
<1>6. \A ch \in Channels, b \in Bands : Decoded(air)[ch][b] = enc[ch][b]
  BY <1>3, <1>4, <1>5
<1>7. QED
  <2> DEFINE d == Decoded(air)
  <2>1. d \in [Channels -> [Bands -> Int]] /\ enc \in [Channels -> [Bands -> Int]]
    BY <1>1, <1>3 DEF Memories
  <2>2. \A ch \in Channels, b \in Bands : d[ch][b] = enc[ch][b]
    BY <1>6
  <2> HIDE DEF d
  <2>3. \A ch \in Channels : d[ch] = enc[ch]
    BY <2>1, <2>2
  <2>4. d = enc
    BY <2>1, <2>3
  <2>5. QED
    BY <2>4 DEF d

(* A frame is received.                                                    *)
LEMMA DecodeStep == HistoryInv /\ Decode => HistoryInv'
<1>1. SUFFICES ASSUME HistoryInv, Decode PROVE HistoryInv'
  OBVIOUS
<1>2. /\ air # None /\ air' = None /\ dec' = Decoded(air)
      /\ skip_plc' = IF loss_duration = 0 THEN FALSE ELSE skip_plc
      /\ prefilter_and_fold' = FALSE /\ loss_duration' = 0
      /\ last' = "frame" /\ good' = LesserOf(good + 1, 2)
      /\ apart' = IF Forgiving(air) THEN FALSE ELSE apart
      /\ enc' = enc /\ frames_sent' = frames_sent /\ lost' = lost /\ gap' = gap /\ two' = two
  BY <1>1 DEF Decode
<1>3. /\ enc \in Memories /\ dec \in Memories /\ air \in Frames
      /\ frames_sent \in Nat /\ frames_sent > 0 /\ frames_sent - 1 \in Nat /\ lost \in Nat
      /\ good \in 0..2 /\ apart \in BOOLEAN /\ skip_plc \in BOOLEAN
  BY <1>1, <1>2, RangesAssumption DEF HistoryInv, HistoryTypes, WithinTheCounts
<1>4. good' \in 1..2 /\ (good > 0 => good' = 2)
  BY <1>2, <1>3, SMT DEF LesserOf
<1>5. /\ dec' \in Memories
      /\ \A ch \in Channels, b \in Bands : dec'[ch][b] \in Quietest..frames_sent
  <2> DEFINE before == Lowered(Louder(dec, air), air)
  <2>1. \A ch \in Channels, b \in Bands : dec[ch][b] <= frames_sent - 1
    BY <1>1, <1>2 DEF HistoryInv, WithinTheCounts
  <2>2. /\ before \in Memories
        /\ \A ch \in Channels, b \in Bands : before[ch][b] <= frames_sent - 1
        /\ Decoded(air) \in Memories
        /\ \A ch \in Channels, b \in Bands : Decoded(air)[ch][b] = Left(before, air, ch, b)
    BY <1>3, <2>1, DecodedLemma
  <2> HIDE DEF before
  <2>3. \A ch \in Channels, b \in Bands : Left(before, air, ch, b) \in Quietest..(frames_sent - 1 + 1)
    BY <1>3, <2>2, LeftLemma
  <2>4. frames_sent - 1 + 1 = frames_sent
    BY <1>3
  <2>5. QED
    BY <1>2, <2>2, <2>3, <2>4
<1>6. HistoryTypes'
  <2>1. /\ skip_plc' \in BOOLEAN /\ prefilter_and_fold' \in BOOLEAN
        /\ apart' \in BOOLEAN /\ two' \in BOOLEAN
    BY <1>1, <1>2, <1>3 DEF HistoryInv, HistoryTypes
  <2>2. loss_duration' \in 0..48 /\ good' \in 0..2
    BY <1>2, <1>4
  <2>3. frames_sent' \in 0..MaxFrames /\ lost' \in 0..MaxLosses
    BY <1>1, <1>2 DEF HistoryInv, HistoryTypes
  <2>4. last' \in {"reset", "frame", "pitch", "noise"} /\ gap' \in {"none", "pitch", "noise"}
    BY <1>1, <1>2 DEF HistoryInv, HistoryTypes
  <2>5. QED
    BY <1>2, <1>3, <1>5, <2>1, <2>2, <2>3, <2>4 DEF HistoryTypes
<1>7. WithinTheCounts'
  <2>1. ASSUME NEW ch \in Channels, NEW b \in Bands
        PROVE  /\ Quietest <= enc[ch][b] /\ enc[ch][b] <= frames_sent
               /\ Quietest - lost <= dec'[ch][b] /\ dec'[ch][b] <= frames_sent
    <3>1. dec'[ch][b] \in Quietest..frames_sent
      BY <1>5
    <3>2. QED
      BY <1>1, <1>3, <3>1 DEF HistoryInv, WithinTheCounts, Quietest
  <2>2. QED
    BY <1>2, <1>3, <2>1 DEF WithinTheCounts
<1>8. TheSameBefore'
  BY <1>1, <1>2, DecodedAsSent DEF TheSameBefore
<1>9. OnItsWay' /\ AlikeAfterMono' /\ NothingConcealed'
  BY <1>1, <1>2 DEF HistoryInv, OnItsWay, AlikeAfterMono, NothingConcealed
<1>10. FoldIsOwed'
  BY <1>2 DEF FoldIsOwed
<1>11. SkipRemembers'
  <2>1. ASSUME gap = "noise", good' < 2 PROVE skip_plc'
    <3>1. ~(good > 0)
      BY <1>4, <2>1
    <3>2. last = "noise"
      BY <1>1, <2>1, <3>1 DEF HistoryInv, HistoryTypes, SkipRemembers
    <3>3. QED
      BY <1>1, <1>2, <3>2 DEF HistoryInv, HistoryTypes, SkipRemembers
  <2>2. good' > 0
    BY <1>4
  <2>3. QED
    BY <1>2, <2>1, <2>2 DEF SkipRemembers
<1>12. QED
  BY <1>6, <1>7, <1>8, <1>9, <1>10, <1>11 DEF HistoryInv

(* A concealment: energies fall by one where noise is played, and the way  *)
(* it conceals is remembered.                                              *)
LEMMA ConcealLemma ==
  ASSUME HistoryInv, NEW start, Conceal(start), apart' = TRUE
  PROVE  /\ dec' \in Memories
         /\ \A ch \in Channels, b \in Bands : dec'[ch][b] \in {dec[ch][b], dec[ch][b] - 1}
         /\ lost' = lost + 1 /\ lost < MaxLosses
         /\ loss_duration' \in 1..48 /\ skip_plc' \in BOOLEAN /\ prefilter_and_fold' \in BOOLEAN
         /\ last' \in {"pitch", "noise"} /\ gap' \in {"pitch", "noise"} /\ good' = 0
         /\ SkipRemembers' /\ FoldIsOwed' /\ NothingConcealed'
<1>1. /\ lost < MaxLosses /\ lost' = lost + 1 /\ good' = 0
      /\ loss_duration' = LesserOf(loss_duration + 8, 48)
  BY DEF Conceal
<1>2. /\ dec \in Memories /\ skip_plc \in BOOLEAN /\ loss_duration \in 0..48
  BY DEF HistoryInv, HistoryTypes
<1>3. loss_duration' \in 1..48
  BY <1>1, <1>2, SMT DEF LesserOf
<1>4. CASE NoiseBased(start)
  <2>1. /\ dec' = [ch \in Channels |-> [b \in Bands |-> dec[ch][b] - 1]]
        /\ prefilter_and_fold' = FALSE /\ skip_plc' = TRUE /\ last' = "noise" /\ gap' = "noise"
    BY <1>4 DEF Conceal
  <2>2. /\ dec' \in Memories
        /\ \A ch \in Channels, b \in Bands : dec'[ch][b] = dec[ch][b] - 1
    BY <1>2, <2>1 DEF Memories
  <2>3. skip_plc' \in BOOLEAN /\ prefilter_and_fold' \in BOOLEAN
    BY <2>1
  <2>4. SkipRemembers' /\ FoldIsOwed' /\ NothingConcealed'
    BY <1>3, <2>1 DEF SkipRemembers, FoldIsOwed, NothingConcealed
  <2>5. QED
    BY <1>1, <1>3, <2>1, <2>2, <2>3, <2>4
<1>5. CASE ~NoiseBased(start)
  <2>1. /\ dec' = dec /\ skip_plc' = skip_plc
        /\ prefilter_and_fold' = TRUE /\ last' = "pitch" /\ gap' = "pitch"
    BY <1>5 DEF Conceal
  <2>2. QED
    BY <1>1, <1>2, <1>3, <2>1 DEF SkipRemembers, FoldIsOwed, NothingConcealed
<1>6. QED
  BY <1>4, <1>5

(* A frame is lost, or none was sent.                                      *)
LEMMA LossStep ==
  ASSUME HistoryInv, LoseFrame \/ Pause
  PROVE  HistoryInv'
<1>1. /\ \E start : Conceal(start)
      /\ apart' = TRUE /\ air' = None
      /\ enc' = enc /\ frames_sent' = frames_sent /\ two' = two
  BY DEF LoseFrame, Pause
<1>2. /\ dec' \in Memories
      /\ \A ch \in Channels, b \in Bands : dec'[ch][b] \in {dec[ch][b], dec[ch][b] - 1}
      /\ lost' = lost + 1 /\ lost < MaxLosses
      /\ loss_duration' \in 1..48 /\ skip_plc' \in BOOLEAN /\ prefilter_and_fold' \in BOOLEAN
      /\ last' \in {"pitch", "noise"} /\ gap' \in {"pitch", "noise"} /\ good' = 0
      /\ SkipRemembers' /\ FoldIsOwed' /\ NothingConcealed'
  BY <1>1, ConcealLemma
<1>3. /\ enc \in Memories /\ dec \in Memories /\ lost \in Nat /\ MaxLosses \in Nat
      /\ frames_sent \in 0..MaxFrames /\ frames_sent \in Nat /\ two \in BOOLEAN
  BY RangesAssumption DEF HistoryInv, HistoryTypes
<1>4. HistoryTypes'
  BY <1>1, <1>2, <1>3 DEF HistoryTypes
<1>5. WithinTheCounts'
  <2>1. ASSUME NEW ch \in Channels, NEW b \in Bands
        PROVE  /\ Quietest <= enc[ch][b] /\ enc[ch][b] <= frames_sent
               /\ Quietest - (lost + 1) <= dec'[ch][b] /\ dec'[ch][b] <= frames_sent
    <3>1. dec[ch][b] \in Int /\ enc[ch][b] \in Int
      BY <1>3 DEF Memories
    <3>2. /\ Quietest <= enc[ch][b] /\ enc[ch][b] <= frames_sent
          /\ Quietest - lost <= dec[ch][b] /\ dec[ch][b] <= frames_sent
      BY <1>3, <3>1 DEF HistoryInv, WithinTheCounts
    <3>3. dec'[ch][b] \in {dec[ch][b], dec[ch][b] - 1}
      BY <1>2
    <3>4. QED
      BY <1>3, <3>1, <3>2, <3>3 DEF Quietest
  <2>2. QED
    BY <1>1, <1>2, <2>1 DEF WithinTheCounts
<1>6. TheSameBefore' /\ OnItsWay' /\ AlikeAfterMono'
  BY <1>1 DEF HistoryInv, TheSameBefore, OnItsWay, AlikeAfterMono
<1>7. QED
  BY <1>2, <1>4, <1>5, <1>6 DEF HistoryInv

(* Both ends begin anew.                                                   *)
LEMMA ResetStep == HistoryInv /\ Reset => HistoryInv'
<1>1. SUFFICES ASSUME HistoryInv, Reset PROVE HistoryInv'
  OBVIOUS
<1>2. Started \in Memories /\ \A ch \in Channels, b \in Bands : Started[ch][b] = 0
  BY DEF Started, Memories
<1>3. Started[1] = Started[2]
  BY DEF Started, Channels
<1>4. /\ frames_sent \in 0..MaxFrames /\ frames_sent \in Nat /\ lost \in 0..MaxLosses /\ lost \in Nat
      /\ air \in Frames \cup {None} /\ air = None /\ air' = air
      /\ frames_sent' = frames_sent /\ lost' = lost
  BY <1>1, RangesAssumption DEF HistoryInv, HistoryTypes, Reset
<1>5. HistoryTypes'
  <2>1. /\ skip_plc' \in BOOLEAN /\ prefilter_and_fold' \in BOOLEAN
        /\ apart' \in BOOLEAN /\ two' \in BOOLEAN
    BY <1>1 DEF Reset
  <2>2. loss_duration' \in 0..48 /\ good' \in 0..2
    BY <1>1 DEF Reset
  <2>3. QED
    BY <1>1, <1>2, <1>4, <2>1, <2>2 DEF Reset, HistoryTypes
<1>6. WithinTheCounts'
  BY <1>1, <1>2, <1>4 DEF Reset, WithinTheCounts, Quietest
<1>7. TheSameBefore' /\ OnItsWay' /\ AlikeAfterMono' /\ NothingConcealed'
  BY <1>1, <1>3, <1>4 DEF Reset, TheSameBefore, OnItsWay, AlikeAfterMono, NothingConcealed
<1>8. SkipRemembers' /\ FoldIsOwed'
  BY <1>1 DEF Reset, SkipRemembers, FoldIsOwed
<1>9. QED
  BY <1>5, <1>6, <1>7, <1>8 DEF HistoryInv

(* The energies of both ends, a frame on its way between them and the way  *)
(* gaps are filled stay as HistoryInv says.                                *)
THEOREM HistoryHolds == HistorySpec => []HistoryInv
<1>1. HistoryInv /\ UNCHANGED historyVars => HistoryInv'
  <2>1. SUFFICES ASSUME HistoryInv, UNCHANGED historyVars PROVE HistoryInv'
    OBVIOUS
  <2>2. HistoryTypes' /\ WithinTheCounts' /\ FoldIsOwed' /\ SkipRemembers'
    BY <2>1 DEF HistoryInv, historyVars, HistoryTypes, WithinTheCounts, FoldIsOwed, SkipRemembers
  <2>3. TheSameBefore' /\ OnItsWay' /\ AlikeAfterMono' /\ NothingConcealed'
    BY <2>1 DEF HistoryInv, historyVars, TheSameBefore, OnItsWay, AlikeAfterMono, NothingConcealed
  <2>4. QED
    BY <2>2, <2>3 DEF HistoryInv
<1>2. HistoryInv /\ [HistoryNext]_historyVars => HistoryInv'
  BY <1>1, EncodeStep, DecodeStep, LossStep, ResetStep DEF HistoryNext
<1>3. QED
  BY <1>2, HistoryStart, PTL DEF HistorySpec

(* What is remembered serves the next frame, at both ends.                 *)
THEOREM MemoryAlwaysServes == HistorySpec => MemoryServes
<1>1. HistoryInv => HistoryTypeOK
  <2>1. SUFFICES ASSUME HistoryInv PROVE HistoryTypeOK
    OBVIOUS
  <2>2. ASSUME NEW m \in {enc, dec}, NEW ch \in Channels, NEW b \in Bands
        PROVE  m[ch][b] \in (Quietest - MaxLosses - MaxFrames)..MaxFrames
    <3>1. m[ch][b] \in Int
      BY <2>1 DEF HistoryInv, HistoryTypes, Memories
    <3>2. /\ frames_sent \in Nat /\ frames_sent <= MaxFrames /\ lost \in Nat /\ lost <= MaxLosses
          /\ MaxFrames \in Nat /\ MaxLosses \in Nat
      BY <2>1, RangesAssumption DEF HistoryInv, HistoryTypes
    <3>3. Quietest - lost <= m[ch][b] /\ m[ch][b] <= frames_sent
      <4>1. enc[ch][b] \in Int /\ dec[ch][b] \in Int
        BY <2>1 DEF HistoryInv, HistoryTypes, Memories
      <4>2. QED
        BY <2>1, <3>2, <4>1 DEF HistoryInv, WithinTheCounts, Quietest
    <3>4. QED
      BY <3>1, <3>2, <3>3 DEF Quietest
  <2>3. QED
    BY <2>1, <2>2 DEF HistoryInv, HistoryTypes, HistoryTypeOK
<1>2. HistoryInv => EnergiesAgree
  <2>1. CodedSometimes \subseteq Bands
    BY RangesAssumption DEF CodedSometimes, Bands
  <2>2. QED
    BY <2>1 DEF HistoryInv, TheSameBefore, EnergiesAgree
<1>3. HistoryInv => FoldIsOwed
  BY DEF HistoryInv
<1>4. ASSUME HistoryInv, [HistoryNext]_historyVars
      PROVE  [lost' > lost /\ last' = "pitch" =>
                \/ last = "pitch"
                \/ last = "frame" /\ (gap = "noise" => good >= 2)]_historyVars
  <2>1. SUFFICES ASSUME HistoryNext, lost' > lost, last' = "pitch"
                 PROVE  \/ last = "pitch"
                        \/ last = "frame" /\ (gap = "noise" => good >= 2)
    BY <1>4
  <2>2. lost \in Nat
    BY <1>4, RangesAssumption DEF HistoryInv, HistoryTypes
  <2>3. PICK start : Conceal(start)
    BY <2>1, <2>2 DEF HistoryNext, Encode, Decode, Reset, LoseFrame, Pause
  <2>4. ~skip_plc
    BY <2>1, <2>3 DEF Conceal, NoiseBased
  <2>5. QED
    BY <1>4, <2>4 DEF HistoryInv, HistoryTypes, SkipRemembers
<1>5. QED
  BY <1>1, <1>2, <1>3, <1>4, HistoryHolds, PTL DEF HistorySpec, MemoryServes, PitchNeedsMemory

(***************************************************************************)
(* The pitch filter.  How far the decoder's filters are the encoder's      *)
(* depends on what was played since the last concealment: after one frame  *)
(* its last filter is, after two, or one that is longer than a unit, the   *)
(* one before it too, as far as the next frame still needs it.             *)
(***************************************************************************)
(* A filter that either end may have: in use only with a period on the     *)
(* wire.                                                                   *)
Usable(f) == f \in Filters /\ (f.on => f.period >= MinPeriod)

(* What the variables may be; the encoder lays the filter it goes on from. *)
FilterTypes ==
  /\ Usable(pre) /\ Usable(old) /\ Usable(cur)
  /\ laid \in Filters \X Filters /\ tail \in Filters \X Filters
  /\ fold \in BOOLEAN /\ restart \in BOOLEAN /\ run \in 0..Enough
  /\ laid[2] = Filter(pre)

(* How much of the filters agrees by the number of frames played since a   *)
(* loss.                                                                   *)
TogetherSince ==
  /\ run >= 1 /\ ~restart => Filter(cur) = Filter(pre)
  /\ run = Enough /\ ~restart => Pair(old, cur) = laid
  /\ restart => laid = Still

(* What was heard last.                                                    *)
HeardRight ==
  /\ DOMAIN heard.was = DOMAIN heard.undone
  /\ MirrorsTheEncoder /\ MendsAfterLoss /\ FoldIsUndone

(* The inductive invariant.                                                *)
FilterInv == FilterTypes /\ TogetherSince /\ HeardRight

(***************************************************************************)
(* The wire.                                                               *)
(***************************************************************************)
LEMMA PowersLemma ==
  /\ TwoTo[0] = 1 /\ TwoTo[1] = 2 /\ TwoTo[2] = 4 /\ TwoTo[3] = 8 /\ TwoTo[4] = 16
  /\ TwoTo[5] = 32 /\ TwoTo[6] = 64 /\ TwoTo[7] = 128
<1>1. \A k \in 0..7 : TwoTo[k] = <<1, 2, 4, 8, 16, 32, 64, 128>>[k + 1]
  BY DEF TwoTo
<1>2. QED
  BY <1>1, SMT

(* A period that the filter may have lies in one of the octaves.           *)
LEMMA OctaveLemma ==
  ASSUME NEW p \in MinPeriod..(History - 2)
  PROVE  /\ Octave(p) \in 0..(Octaves - 1)
         /\ Base * TwoTo[Octave(p)] \in Int
<1> DEFINE In(k) == p + 1 >= Base * TwoTo[k] /\ p + 1 < Base * TwoTo[k + 1]
<1>1. /\ MinPeriod \in Nat /\ History \in Nat /\ p \in Nat /\ Base \in Nat
      /\ Base <= p + 1 /\ p + 1 < Base * 64
  <2>1. /\ MinPeriod \in Nat /\ History \in Nat /\ Base = MinPeriod + 1
        /\ History <= (MinPeriod + 1) * TwoTo[6]
    BY FilterAssumption DEF Base, Largest, Octaves
  <2>2. QED
    BY <2>1, PowersLemma, SMT
<1>2. \/ In(0) \/ In(1) \/ In(2) \/ In(3) \/ In(4) \/ In(5)
  BY <1>1, PowersLemma, SMT
<1>3. \E k \in 0..6 : In(k)
  BY <1>2
<1>4. Octave(p) = CHOOSE k \in 0..6 : In(k)
  BY DEF Octave
<1>5. Octave(p) \in 0..6 /\ In(Octave(p))
  <2> HIDE DEF In
  <2>1. QED
    BY <1>3, <1>4
<1>6. Octave(p) # 6
  <2>1. ~In(6)
    BY <1>1, PowersLemma, SMT
  <2>2. QED
    BY <1>5, <2>1
<1>7. Octave(p) \in {0, 1, 2, 3, 4, 5}
  <2> HIDE DEF In
  <2>1. QED
    BY <1>5, <1>6, SMT
<1>8. Base * TwoTo[Octave(p)] \in Int
  BY <1>1, <1>7, PowersLemma, SMT
<1>9. QED
  BY <1>7, <1>8 DEF Octaves

(* What is sent is got.                                                    *)
LEMMA WireLemma ==
  ASSUME NEW f, Usable(f)
  PROVE  /\ f.on => Got(Sent(f)) = f
         /\ Usable(Got(Sent(f)))
         /\ Filter(Got(Sent(f))) = Filter(f)
<1>1. CASE ~f.on
  <2>1. Got(Sent(f)) = Off
    BY <1>1 DEF Got, Sent
  <2>2. Usable(Off) /\ ~Off.on
    BY FilterAssumption DEF Usable, Filters, Off
  <2>3. QED
    BY <1>1, <2>1, <2>2 DEF Filter
<1>2. CASE f.on
  <2> DEFINE from == Base * TwoTo[Octave(f.period)]
  <2>1. /\ f.period \in Int /\ f.period \in MinPeriod..(History - 2)
        /\ f = [period |-> f.period, tapset |-> f.tapset, on |-> f.on] /\ f.on = TRUE
    BY <1>2, FilterAssumption DEF Usable, Filters
  <2>2. from \in Int
    BY <2>1, OctaveLemma
  <2>3. Got(Sent(f)) = [period |-> from + (f.period + 1 - from) - 1, tapset |-> f.tapset, on |-> TRUE]
    BY <1>2 DEF Got, Sent
  <2> HIDE DEF from
  <2>4. from + (f.period + 1 - from) - 1 = f.period
    BY <2>1, <2>2
  <2>5. Got(Sent(f)) = f
    BY <2>1, <2>3, <2>4
  <2>6. QED
    BY <2>5
<1>3. QED
  BY <1>1, <1>2

(* What the encoder may choose is usable.                                  *)
LEMMA ChoiceLemma ==
  ASSUME NEW kind, NEW tapset \in Tapsets, NEW f \in Choices(kind, tapset)
  PROVE  Usable(f) /\ (kind # "plain" => ~f.on)
<1>1. /\ MinPeriod \in Nat /\ History \in Nat /\ History > MinPeriod + 2
      /\ \A p \in Found : p \in Nat /\ p >= MinPeriod
  BY FilterAssumption
<1>2. CASE f = [period |-> MinPeriod, tapset |-> tapset, on |-> FALSE]
  BY <1>1, <1>2 DEF Usable, Filters
<1>3. CASE kind = "plain" /\ \E p \in Found, on \in BOOLEAN :
                                f = [period |-> Period(p), tapset |-> tapset, on |-> on]
  <2>1. PICK p \in Found, on \in BOOLEAN : f = [period |-> Period(p), tapset |-> tapset, on |-> on]
    BY <1>3
  <2>2. Period(p) \in MinPeriod..(History - 2)
    BY <1>1, SMT DEF Period, Shorter
  <2>3. Period(p) \in 0..(History - 2) /\ Period(p) >= MinPeriod
    BY <1>1, <2>2
  <2>4. QED
    BY <1>3, <2>1, <2>3 DEF Usable, Filters
<1>4. QED
  BY <1>2, <1>3 DEF Choices

(* The filters that a unit goes from and to, as they are on the wire.      *)
LEMMA PairLemma ==
  ASSUME NEW a, NEW b, Usable(a), Usable(b)
  PROVE  /\ Pair(a, b) \in Filters \X Filters
         /\ Pair(a, b)[1] = Filter(a) /\ Pair(a, b)[2] = Filter(b)
<1>1. \A f : Usable(f) => Filter(f) \in Filters
  BY FilterAssumption DEF Usable, Filter, Filters, Off
<1>2. QED
  BY <1>1 DEF Pair

(***************************************************************************)
(* The steps.                                                              *)
(***************************************************************************)
LEMMA OffLemma == Usable(Off) /\ Filter(Off) = Off /\ Still \in Filters \X Filters
                  /\ Still[2] = Off /\ Pair(Off, Off) = Still
<1>1. Usable(Off) /\ Off \in Filters /\ ~Off.on
  BY FilterAssumption DEF Usable, Filters, Off
<1>2. QED
  BY <1>1 DEF Filter, Pair, Still

(* Nothing was heard: nothing is wrong.                                    *)
LEMMA NothingLemma ==
  heard = Nothing => HeardRight
BY DEF Nothing, HeardRight, MirrorsTheEncoder, MendsAfterLoss, FoldIsUndone, Enough

(* Both ends begin without a filter.                                       *)
LEMMA FilterStart == FilterInit => FilterInv
<1>1. SUFFICES ASSUME FilterInit PROVE FilterInv
  OBVIOUS
<1>2. FilterTypes
  <2>1. fold \in BOOLEAN /\ restart \in BOOLEAN
    BY <1>1 DEF FilterInit
  <2>2. run \in 0..Enough
    BY <1>1 DEF FilterInit, Enough
  <2>3. QED
    BY <1>1, <2>1, <2>2, OffLemma DEF FilterInit, FilterTypes
<1>3. TogetherSince
  BY <1>1, OffLemma DEF FilterInit, TogetherSince, Enough
<1>4. QED
  BY <1>1, <1>2, <1>3, NothingLemma DEF FilterInit, FilterInv

(* A frame is played.                                                      *)
LEMMA ReceiveStep ==
  ASSUME FilterInv, NEW f, Usable(f), NEW n \in Sizes, Receive(f, n)
  PROVE  FilterInv'
<1> DEFINE units == Units(pre, f, n)
           w == Got(Sent(f))
<1>1. n \in Nat /\ n >= 1
  BY FilterAssumption
<1>2. Usable(w) /\ Filter(w) = Filter(f)
  BY WireLemma
<1>3. /\ ~restart /\ restart' = restart
      /\ pre' = f /\ laid' = units[n] /\ tail' = units[n] /\ fold' = FALSE
      /\ heard' = [since |-> run, folded |-> fold, memory |-> Memory,
                   was |-> Late(units), undone |-> Played(w, n)]
      /\ old' = OldAfter(w, n) /\ cur' = w
      /\ run' = Shorter(Enough, run + IF n > 1 THEN 2 ELSE 1)
  BY DEF Receive
<1>4. /\ DOMAIN units = 1..n
      /\ units[1] = Pair(pre, f)
      /\ \A i \in 2..n : units[i] = Pair(f, f)
  BY <1>1 DEF Units
<1>5. /\ Usable(pre) /\ Usable(cur) /\ Usable(old) /\ run \in 0..2 /\ restart = FALSE
      /\ laid[2] = Filter(pre)
  BY <1>3 DEF FilterInv, FilterTypes, Enough
<1>6. /\ n = 1 => units[n] = Pair(pre, f)
      /\ n > 1 => units[n] = Pair(f, f)
  BY <1>1, <1>4
<1> HIDE DEF units, w
<1>7. /\ n = 1 => run' = (IF run = 0 THEN 1 ELSE 2)
      /\ n > 1 => run' = 2
  BY <1>1, <1>3, <1>5, SMT DEF Shorter, Enough
<1>8. FilterTypes'
  <2>1. units[n] \in Filters \X Filters /\ units[n][2] = Filter(f)
    BY <1>1, <1>5, <1>6, PairLemma
  <2>2. Usable(old')
    BY <1>2, <1>3, <1>5 DEF OldAfter
  <2>3. run' \in 0..Enough
    BY <1>1, <1>7 DEF Enough
  <2>4. Usable(pre)' /\ Usable(old)' /\ Usable(cur)'
    BY <1>2, <1>3, <2>2 DEF Usable
  <2>5. Filter(pre)' = Filter(f)
    BY <1>3 DEF Filter
  <2>6. fold' \in BOOLEAN /\ restart' \in BOOLEAN
    BY <1>3, <1>5
  <2>7. QED
    BY <1>3, <2>1, <2>3, <2>4, <2>5, <2>6 DEF FilterTypes
<1>9. TogetherSince'
  <2>1. Filter(cur)' = Filter(pre)'
    BY <1>2, <1>3 DEF Filter
  <2>2. ASSUME run' = 2 PROVE Pair(old, cur)' = laid'
    <3>1. Pair(old, cur)' = <<Filter(OldAfter(w, n)), Filter(w)>>
      BY <1>3 DEF Pair, Filter
    <3>2. CASE n > 1
      BY <1>2, <1>3, <1>6, <3>1, <3>2 DEF OldAfter, Pair
    <3>3. CASE n = 1
      <4>1. run >= 1
        BY <1>5, <1>7, <2>2, <3>3
      <4>2. Filter(cur) = Filter(pre)
        BY <1>3, <4>1 DEF FilterInv, TogetherSince
      <4>3. OldAfter(w, n) = cur
        BY <3>3 DEF OldAfter
      <4>4. QED
        BY <1>2, <1>3, <1>6, <3>1, <3>3, <4>2, <4>3 DEF Pair
    <3>4. QED
      BY <1>1, <3>2, <3>3
  <2>3. QED
    BY <1>3, <1>5, <2>1, <2>2 DEF TogetherSince, Enough
<1>10. HeardRight'
  <2> DEFINE was == Late(units)
             undone == Played(w, n)
  <2>1. /\ DOMAIN was = 1..n /\ DOMAIN undone = 1..n
        /\ was[1] = laid /\ undone[1] = Pair(old, cur)
    BY <1>1, <1>4 DEF Late, Played
  <2>2. n > 1 => was[2] = Pair(pre, f) /\ undone[2] = Pair(cur, f)
    <3>1. n > 1 => was[2] = units[1] /\ undone[2] = Pair(cur, w)
      BY <1>1, <1>4 DEF Late, Played
    <3>2. QED
      BY <1>2, <1>4, <3>1 DEF Pair
  <2>3. ASSUME NEW i \in 3..n PROVE was[i] = undone[i]
    <3>1. i \in 1..n /\ i # 1 /\ i # 2 /\ i - 1 \in 2..n
      BY <1>1, <2>3
    <3>2. was[i] = units[i - 1] /\ undone[i] = Pair(w, w)
      BY <1>4, <3>1 DEF Late, Played
    <3>3. QED
      BY <1>2, <1>4, <3>1, <3>2 DEF Pair
  <2>4. /\ run >= 1 => Filter(cur) = Filter(pre)
        /\ run = 2 => Pair(old, cur) = laid
    BY <1>3 DEF FilterInv, TogetherSince, Enough
  <2>5. \A a, b : Pair(a, b)[2] = Filter(b)
    BY DEF Pair
  <2>6. run = 2 => was[1] = undone[1]
    BY <2>1, <2>4
  <2>7. run >= 1 => was[1][2] = undone[1][2]
    BY <1>5, <2>1, <2>4, <2>5
  <2>8. n > 1 /\ run >= 1 => was[2] = undone[2]
    BY <2>2, <2>4 DEF Pair
  <2>9. n > 1 => was[2][2] = undone[2][2]
    BY <2>2, <2>5
  <2>10. fold => Memory[2] = undone[1][2]
    BY <2>1, <2>5 DEF Memory
  <2> HIDE DEF was, undone
  <2>11. /\ heard'.since = run /\ heard'.folded = fold /\ heard'.memory = Memory
         /\ heard'.was = was /\ heard'.undone = undone
    BY <1>3 DEF was, undone
  <2>12. MirrorsTheEncoder'
    <3>1. ASSUME run = 2 PROVE was = undone
      <4>1. \A i \in 1..n : was[i] = undone[i]
        BY <1>1, <2>3, <2>6, <2>8, <3>1
      <4>2. was = [i \in 1..n |-> was[i]] /\ undone = [i \in 1..n |-> undone[i]]
        BY <2>1 DEF was, undone, Late, Played
      <4>3. QED
        BY <4>1, <4>2
    <3>2. QED
      BY <2>11, <3>1 DEF MirrorsTheEncoder, Enough
  <2>13. MendsAfterLoss'
    <3>1. ASSUME NEW i \in 1..n
          PROVE  /\ i > 2 - run => was[i] = undone[i]
                 /\ i = 2 - run => was[i][2] = undone[i][2]
      <4>1. CASE i = 1
        BY <1>5, <2>6, <2>7, <4>1
      <4>2. CASE i = 2
        BY <1>1, <1>5, <2>8, <2>9, <3>1, <4>2
      <4>3. CASE i > 2
        BY <1>1, <1>5, <2>3, <4>3
      <4>4. QED
        BY <1>1, <4>1, <4>2, <4>3
    <3>2. QED
      BY <2>1, <2>11, <3>1 DEF MendsAfterLoss
  <2>14. FoldIsUndone'
    BY <2>10, <2>11 DEF FoldIsUndone
  <2>15. QED
    BY <2>1, <2>11, <2>12, <2>13, <2>14 DEF HeardRight
<1>11. QED
  BY <1>8, <1>9, <1>10 DEF FilterInv

(* A frame is lost.                                                        *)
LEMMA LoseStep ==
  ASSUME FilterInv, NEW f, Usable(f), NEW n \in Sizes, Lose(f, n)
  PROVE  FilterInv'
<1>1. /\ ~restart /\ restart' = restart /\ pre' = f /\ laid' = Units(pre, f, n)[n]
      /\ fold' \in BOOLEAN /\ tail' = Still /\ run' = 0 /\ heard' = Nothing
      /\ old' = old /\ cur' = cur
  BY DEF Lose
<1>2. n \in Nat /\ n >= 1
  BY FilterAssumption
<1>3. Usable(pre) /\ Usable(old) /\ Usable(cur) /\ restart \in BOOLEAN
  BY DEF FilterInv, FilterTypes
<1>4. \/ Units(pre, f, n)[n] = Pair(pre, f)
      \/ Units(pre, f, n)[n] = Pair(f, f)
  BY <1>2 DEF Units
<1>5. laid' \in Filters \X Filters /\ laid'[2] = Filter(f)
  BY <1>1, <1>3, <1>4, PairLemma
<1>6. FilterTypes'
  <2>1. Usable(pre)' /\ Usable(old)' /\ Usable(cur)' /\ Filter(pre)' = Filter(f)
    BY <1>1, <1>3 DEF Usable, Filter
  <2>2. QED
    BY <1>1, <1>3, <1>5, <2>1, OffLemma DEF FilterTypes, Enough
<1>7. TogetherSince'
  BY <1>1 DEF TogetherSince, Enough
<1>8. HeardRight'
  BY <1>1 DEF Nothing, HeardRight, MirrorsTheEncoder, MendsAfterLoss, FoldIsUndone, Enough
<1>9. QED
  BY <1>6, <1>7, <1>8 DEF FilterInv

(* The encoder begins anew: the filter it goes on from is off.             *)
LEMMA RestartStep ==
  ASSUME FilterInv, Restart
  PROVE  FilterInv'
<1>1. /\ restart' = TRUE
      /\ old' = old /\ cur' = cur /\ fold' = fold /\ tail' = tail /\ run' = run /\ heard' = heard
  BY DEF Restart
<1>2. Usable(pre') /\ Filter(pre') = Off /\ laid' = Still
  <2>1. CASE pre' = Off /\ laid' = Still
    BY <2>1, OffLemma
  <2>2. CASE \E tapset \in Tapsets : \E f \in Choices(PrefillKind, tapset) :
               pre' = f /\ laid' = Pair(Off, f)
    <3>1. PICK tapset \in Tapsets : \E f \in Choices(PrefillKind, tapset) :
            pre' = f /\ laid' = Pair(Off, f)
      BY <2>2
    <3>2. PICK f \in Choices(PrefillKind, tapset) : pre' = f /\ laid' = Pair(Off, f)
      BY <3>1
    <3>3. PrefillKind # "plain"
      BY DEF PrefillKind
    <3>4. Usable(f) /\ ~f.on
      BY <3>3, ChoiceLemma
    <3>5. QED
      BY <3>2, <3>4, OffLemma DEF Pair, Filter, Still
  <2>3. QED
    BY <2>1, <2>2 DEF Restart
<1>3. FilterTypes'
  <2>1. Usable(pre)' /\ Filter(pre)' = Off
    BY <1>2 DEF Usable, Filter
  <2>2. Usable(old)' /\ Usable(cur)'
    BY <1>1 DEF FilterInv, FilterTypes, Usable
  <2>3. QED
    BY <1>1, <1>2, <2>1, <2>2, OffLemma DEF FilterInv, FilterTypes
<1>4. TogetherSince'
  BY <1>1, <1>2 DEF TogetherSince
<1>5. HeardRight'
  BY <1>1 DEF FilterInv, HeardRight, MirrorsTheEncoder, MendsAfterLoss, FoldIsUndone
<1>6. QED
  BY <1>3, <1>4, <1>5 DEF FilterInv

(* The decoder begins anew.                                                *)
LEMMA RestartedStep ==
  ASSUME FilterInv, Restarted
  PROVE  FilterInv'
<1>1. /\ restart /\ restart' = FALSE /\ old' = Off /\ cur' = Off /\ fold' = FALSE /\ tail' = Still
      /\ run' = Enough /\ heard' = Nothing /\ pre' = pre /\ laid' = laid
  BY DEF Restarted
<1>2. Usable(pre) /\ laid = Still /\ laid[2] = Filter(pre)
  BY <1>1 DEF FilterInv, FilterTypes, TogetherSince
<1>3. FilterTypes'
  <2>1. Usable(pre)' /\ Usable(old)' /\ Usable(cur)' /\ Filter(pre)' = Filter(pre)
    BY <1>1, <1>2, OffLemma DEF Usable, Filter
  <2>2. fold' \in BOOLEAN /\ restart' \in BOOLEAN
    BY <1>1
  <2>3. run' \in 0..Enough
    BY <1>1 DEF Enough
  <2>4. QED
    BY <1>1, <1>2, <2>1, <2>2, <2>3, OffLemma DEF FilterTypes
<1>4. TogetherSince'
  <2>1. Filter(cur)' = Off /\ Filter(pre)' = Off /\ Pair(old, cur)' = Still
    BY <1>1, <1>2, OffLemma DEF Filter, Pair
  <2>2. QED
    BY <1>1, <1>2, <2>1 DEF TogetherSince
<1>5. HeardRight'
  BY <1>1 DEF Nothing, HeardRight, MirrorsTheEncoder, MendsAfterLoss, FoldIsUndone, Enough
<1>6. QED
  BY <1>3, <1>4, <1>5 DEF FilterInv

(* How far the filters of the two ends agree is as FilterInv says, after   *)
(* any losses.                                                             *)
THEOREM FilterHolds == FilterSpec => []FilterInv
<1>1. FilterInv /\ UNCHANGED filterVars => FilterInv'
  BY DEF filterVars, FilterInv, FilterTypes, TogetherSince, HeardRight, Usable, Filter, Pair,
         MirrorsTheEncoder, MendsAfterLoss, FoldIsUndone
<1>2. ASSUME NEW f \in Filtered PROVE Usable(f)
  BY <1>2, ChoiceLemma DEF Filtered
<1>3. FilterInv /\ [FilterNext]_filterVars => FilterInv'
  BY <1>1, <1>2, ReceiveStep, LoseStep, RestartStep, RestartedStep DEF FilterNext, Received, Lost
<1>4. QED
  BY <1>3, FilterStart, PTL DEF FilterSpec

(* What the encoder's filter takes out the decoder's puts back.            *)
THEOREM FiltersAlwaysAgree == FilterSpec => []FiltersAgree
<1>1. FilterInv => FiltersAgree
  <2>1. SUFFICES ASSUME FilterInv PROVE FiltersAgree
    OBVIOUS
  <2>2. FilterTypeOK
    BY <2>1 DEF FilterInv, FilterTypes, Usable, FilterTypeOK, HeardRight
  <2>3. PeriodFits
    <3>1. SUFFICES ASSUME pre.on PROVE /\ pre.period + 2 <= History
                                       /\ Octave(pre.period) < Octaves
                                       /\ Got(Sent(pre)) = pre
      BY DEF PeriodFits
    <3>2. /\ Usable(pre) /\ pre.period \in MinPeriod..(History - 2)
          /\ History \in Nat /\ MinPeriod \in Nat
      BY <2>1, <3>1, FilterAssumption DEF FilterInv, FilterTypes, Usable, Filters
    <3>3. Octave(pre.period) \in 0..(Octaves - 1)
      BY <3>2, OctaveLemma
    <3>4. Got(Sent(pre)) = pre
      BY <3>1, <3>2, WireLemma
    <3>5. QED
      BY <3>2, <3>3, <3>4 DEF Octaves
  <2>4. QED
    BY <2>1, <2>2, <2>3 DEF FilterInv, HeardRight, FiltersAgree
<1>2. QED
  BY <1>1, FilterHolds, PTL
===============================================================================
