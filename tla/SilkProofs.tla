------------------------------ MODULE SilkProofs ------------------------------
(***************************************************************************)
(* SILK's gains, its rate loop, and the link between its two ends, for     *)
(* every value of their constants.                                         *)
(*                                                                         *)
(* The gains: for every scale, every pair of steps and every slack that    *)
(* GainsAssumption admits.  A step is a function of the last level that    *)
(* never brings two levels further apart; a sent level forgets all of the  *)
(* past but what the slack leaves.  Everything follows from that, and from *)
(* the decoder being at Fresh, within the slack of nothing, after a loss.  *)
(***************************************************************************)
EXTENDS SilkLink, SilkGains, SilkRateLoop, TLAPS

(* A concealment leaves the decoder where it began.                        *)
LostIsFresh == way = "lost" => decGain = Fresh

(* The types, and where a concealment leaves the decoder.                  *)
GainsInv == GainsTypeOK /\ LostIsFresh

(* A level on the scale, from any gain.                                    *)
LEMMA LevelLemma ==
  ASSUME NEW raw \in Raw, NEW prev \in 0..(Levels - 1)
  PROVE  Level(raw, prev) \in 0..(Levels - 1)
BY GainsAssumption, SMT DEF Level, Limit, Least, Most

(* What is sent as a level lies on the scale, no further down than Down.   *)
LEMMA SentLevelLemma ==
  ASSUME NEW raw \in Raw, NEW prev \in 0..(Levels - 1)
  PROVE  /\ SentLevel(raw, prev) \in 0..(Levels - 1)
         /\ SentLevel(raw, prev) >= prev - Down
<1> DEFINE l == Level(raw, prev)
<1>1. l \in 0..(Levels - 1)
  BY LevelLemma
<1>2. SentLevel(raw, prev) = Most(l, prev - Down)
  BY DEF SentLevel
<1> HIDE DEF l
<1>3. QED
  BY <1>1, <1>2, GainsAssumption, SMT DEF Most

(* What is sent as a step is one.                                          *)
LEMMA SentStepLemma ==
  ASSUME NEW raw \in Raw, NEW prev \in 0..(Levels - 1)
  PROVE  /\ SentStep(raw, prev) \in (-Down)..Up
         /\ AfterStep(SentStep(raw, prev), prev) \in 0..(Levels - 1)
<1> DEFINE l == Level(raw, prev)
           d == l - prev
           t == Threshold(prev)
           half == (d - t + 1) \div 2
           s == SentStep(raw, prev)
<1>1. l \in 0..(Levels - 1)
  BY LevelLemma
<1>2. d \in Int /\ d = l - prev
  BY <1>1, GainsAssumption, SMT
<1>3. t \in Int /\ t = 2 * Up - Levels + prev
  BY GainsAssumption, SMT DEF Threshold
<1>4. s = Limit(IF d > t THEN t + half ELSE d, -Down, Up)
  BY DEF SentStep
<1>5. AfterStep(s, prev) = IF s > t THEN Least(prev + 2 * s - t, Levels - 1)
                           ELSE prev + s
  BY DEF AfterStep, Step
<1> HIDE DEF l, d, t, s
<1>6. half \in Int /\ (d > t => half >= 1 /\ 2 * half <= d - t + 1)
  BY <1>2, <1>3, SMT
<1> HIDE DEF half
<1>7. s \in (-Down)..Up
  BY <1>2, <1>3, <1>4, <1>6, GainsAssumption, SMT DEF Limit, Least, Most
<1>8. prev + s >= 0
  BY <1>1, <1>2, <1>3, <1>4, <1>6, GainsAssumption, SMT DEF Limit, Least, Most
<1>9. s <= t => prev + s <= Levels - 1
  BY <1>1, <1>2, <1>3, <1>4, <1>6, GainsAssumption, SMT DEF Limit, Least, Most
<1>10. AfterStep(s, prev) \in 0..(Levels - 1)
  BY <1>3, <1>5, <1>7, <1>8, <1>9, GainsAssumption, SMT DEF Least
<1>11. QED
  BY <1>7, <1>10 DEF s

(* The encoder remembers what a decoder in its place would.                *)
LEMMA SameStep ==
  ASSUME NEW raw \in Raw, NEW prev \in 0..(Levels - 1)
  PROVE  AfterStep(SentStep(raw, prev), prev) = TakenStep(SentStep(raw, prev), prev)
<1> DEFINE s == SentStep(raw, prev)
<1>1. s \in Int /\ AfterStep(s, prev) \in 0..(Levels - 1)
  BY SentStepLemma, GainsAssumption, SMT
<1> HIDE DEF s
<1>2. QED
  BY <1>1, GainsAssumption, SMT DEF AfterStep, TakenStep, Step, Threshold, Limit, Least, Most, s

(* A step brings no two levels further apart.                              *)
LEMMA StepsDoNotSpread ==
  ASSUME NEW d \in Int, NEW a \in 0..(Levels - 1), NEW b \in 0..(Levels - 1)
  PROVE  Gap(TakenStep(d, a), TakenStep(d, b)) <= Gap(a, b)
<1>1. \A x \in 0..(Levels - 1) :
        Step(d, x) = IF d > 2 * Up - Levels + x THEN 2 * d - 2 * Up + Levels ELSE x + d
  BY GainsAssumption, SMT DEF Step, Threshold
<1>2. Step(d, a) \in Int /\ Step(d, b) \in Int /\ Gap(Step(d, a), Step(d, b)) <= Gap(a, b)
  BY <1>1, GainsAssumption, SMT DEF Gap, Most
<1>3. QED
  BY <1>2, GainsAssumption, SMT DEF TakenStep, Limit, Least, Most, Gap

(* A decoder stays on the scale.                                           *)
LEMMA TakenLemma ==
  ASSUME NEW i \in Int, NEW prev \in 0..(Levels - 1)
  PROVE  TakenLevel(i, prev) \in 0..(Levels - 1) /\ TakenStep(i, prev) \in 0..(Levels - 1)
<1>1. TakenLevel(i, prev) \in 0..(Levels - 1)
  BY GainsAssumption, SMT DEF TakenLevel, Limit, Least, Most
<1>2. TakenStep(i, prev) \in 0..(Levels - 1)
  <2>1. Step(i, prev) \in Int
    BY GainsAssumption, SMT DEF Step, Threshold
  <2>2. QED
    BY <2>1, GainsAssumption, SMT DEF TakenStep, Limit, Least, Most
<1>3. QED
  BY <1>1, <1>2

(* Type correctness, and that a concealment leaves the decoder at Fresh.   *)
LEMMA GainsInductive == GainsInv /\ [GainsNext]_gainVars => GainsInv'
<1> SUFFICES ASSUME GainsInv, [GainsNext]_gainVars PROVE GainsInv'
  OBVIOUS
<1>0. encGain \in 0..(Levels - 1) /\ decGain \in 0..(Levels - 1) /\ Fresh \in 0..(Levels - 1)
  BY GainsAssumption, SMT DEF GainsInv, GainsTypeOK
<1>1. ASSUME NEW raw \in Raw, NEW w \in Ways, SendLevel(raw, w) PROVE GainsInv'
  <2>1. SentLevel(raw, encGain) \in 0..(Levels - 1)
    BY <1>0, SentLevelLemma
  <2>2. encGain' \in 0..(Levels - 1) /\ way' \in Ways /\ first' \in BOOLEAN
    BY <1>1, <2>1 DEF SendLevel
  <2>3. \A more \in Raised : Least(SentLevel(raw, encGain) + more, Levels - 1) \in Int
    BY <2>1, GainsAssumption, SMT DEF Least
  <2>4. decGain' \in 0..(Levels - 1)
    <3>1. \A i \in Int : TakenLevel(i, decGain) \in 0..(Levels - 1)
      BY <1>0, TakenLemma
    <3>2. TakenLevel(SentLevel(raw, encGain), decGain) \in 0..(Levels - 1)
      BY <2>1, <3>1, GainsAssumption, SMT
    <3>3. QED
      BY <1>0, <1>1, <2>3, <3>1, <3>2 DEF SendLevel, AfterLoss
  <2>5. LostIsFresh'
    BY <1>1 DEF SendLevel, LostIsFresh, AfterLoss
  <2>6. QED
    BY <2>2, <2>4, <2>5 DEF GainsInv, GainsTypeOK
<1>2. ASSUME NEW raw \in Raw, SendStep(raw) PROVE GainsInv'
  <2>1. SentStep(raw, encGain) \in (-Down)..Up /\ AfterStep(SentStep(raw, encGain), encGain) \in 0..(Levels - 1)
    BY <1>0, SentStepLemma
  <2>2. SentStep(raw, encGain) \in Int
        /\ \A more \in Raised : Least(SentStep(raw, encGain) + Down + more, Levels - 1) \in Int
    BY <2>1, GainsAssumption, SMT DEF Least
  <2>3. encGain' \in 0..(Levels - 1) /\ way' = way /\ first' \in BOOLEAN
    BY <1>2, <2>1 DEF SendStep
  <2>4. decGain' \in 0..(Levels - 1)
    <3>1. \A i \in Int : /\ TakenLevel(i, decGain) \in 0..(Levels - 1)
                         /\ TakenStep(i, decGain) \in 0..(Levels - 1)
      BY <1>0, TakenLemma
    <3>2. QED
      BY <1>0, <1>2, <2>2, <3>1 DEF SendStep, AfterLoss
  <2>5. LostIsFresh'
    BY <1>2 DEF SendStep, LostIsFresh, AfterLoss
  <2>6. QED
    BY <2>3, <2>4, <2>5 DEF GainsInv, GainsTypeOK
<1>3. ASSUME Restart PROVE GainsInv'
  BY <1>0, <1>3 DEF Restart, GainsInv, GainsTypeOK, LostIsFresh, Ways
<1>4. ASSUME UNCHANGED gainVars PROVE GainsInv'
  BY <1>4 DEF gainVars, GainsInv, GainsTypeOK, LostIsFresh
<1>5. QED
  BY <1>1, <1>2, <1>3, <1>4 DEF GainsNext

(* Both memories stay on the scale; after a concealment the decoder is at  *)
(* Fresh.                                                                  *)
THEOREM GainsOnTheScale == GainsSpec => []GainsInv
<1>1. GainsInit => GainsInv
  <2>1. Fresh \in 0..(Levels - 1)
    BY GainsAssumption, SMT
  <2>2. QED
    BY <2>1 DEF GainsInit, GainsInv, GainsTypeOK, LostIsFresh, Ways
<1>2. QED
  BY <1>1, GainsInductive, PTL DEF GainsSpec

(* What a packet that is received does to the two ends.                    *)
LEMMA ReceivedLevel ==
  ASSUME GainsInv, NEW raw \in Raw, SendLevel(raw, "received")
  PROVE  /\ Gap(encGain', decGain') <= Most(0, Gap(encGain, decGain) - (Slack - Down))
         /\ Gap(encGain', decGain') <= Gap(encGain, decGain)
         /\ decGain <= Slack => encGain' = decGain'
<1> DEFINE i == SentLevel(raw, encGain)
<1>1. encGain \in 0..(Levels - 1) /\ decGain \in 0..(Levels - 1)
  BY DEF GainsInv, GainsTypeOK
<1>2. i \in 0..(Levels - 1) /\ i >= encGain - Down
  BY <1>1, SentLevelLemma
<1>3. encGain' = i /\ decGain' = TakenLevel(i, decGain)
  BY DEF SendLevel
<1> HIDE DEF i
<1>4. QED
  BY <1>1, <1>2, <1>3, GainsAssumption, SMT DEF TakenLevel, Limit, Least, Most, Gap

(* What a step that is received does to them.                              *)
LEMMA ReceivedStep ==
  ASSUME GainsInv, NEW raw \in Raw, SendStep(raw), way = "received"
  PROVE  Gap(encGain', decGain') <= Gap(encGain, decGain)
<1> DEFINE d == SentStep(raw, encGain)
<1>1. encGain \in 0..(Levels - 1) /\ decGain \in 0..(Levels - 1)
  BY DEF GainsInv, GainsTypeOK
<1>2. d \in Int
  BY <1>1, SentStepLemma, GainsAssumption, SMT
<1>3. encGain' = TakenStep(d, encGain)
  BY <1>1, SameStep DEF SendStep
<1>4. decGain' = TakenStep(d, decGain)
  BY DEF SendStep
<1> HIDE DEF d
<1>5. QED
  BY <1>1, <1>2, <1>3, <1>4, StepsDoNotSpread

(* Ends that agree go on to agree, and ends that do not come no further    *)
(* apart, over every subframe that is received.                            *)
THEOREM GapNeverGrows == GainsSpec => NeverFurtherApart
<1>1. GainsInv /\ [GainsNext]_gainVars
        => [way' = "received" => Gap(encGain', decGain') <= Gap(encGain, decGain)]_gainVars
  <2> SUFFICES ASSUME GainsInv, [GainsNext]_gainVars, way' = "received", ~UNCHANGED gainVars
               PROVE  Gap(encGain', decGain') <= Gap(encGain, decGain)
    OBVIOUS
  <2>1. ASSUME NEW raw \in Raw, NEW w \in Ways, SendLevel(raw, w)
        PROVE  Gap(encGain', decGain') <= Gap(encGain, decGain)
    <3>1. w = "received"
      BY <2>1 DEF SendLevel
    <3>2. QED
      BY <2>1, <3>1, ReceivedLevel
  <2>2. ASSUME NEW raw \in Raw, SendStep(raw) PROVE Gap(encGain', decGain') <= Gap(encGain, decGain)
    BY <2>2, ReceivedStep DEF SendStep
  <2>3. ASSUME Restart PROVE Gap(encGain', decGain') <= Gap(encGain, decGain)
    BY <2>3, GainsAssumption, SMT DEF Restart, Gap, Most, GainsInv, GainsTypeOK
  <2>4. QED
    BY <2>1, <2>2, <2>3 DEF GainsNext
<1>2. QED
  BY <1>1, GainsOnTheScale, PTL DEF GainsSpec, NeverFurtherApart

(* The first packet that is received after a concealed one puts both ends  *)
(* together.                                                               *)
THEOREM LossIsForgotten == GainsSpec => TogetherAfterLoss
<1>1. GainsInv /\ [GainsNext]_gainVars => [way = "lost" /\ way' = "received" => encGain' = decGain']_gainVars
  <2> SUFFICES ASSUME GainsInv, GainsNext, way = "lost", way' = "received"
               PROVE  encGain' = decGain'
    OBVIOUS
  <2>1. decGain <= Slack
    BY GainsAssumption, SMT DEF GainsInv, LostIsFresh
  <2>2. ASSUME NEW raw \in Raw, NEW w \in Ways, SendLevel(raw, w) PROVE encGain' = decGain'
    <3>1. w = "received"
      BY <2>2 DEF SendLevel
    <3>2. QED
      BY <2>1, <2>2, <3>1, ReceivedLevel
  <2>3. ASSUME NEW raw \in Raw, SendStep(raw) PROVE encGain' = decGain'
    BY <2>3 DEF SendStep
  <2>4. ASSUME Restart PROVE encGain' = decGain'
    BY <2>4 DEF Restart
  <2>5. QED
    BY <2>2, <2>3, <2>4 DEF GainsNext
<1>2. QED
  BY <1>1, GainsOnTheScale, PTL DEF GainsSpec, TogetherAfterLoss

(* Each packet received brings the ends closer by Slack - Down.            *)
THEOREM EveryPacketHelps == GainsSpec => CloserByEveryPacket
<1>1. GainsInv /\ [GainsNext]_gainVars
        => [first' /\ way' = "received" =>
              Gap(encGain', decGain') <= Most(0, Gap(encGain, decGain) - (Slack - Down))]_gainVars
  <2> SUFFICES ASSUME GainsInv, GainsNext, first', way' = "received"
               PROVE  Gap(encGain', decGain') <= Most(0, Gap(encGain, decGain) - (Slack - Down))
    OBVIOUS
  <2>1. ASSUME NEW raw \in Raw, NEW w \in Ways, SendLevel(raw, w)
        PROVE  Gap(encGain', decGain') <= Most(0, Gap(encGain, decGain) - (Slack - Down))
    <3>1. w = "received"
      BY <2>1 DEF SendLevel
    <3>2. QED
      BY <2>1, <3>1, ReceivedLevel
  <2>2. QED
    BY <2>1 DEF GainsNext, SendStep, Restart
<1>2. QED
  BY <1>1, GainsOnTheScale, PTL DEF GainsSpec, CloserByEveryPacket

(***************************************************************************)
(* The loop of silk_encode_frame.  What both ends of the search know of    *)
(* the versions they have is exact: the lower one fits with room to spare, *)
(* is in `best' with its bits, its gains and its quantiser; the upper one  *)
(* does not fit.  A version that was just made is in the range coder whole;*)
(* one that is recalled is not, so the loop may end with it only by taking *)
(* back the one that was kept.                                             *)
(***************************************************************************)
Found(s) == s \in [found : {TRUE}, n_bits : Bits, mult : 64..1024, id : Ids]

(* What the range coder may hold.                                          *)
Versions == [version : 0..Still, bits : Nat]
(* What the encoder may remember of a frame.                               *)
Memories == [nsq : 0..(MaxIter + 1), indices : Ids \cup {Previous}, gain : Ids \cup {Previous}]

(* What the variables of the loop may be.                                  *)
LoopTypes ==
  /\ cbr \in BOOLEAN /\ turn \in {"try", "judge", "done"}
  /\ iter \in 0..MaxIter /\ gain_mult \in 64..1024 /\ gains_id \in Ids
  /\ n_bits \in Bits \cup StillBits \cup {0}
  /\ stream \in Versions /\ state \in Memories
  /\ best \in [stream : Versions, state : Memories]

(* The two ends of the search.                                             *)
LowerIsKept ==
  \/ lower = NotFound /\ best = Nothing
  \/ /\ Found(lower) /\ lower.n_bits < MaxBits - Margin
     /\ best.stream.bits = lower.n_bits /\ best.stream.version \in 1..(MaxIter + 1)
     /\ best.state.nsq = best.stream.version
     /\ best.state.gain = lower.id /\ best.state.indices = lower.id

(* The upper one does not fit; after three turns there is none without a   *)
(* lower one, since what was too large no longer counts.                   *)
UpperIsTooLarge ==
  \/ upper = NotFound
  \/ Found(upper) /\ upper.n_bits > MaxBits /\ (iter >= 3 => lower.found)

(* What a version is judged by.                                            *)
JustMade ==
  /\ stream = [version |-> iter + 1, bits |-> n_bits]
  /\ state = [nsq |-> iter + 1, indices |-> gains_id, gain |-> gains_id]
  /\ n_bits \in Bits /\ ~Overflows(n_bits)

(* The last resort: no version fitted, and this was the last turn.         *)
WithoutPulses ==
  /\ iter = MaxIter /\ ~lower.found
  /\ stream.version = Still /\ stream.bits = n_bits
  /\ state.gain = Previous

(* Gains that were judged before: their bits are known, the range coder    *)
(* holds something else.                                                   *)
Recalled ==
  /\ stream.version # Still
  /\ \/ gains_id = lower.id /\ n_bits = lower.n_bits
     \/ gains_id = upper.id /\ n_bits = upper.n_bits

(* What the range coder and the memory hold, turn by turn.                 *)
Written ==
  /\ turn = "try" => stream.version # Still
  /\ turn = "judge" => (JustMade /\ ~Known(gains_id)) \/ WithoutPulses \/ Recalled
  /\ turn = "done" =>
       \/ /\ stream.version # Still /\ stream.bits <= MaxBits
          /\ state.nsq = stream.version /\ state.gain = state.indices
       \/ stream.version = Still /\ state.gain = Previous /\ ~lower.found

(* The inductive invariant of the loop.                                    *)
RateInv == LoopTypes /\ LowerIsKept /\ UpperIsTooLarge /\ Written

(* The bits of a version are a number.                                     *)
LEMMA BitsAreNumbers == \A b \in Bits : b \in Nat
BY RateLoopAssumption

(* The gains stay between a quarter and four times what was asked for.     *)
LEMMA ScaleLemma ==
  ASSUME NEW lo, NEW up, LoopTypes,
         lo = NotFound \/ (Found(lo) /\ lo.n_bits < MaxBits - Margin),
         up = NotFound \/ (Found(up) /\ up.n_bits > MaxBits)
  PROVE  Scaled(lo, up) \in 64..1024
<1>1. gain_mult \in 64..1024 /\ MaxBits \in Nat /\ Margin \in Nat
  BY RateLoopAssumption DEF LoopTypes
<1>2. ASSUME lo.found, up.found
      PROVE  Interpolated(lo, up) \in 64..1024
  <2> DEFINE x == lo.mult
             y == up.mult
             diff == y - x
             num == diff * (MaxBits - lo.n_bits)
             den == up.n_bits - lo.n_bits
             quarter == diff \div 4
             between == x + Toward(num, den)
  <2>1. Found(lo) /\ Found(up) /\ lo.n_bits < MaxBits - Margin /\ up.n_bits > MaxBits
    BY <1>2 DEF NotFound
  <2>2. /\ x \in 64..1024 /\ y \in 64..1024
        /\ lo.n_bits \in Nat /\ up.n_bits \in Nat
    BY <2>1, BitsAreNumbers DEF Found
  <2>3. Interpolated(lo, up) =
          IF between > x + quarter THEN x + quarter
          ELSE IF between < y - quarter THEN y - quarter ELSE between
    BY DEF Interpolated
  <2>4. den \in Int /\ den > 0
    BY <1>1, <2>1, <2>2
  <2> HIDE DEF x, y
  <2>5. diff \in Int
    BY <2>2
  <2>6. num \in Int
    <3> HIDE DEF diff
    <3>1. QED
      BY <1>1, <2>2, <2>5
  <2>7. Toward(num, den) \in Int
    <3> HIDE DEF num, den
    <3>1. num \div den \in Int /\ (-num) \div den \in Int
      BY <2>4, <2>6
    <3>2. QED
      BY <3>1 DEF Toward
  <2>8. /\ quarter \in Int
        /\ diff >= 0 => 0 <= quarter /\ quarter <= diff
        /\ diff < 0 => diff <= quarter /\ quarter <= 0
    <3> HIDE DEF diff
    <3>1. QED
      BY <2>5, SMT
  <2> DEFINE t == Toward(num, den)
  <2>9. between = x + t /\ diff = y - x
    OBVIOUS
  <2> HIDE DEF diff, quarter, between, t
  <2>10. between \in Int
    BY <2>2, <2>7, <2>9 DEF t
  <2>11. x + quarter \in 64..1024 /\ y - quarter \in 64..1024
    BY <2>2, <2>5, <2>8, <2>9, SMTT(30)
  <2>12. (~(between > x + quarter) /\ ~(between < y - quarter)) => between \in 64..1024
    BY <2>2, <2>8, <2>10, <2>11, SMT
  <2>13. QED
    BY <2>3, <2>11, <2>12
<1>3. Lesser(1024, (gain_mult * 3) \div 2) \in 64..1024
  BY <1>1, SMT DEF Lesser
<1>4. Greater(64, (gain_mult * 4) \div 5) \in 64..1024
  BY <1>1, SMT DEF Greater
<1>5. QED
  BY <1>2, <1>3, <1>4 DEF Scaled

(* The loop begins with nothing found and nothing kept.                    *)
LEMMA LoopMayStart == RateInit => RateInv
<1>1. SUFFICES ASSUME RateInit PROVE RateInv
  OBVIOUS
<1>2. LoopTypes
  <2>1. Nothing.stream \in Versions /\ Nothing.state \in Memories
    BY RateLoopAssumption DEF Versions, Memories, Nothing, Still, Previous
  <2>2. Nothing \in [stream : Versions, state : Memories]
    BY <2>1 DEF Nothing
  <2>3. stream \in Versions /\ state \in Memories
    BY <1>1, RateLoopAssumption DEF RateInit, Versions, Memories, Still
  <2>4. QED
    BY <1>1, <2>2, <2>3, RateLoopAssumption DEF RateInit, LoopTypes
<1>3. LowerIsKept /\ UpperIsTooLarge
  BY <1>1 DEF RateInit, LowerIsKept, UpperIsTooLarge
<1>4. Written
  BY <1>1, RateLoopAssumption DEF RateInit, Written, Still
<1>5. QED
  BY <1>2, <1>3, <1>4 DEF RateInv

(* Another turn begins with gains that were not judged yet.                *)
LEMMA AgainLemma ==
  ASSUME RateInv, turn = "judge", iter < MaxIter,
         NEW lo, NEW up, Again(lo, up), LowerIsKept', up = NotFound \/ (Found(up) /\ up.n_bits > MaxBits),
         best' \in [stream : Versions, state : Memories],
         up = NotFound \/ iter < 2 \/ lo.found
  PROVE  RateInv'
<1>1. /\ lower' = lo /\ upper' = up /\ gain_mult' = Scaled(lo, up)
      /\ iter' = iter + 1 /\ turn' = "try"
      /\ cbr' = cbr /\ n_bits' = n_bits /\ stream' = stream
  BY DEF Again, Counted
<1>2. PICK id \in Ids : gains_id' = id /\ state' = [state EXCEPT !.indices = id, !.gain = id]
  BY DEF Again
<1>3. gain_mult' \in 64..1024
  BY <1>1, ScaleLemma DEF RateInv, LowerIsKept
<1>4. LoopTypes'
  <2>1. state' \in Memories
    BY <1>2, ZenonT(60) DEF RateInv, LoopTypes, Memories
  <2>2. iter' \in 0..MaxIter
    BY <1>1, RateLoopAssumption DEF RateInv, LoopTypes
  <2>3. QED
    BY <1>1, <1>2, <1>3, <2>1, <2>2 DEF RateInv, LoopTypes
<1>5. UpperIsTooLarge'
  BY <1>1, RateLoopAssumption DEF RateInv, LoopTypes, UpperIsTooLarge
<1>6. stream.version # Still
  BY RateLoopAssumption DEF RateInv, LoopTypes, Written, JustMade, WithoutPulses, Recalled, Still
<1>7. Written'
  BY <1>1, <1>6 DEF Written
<1>8. QED
  BY <1>4, <1>5, <1>7 DEF RateInv

(* The fields of an end of the search that is found.                       *)
LEMMA FoundLemma ==
  ASSUME NEW s, Found(s)
  PROVE  s.found /\ s.n_bits \in Bits /\ s.n_bits \in Nat /\ s.mult \in 64..1024 /\ s.id \in Ids
BY BitsAreNumbers, ZenonT(60) DEF Found

(* An end that is not found has the gains of nobody.                       *)
LEMMA NotFoundLemma == ~NotFound.found /\ NotFound.id = Nobody
BY DEF NotFound

(* What a version that is judged may be, by what it takes.                 *)
LEMMA JudgedLemma ==
  ASSUME RateInv, turn = "judge"
  PROVE  \/ JustMade /\ ~Known(gains_id)
         \/ WithoutPulses
         \/ Recalled /\ lower.found /\ gains_id = lower.id /\ n_bits = lower.n_bits
         \/ Recalled /\ upper.found /\ gains_id = upper.id /\ n_bits = upper.n_bits
<1>1. gains_id # Nobody
  BY RateLoopAssumption DEF RateInv, LoopTypes, Nobody
<1>2. /\ gains_id = lower.id => lower.found
      /\ gains_id = upper.id => upper.found
  BY <1>1, FoundLemma, NotFoundLemma DEF RateInv, LowerIsKept, UpperIsTooLarge
<1>3. QED
  BY <1>2 DEF RateInv, Written, Recalled

(* What the ends of the search and the room are, as numbers.               *)
LEMMA EndsLemma ==
  ASSUME RateInv
  PROVE  /\ MaxBits \in Nat /\ Margin \in Nat /\ Margin <= MaxBits
         /\ n_bits \in Nat /\ iter \in Nat /\ iter <= MaxIter
         /\ lower.found => Found(lower) /\ lower.n_bits \in Nat /\ lower.n_bits < MaxBits - Margin
         /\ upper.found => Found(upper) /\ upper.n_bits \in Nat /\ upper.n_bits > MaxBits
         /\ ~lower.found => lower = NotFound /\ best = Nothing
<1>1. /\ lower.found => Found(lower) /\ lower.n_bits < MaxBits - Margin
      /\ upper.found => Found(upper) /\ upper.n_bits > MaxBits
      /\ ~lower.found => lower = NotFound /\ best = Nothing
  BY FoundLemma, NotFoundLemma DEF RateInv, LowerIsKept, UpperIsTooLarge
<1>2. \A s : Found(s) => s.n_bits \in Nat
  BY FoundLemma
<1>3. MaxBits \in Nat /\ Margin \in Nat /\ Margin <= MaxBits
  BY RateLoopAssumption
<1>4. n_bits \in Nat /\ iter \in Nat /\ iter <= MaxIter
  BY RateLoopAssumption DEF RateInv, LoopTypes
<1>5. QED
  BY <1>1, <1>2, <1>3, <1>4

(* Gains that were judged before are not quantised again.                  *)
LEMMA RecallStep == RateInv /\ Recall => RateInv'
<1>1. SUFFICES ASSUME RateInv, Recall PROVE RateInv'
  OBVIOUS
<1>2. /\ Known(gains_id) /\ turn = "try" /\ turn' = "judge"
      /\ n_bits' = IF gains_id = lower.id THEN lower.n_bits ELSE upper.n_bits
      /\ cbr' = cbr /\ iter' = iter /\ gain_mult' = gain_mult /\ gains_id' = gains_id
      /\ lower' = lower /\ upper' = upper /\ stream' = stream /\ state' = state /\ best' = best
  BY <1>1 DEF Recall
<1>3. gains_id # Nobody
  BY <1>1, RateLoopAssumption DEF RateInv, LoopTypes, Nobody
<1>4. /\ gains_id = lower.id => Found(lower)
      /\ gains_id = upper.id => Found(upper)
  BY <1>1, <1>3 DEF RateInv, LowerIsKept, UpperIsTooLarge, NotFound
<1>5. n_bits' \in Bits
  BY <1>2, <1>4, FoundLemma DEF Known
<1>6. LoopTypes'
  BY <1>1, <1>2, <1>5 DEF RateInv, LoopTypes
<1>7. LowerIsKept' /\ UpperIsTooLarge'
  BY <1>1, <1>2 DEF RateInv, LowerIsKept, UpperIsTooLarge
<1>8. Recalled'
  BY <1>1, <1>2 DEF RateInv, Written, Recalled, Known
<1>9. QED
  BY <1>2, <1>6, <1>7, <1>8 DEF RateInv, Written

(* A version is made, or, where none fitted, the pulses are given up.      *)
LEMMA QuantiseStep == RateInv /\ Quantise => RateInv'
<1>1. SUFFICES ASSUME RateInv, Quantise PROVE RateInv'
  OBVIOUS
<1>2. /\ turn = "try" /\ ~Known(gains_id)
      /\ turn' = IF ~cbr /\ iter = 0 /\ n_bits' <= MaxBits THEN "done" ELSE "judge"
      /\ cbr' = cbr /\ iter' = iter /\ gain_mult' = gain_mult /\ gains_id' = gains_id
      /\ lower' = lower /\ upper' = upper /\ best' = best
  BY <1>1 DEF Quantise
<1>3. LowerIsKept' /\ UpperIsTooLarge'
  BY <1>1, <1>2 DEF RateInv, LowerIsKept, UpperIsTooLarge
<1>4. PICK b \in Bits :
        \/ /\ ~Overflows(b)
           /\ stream' = [version |-> iter + 1, bits |-> b]
           /\ state' = [nsq |-> iter + 1, indices |-> gains_id, gain |-> gains_id]
           /\ n_bits' = b
        \/ /\ Overflows(b)
           /\ \E s \in StillBits : stream' = [version |-> Still, bits |-> s] /\ n_bits' = s
           /\ state' = GivenUp
  BY <1>1 DEF Quantise
<1>5. /\ iter \in Nat /\ iter <= MaxIter /\ MaxIter \in Nat /\ MaxIter >= 3
      /\ b \in Nat /\ gains_id \in Ids /\ \A s \in StillBits : s \in Nat
  BY <1>1, EndsLemma, RateLoopAssumption DEF RateInv, LoopTypes
<1>6. CASE /\ ~Overflows(b)
           /\ stream' = [version |-> iter + 1, bits |-> b]
           /\ state' = [nsq |-> iter + 1, indices |-> gains_id, gain |-> gains_id]
           /\ n_bits' = b
  <2>1. stream' \in Versions /\ state' \in Memories
    BY <1>5, <1>6 DEF Versions, Memories, Still
  <2>2. LoopTypes'
    BY <1>1, <1>2, <1>6, <2>1 DEF RateInv, LoopTypes
  <2>3. JustMade'
    BY <1>2, <1>6 DEF JustMade, Overflows
  <2>4. ~Known(gains_id)'
    BY <1>2 DEF Known
  <2>5. turn' = "done" => /\ stream'.version # Still /\ stream'.bits <= MaxBits
                          /\ state'.nsq = stream'.version /\ state'.gain = state'.indices
    BY <1>2, <1>5, <1>6 DEF Still
  <2>6. Written'
    BY <1>2, <2>3, <2>4, <2>5 DEF Written
  <2>7. QED
    BY <1>3, <2>2, <2>6 DEF RateInv
<1>7. CASE /\ Overflows(b)
           /\ \E s \in StillBits : stream' = [version |-> Still, bits |-> s] /\ n_bits' = s
           /\ state' = GivenUp
  <2>1. stream' \in Versions /\ state' \in Memories
    BY <1>5, <1>7 DEF Versions, Memories, Still, GivenUp, Previous
  <2>2. LoopTypes'
    BY <1>1, <1>2, <1>7, <2>1 DEF RateInv, LoopTypes
  <2>3. WithoutPulses'
    BY <1>2, <1>7 DEF WithoutPulses, Overflows, GivenUp
  <2>4. turn' = "judge"
    BY <1>2, <1>5, <1>7 DEF Overflows
  <2>5. QED
    BY <1>3, <2>2, <2>3, <2>4 DEF RateInv, Written
<1>8. QED
  BY <1>4, <1>6, <1>7

(* The loop ends: this version fits, or the one that was kept comes back.  *)
LEMMA FinishStep == RateInv /\ Finish => RateInv'
<1>1. SUFFICES ASSUME RateInv, Finish PROVE RateInv'
  OBVIOUS
<1>2. /\ turn = "judge" /\ iter = MaxIter /\ turn' = "done"
      /\ cbr' = cbr /\ iter' = iter /\ gain_mult' = gain_mult /\ gains_id' = gains_id
      /\ n_bits' = n_bits /\ lower' = lower /\ upper' = upper /\ best' = best
  BY <1>1 DEF Finish
<1>3. LowerIsKept' /\ UpperIsTooLarge'
  BY <1>1, <1>2 DEF RateInv, LowerIsKept, UpperIsTooLarge
<1>4. MaxIter \in Nat /\ MaxIter >= 3
  BY RateLoopAssumption
<1>5. CASE lower.found /\ (gains_id = lower.id \/ n_bits > MaxBits)
  <2>1. stream' = best.stream /\ state' = best.state
    BY <1>1, <1>5 DEF Finish, Restored
  <2>2. /\ best.stream.bits = lower.n_bits /\ best.stream.version \in 1..(MaxIter + 1)
        /\ best.state.nsq = best.stream.version
        /\ best.state.gain = lower.id /\ best.state.indices = lower.id
    BY <1>1, <1>5, NotFoundLemma DEF RateInv, LowerIsKept
  <2>3. lower.n_bits <= MaxBits
    BY <1>1, <1>5, EndsLemma
  <2>4. best.stream.version # Still
    BY <1>4, <2>2 DEF Still
  <2>5. Written'
    BY <1>2, <2>1, <2>2, <2>3, <2>4 DEF Written
  <2>6. LoopTypes'
    BY <1>1, <1>2, <2>1 DEF RateInv, LoopTypes
  <2>7. QED
    BY <1>3, <2>5, <2>6 DEF RateInv
<1>6. CASE ~(lower.found /\ (gains_id = lower.id \/ n_bits > MaxBits))
  <2>1. stream' = stream /\ state' = state
    BY <1>1, <1>6 DEF Finish
  <2>2. LoopTypes'
    BY <1>1, <1>2, <2>1 DEF RateInv, LoopTypes
  <2>3. \/ /\ stream.version # Still /\ stream.bits <= MaxBits
           /\ state.nsq = stream.version /\ state.gain = state.indices
        \/ stream.version = Still /\ state.gain = Previous /\ ~lower.found
    <3>1. CASE JustMade /\ ~Known(gains_id)
      <4>1. /\ stream.version = MaxIter + 1 /\ stream.bits = n_bits
            /\ state.nsq = stream.version /\ state.gain = state.indices
        BY <1>2, <3>1 DEF JustMade
      <4>2. n_bits <= MaxBits
        BY <1>1, <1>2, <1>6, <3>1, EndsLemma DEF JustMade, Overflows
      <4>3. QED
        BY <1>4, <4>1, <4>2 DEF Still
    <3>2. CASE WithoutPulses
      BY <3>2 DEF WithoutPulses
    <3>3. CASE lower.found /\ gains_id = lower.id
      BY <1>6, <3>3
    <3>4. CASE upper.found /\ gains_id = upper.id /\ n_bits = upper.n_bits
      <4>1. n_bits > MaxBits
        BY <1>1, <3>4, EndsLemma
      <4>2. lower.found
        BY <1>1, <1>2, <1>4, <3>4, NotFoundLemma DEF RateInv, UpperIsTooLarge
      <4>3. QED
        BY <1>6, <4>1, <4>2
    <3>5. QED
      BY <1>1, <1>2, <3>1, <3>2, <3>3, <3>4, JudgedLemma
  <2>4. QED
    BY <1>2, <1>3, <2>1, <2>2, <2>3 DEF RateInv, Written
<1>7. QED
  BY <1>5, <1>6

(* What is judged to be one end of the search becomes that end.            *)
LEMMA ThisLemma ==
  ASSUME RateInv, turn = "judge", n_bits \in Bits
  PROVE  Found(This) /\ This.n_bits = n_bits /\ This.id = gains_id /\ This.found
BY DEF RateInv, LoopTypes, Found, This

(* A version that is too large becomes the upper end, if it still counts.  *)
LEMMA TooLargeStep == RateInv /\ TooLarge => RateInv'
<1>1. SUFFICES ASSUME RateInv, TooLarge PROVE RateInv'
  OBVIOUS
<1> DEFINE up == IF ~lower.found /\ iter >= 2 THEN NotFound ELSE This
<1>2. /\ turn = "judge" /\ iter < MaxIter /\ n_bits > MaxBits
      /\ Again(lower, up) /\ best' = best /\ lower' = lower
  BY <1>1 DEF TooLarge, Again
<1>3. LowerIsKept'
  BY <1>1, <1>2 DEF RateInv, LowerIsKept
<1>4. n_bits \in Bits
  <2>1. CASE JustMade
    BY <2>1 DEF JustMade
  <2>2. CASE WithoutPulses
    BY <1>1, <1>2, <2>2, EndsLemma DEF WithoutPulses
  <2>3. CASE lower.found /\ n_bits = lower.n_bits
    BY <1>1, <2>3, EndsLemma, FoundLemma
  <2>4. CASE upper.found /\ n_bits = upper.n_bits
    BY <1>1, <2>4, EndsLemma, FoundLemma
  <2>5. QED
    BY <1>1, <1>2, <2>1, <2>2, <2>3, <2>4, JudgedLemma
<1>5. up = NotFound \/ (Found(up) /\ up.n_bits > MaxBits)
  BY <1>1, <1>2, <1>4, ThisLemma
<1>6. up = NotFound \/ iter < 2 \/ lower.found
  BY <1>1, EndsLemma
<1>7. best' \in [stream : Versions, state : Memories]
  BY <1>1, <1>2 DEF RateInv, LoopTypes
<1> HIDE DEF up
<1>8. QED
  BY <1>1, <1>2, <1>3, <1>5, <1>6, <1>7, AgainLemma

(* A version with room to spare becomes the lower end and is kept.         *)
LEMMA TooSmallStep == RateInv /\ TooSmall => RateInv'
<1>1. SUFFICES ASSUME RateInv, TooSmall PROVE RateInv'
  OBVIOUS
<1>2. /\ turn = "judge" /\ iter < MaxIter /\ n_bits < MaxBits - Margin
      /\ best' = Kept /\ Again(This, upper) /\ lower' = This
  BY <1>1 DEF TooSmall, Again
<1>3. ~(upper.found /\ n_bits = upper.n_bits) /\ ~WithoutPulses
  BY <1>1, <1>2, EndsLemma DEF WithoutPulses
<1>4. \/ JustMade /\ ~Known(gains_id)
      \/ lower.found /\ gains_id = lower.id /\ n_bits = lower.n_bits
  BY <1>1, <1>2, <1>3, JudgedLemma
<1>5. n_bits \in Bits
  BY <1>1, <1>4, EndsLemma, FoundLemma DEF JustMade
<1>6. Found(This) /\ This.n_bits = n_bits /\ This.id = gains_id /\ This.found
  BY <1>1, <1>2, <1>5, ThisLemma
<1>7. /\ Kept \in [stream : Versions, state : Memories]
      /\ Kept.stream.bits = n_bits /\ Kept.stream.version \in 1..(MaxIter + 1)
      /\ Kept.state.nsq = Kept.stream.version
      /\ Kept.state.gain = gains_id /\ Kept.state.indices = gains_id
  <2>1. CASE JustMade /\ ~Known(gains_id)
    <3>1. Kept = [stream |-> stream, state |-> state]
      BY <2>1 DEF Kept, Known
    <3>2. stream \in Versions /\ state \in Memories
      BY <1>1 DEF RateInv, LoopTypes
    <3>3. iter + 1 \in 1..(MaxIter + 1)
      BY <1>1, <1>2, EndsLemma, RateLoopAssumption
    <3>4. QED
      BY <2>1, <3>1, <3>2, <3>3 DEF JustMade
  <2>2. CASE lower.found /\ gains_id = lower.id /\ n_bits = lower.n_bits
    <3>1. Kept = best
      BY <2>2 DEF Kept
    <3>2. QED
      BY <1>1, <2>2, <3>1, NotFoundLemma DEF RateInv, LoopTypes, LowerIsKept
  <2>3. QED
    BY <1>4, <2>1, <2>2
<1>8. LowerIsKept'
  <2>1. Found(lower)' /\ lower'.n_bits < MaxBits - Margin
    BY <1>2, <1>6, ZenonT(60) DEF Found
  <2>2. QED
    BY <1>2, <1>6, <1>7, <2>1 DEF LowerIsKept
<1>9. upper = NotFound \/ (Found(upper) /\ upper.n_bits > MaxBits)
  BY <1>1 DEF RateInv, UpperIsTooLarge
<1>10. QED
  BY <1>1, <1>2, <1>6, <1>7, <1>8, <1>9, AgainLemma

(* A version that is close enough was just made: the ends of the search    *)
(* are not.                                                                *)
LEMMA CloseEnoughStep == RateInv /\ CloseEnough => RateInv'
<1>1. SUFFICES ASSUME RateInv, CloseEnough PROVE RateInv'
  OBVIOUS
<1>2. /\ turn = "judge" /\ iter < MaxIter /\ n_bits \in (MaxBits - Margin)..MaxBits
      /\ turn' = "done"
      /\ cbr' = cbr /\ iter' = iter /\ gain_mult' = gain_mult /\ gains_id' = gains_id
      /\ n_bits' = n_bits /\ lower' = lower /\ upper' = upper /\ best' = best
      /\ stream' = stream /\ state' = state
  BY <1>1 DEF CloseEnough
<1>3. LoopTypes' /\ LowerIsKept' /\ UpperIsTooLarge'
  BY <1>1, <1>2 DEF RateInv, LoopTypes, LowerIsKept, UpperIsTooLarge
<1>4. MaxBits - Margin <= n_bits /\ n_bits <= MaxBits
  BY <1>1, <1>2, EndsLemma
<1>5. /\ ~(lower.found /\ n_bits = lower.n_bits) /\ ~(upper.found /\ n_bits = upper.n_bits)
      /\ ~WithoutPulses
  BY <1>1, <1>2, <1>4, EndsLemma DEF WithoutPulses
<1>6. JustMade
  BY <1>1, <1>2, <1>5, JudgedLemma
<1>7. /\ stream.version # Still /\ stream.bits <= MaxBits
      /\ state.nsq = stream.version /\ state.gain = state.indices
  BY <1>1, <1>4, <1>6, EndsLemma, RateLoopAssumption DEF JustMade, Still
<1>8. QED
  BY <1>2, <1>3, <1>7 DEF RateInv, Written

(* The loop knows what its two ends are and what the range coder holds, in *)
(* every turn.                                                             *)
THEOREM LoopInvariant == RateSpec => []RateInv
<1>1. RateInv /\ [RateNext]_rateVars => RateInv'
  <2>1. RateInv /\ UNCHANGED rateVars => RateInv'
    BY DEF rateVars, RateInv, LoopTypes, LowerIsKept, UpperIsTooLarge, Written, JustMade,
           WithoutPulses, Recalled, Known, Overflows
  <2>2. QED
    BY <2>1, RecallStep, QuantiseStep, FinishStep, TooLargeStep, TooSmallStep, CloseEnoughStep
    DEF RateNext
<1>2. QED
  BY <1>1, LoopMayStart, PTL DEF RateSpec

(* Of the versions of a frame one remains, with its bits, its gains and the*)
(* quantiser's memory, and it fits or has no pulses.                       *)
THEOREM OneVersionStays == RateSpec => []OneVersionRemains
<1>1. RateInv => OneVersionRemains
  <2>1. SUFFICES ASSUME RateInv PROVE OneVersionRemains
    OBVIOUS
  <2>2. /\ {lower.mult, upper.mult} \subseteq {0} \cup (64..1024)
        /\ {lower.id, upper.id} \subseteq Ids \cup {Nobody}
    BY <2>1, FoundLemma DEF RateInv, LowerIsKept, UpperIsTooLarge, NotFound
  <2>3. RateTypeOK
    BY <2>1, <2>2, RateLoopAssumption DEF RateInv, LoopTypes, RateTypeOK, Versions, Still
  <2>4. OfOneVersion /\ FitsOrIsStill /\ StillRepeats
    BY <2>1 DEF RateInv, Written, OfOneVersion, FitsOrIsStill, StillRepeats
  <2>5. stream.version = Still => ~lower.found
    <3>1. CASE turn = "try"
      BY <2>1, <3>1 DEF RateInv, Written
    <3>2. CASE turn = "judge"
      <4>1. JustMade => stream.version # Still
        BY <2>1, EndsLemma, RateLoopAssumption DEF JustMade, Still
      <4>2. QED
        BY <2>1, <3>2, <4>1 DEF RateInv, Written, WithoutPulses, Recalled
    <3>3. CASE turn = "done"
      BY <2>1, <3>3 DEF RateInv, Written
    <3>4. QED
      BY <2>1, <3>1, <3>2, <3>3 DEF RateInv, LoopTypes
  <2>6. GivesUpLast
    BY <2>1, <2>5, EndsLemma DEF GivesUpLast
  <2>7. KeepsTheLower
    BY <2>1, NotFoundLemma DEF RateInv, LowerIsKept, KeepsTheLower
  <2>8. QED
    BY <2>3, <2>4, <2>6, <2>7 DEF OneVersionRemains
<1>2. QED
  BY <1>1, LoopInvariant, PTL

-----------------------------------------------------------------------------
(***************************************************************************)
(* The link between the two ends.  What a decoder reads next follows from  *)
(* the packet alone: a mono packet is flags, copies and frames in places   *)
(* that its set of copies determines (MonoPacket), a stereo packet is its  *)
(* predictors, a flag and one or two frames (StereoPacket).  Encoding is   *)
(* shown to leave such a packet item by item, decoding to take it item by  *)
(* item: the next item is always laid out for the one before it, which is  *)
(* what the decoder's context was left by (Follows).  Copies are kept from *)
(* one packet for the next, through every change of the settings, or are   *)
(* cleared (CopiesKept).                                                   *)
(***************************************************************************)

(* Nothing in the stream is laid out by more than the frame before it in   *)
(* its channel, and a stereo end codes one frame and no copies to a packet.*)
SoundSetup(s) ==
  2 \in Setups[s].chans => ~Setups[s].fec /\ Setups[s].ms \subseteq {10, 20}

(* Every setup is of that kind.                                            *)
Sound == \A s \in DOMAIN Setups : SoundSetup(s)

(* What a frame may be.                                                    *)
Kinds == {"inactive", "unvoiced", "voiced"}

(* Milliseconds of a packet.                                               *)
Lengths == {10, 20, 40, 60}

(* Kilohertz of a channel.                                                 *)
Rates == {8, 12, 16}

(* The subframes of a frame and its rate: what its layout depends on.      *)
Shapes == {2, 4} \X {0, 8, 12, 16}

(* What an end remembers of the frame before.                              *)
Contexts == [type : Kinds, lag : Nat]

(* How the symbols of a frame are laid out.                                *)
Layouts == [gain : {"delta", "absolute"}, table : {"vad", "no vad"}, lag : Nat,
            ltpScale : BOOLEAN, shape : Shapes]

(* A frame, or the copy of one.                                            *)
FrameItems == [kind : {"frame"}, channel : {0, 1}, frame : 0..2, layout : Layouts,
               type : Kinds, name : Nat, mem : Nat, made : Shapes]

(* Which frames of a channel have copies.                                  *)
FlagItems == [kind : {"lbrr flags"}, channel : {0, 1}, set : SUBSET (0..2)]

(* What precedes the frames of a stereo packet.                            *)
StereoItems == [kind : {"predictors"}] \cup [kind : {"mid only"}, set : BOOLEAN]

(* All of these.                                                           *)
Items == FrameItems \cup FlagItems \cup StereoItems

(* The shape of a copy, none before the first.                             *)
Made == {<<0, 0>>} \cup Shapes

(* The copies that are kept of a channel.                                  *)
Copies3 == [1..3 -> [type : Kinds, name : Nat, made : Made]]

(* A channel of the encoder.                                               *)
EncChannels == [fs : {0} \cup Rates, fresh : BOOLEAN, lbrr : SUBSET (0..2),
                copy : Copies3, ec : Contexts, mem : Nat]

(* An encoder.                                                             *)
Encoders == [chans : {1, 2}, ms : {0} \cup Lengths, midOnly : BOOLEAN, ch : [{0, 1} -> EncChannels]]

(* A channel of the decoder.                                               *)
DecChannels == [n : 0..3, frames : 0..3, sub : {2, 4}, fs : {0} \cup Rates,
                vad : SUBSET (0..2), lbrr : SUBSET (0..2), ec : Contexts, type : Kinds,
                mem : Nat, lost : BOOLEAN]

(* A decoder.                                                              *)
Decoders == [chans : {1, 2}, midOnly : BOOLEAN, ch : [{0, 1} -> DecChannels]]

(* A packet, or none yet.                                                  *)
Packets == [chans : {0, 1, 2}, ms : {0} \cup Lengths, fs : {0} \cup Rates, number : Nat,
            items : Seq(Items), vad : [{0, 1} -> SUBSET (0..2)], lbrr : [{0, 1} -> BOOLEAN]]

(* What a context remembers of a frame, and two contexts a frame cannot tell apart. *)
Said(item) == [type |-> item.type, lag |-> item.name]

(* Two contexts that no frame can tell apart: a lag counts with voiced     *)
(* ones.                                                                   *)
Alike(a, b) == a.type = b.type /\ (Voiced(a.type) => a.lag = b.lag)

(* What the item before place `at' leaves as context.                      *)
SaidBefore(items, at) == IF at > 1 THEN Said(items[at - 1]) ELSE EcFresh

(* At that place is a frame of the mid channel, laid out for what precedes *)
(* it.                                                                     *)
FrameStands(items, at, coding, flagged, shape) ==
  /\ items[at].kind = "frame" /\ items[at].channel = 0 /\ items[at].made = shape
  /\ items[at].layout = Layout(coding, flagged, items[at].type, SaidBefore(items, at), shape)

(* The elements of set below k. *)
Before(set, k) ==
  (IF k > 0 /\ 0 \in set THEN 1 ELSE 0) + (IF k > 1 /\ 1 \in set THEN 1 ELSE 0)
  + (IF k > 2 /\ 2 \in set THEN 1 ELSE 0)

(* The flags that precede the copies of a mono packet, if there are any.   *)
HeadSize(set, frames) == IF set # {} /\ frames > 1 THEN 1 ELSE 0

(* The copies of the frames below k are in their places, of packet         *)
(* `number'.                                                               *)
CopiesStand(items, set, frames, k, number, shape) ==
  \A j \in 0..2 : (j \in set /\ j < k) =>
    LET at == HeadSize(set, frames) + Before(set, j) + 1
    IN  /\ FrameStands(items, at, LbrrCoding(set, j), TRUE, shape)
        /\ items[at].name = NameOf(number, j, 0)

(* So are the frames below k, behind all of the copies.                    *)
FramesStand(items, set, frames, k, vad, shape) ==
  \A j \in 0..2 : j < k =>
    FrameStands(items, HeadSize(set, frames) + Before(set, frames) + j + 1,
                EncCoding(j, 0, FALSE), j \in vad, shape)

(* The frames whose copies packet p carries. *)
CopySet(p) ==
  IF ~p.lbrr[0] THEN {} ELSE IF FramesPerPacket(p.ms) = 1 THEN {0} ELSE p.items[1].set

(* A mono packet: flags, copies and frames, and nothing else.              *)
MonoPacket(p) ==
  LET set == CopySet(p)
      frames == FramesPerPacket(p.ms)
      shape == <<Subframes(p.ms), p.fs>>
  IN  /\ set \subseteq 0..(frames - 1)
      /\ p.lbrr[0] = (set # {})
      /\ Len(p.items) = HeadSize(set, frames) + Before(set, frames) + frames
      /\ HeadSize(set, frames) = 1 => p.items[1].kind = "lbrr flags"
      /\ CopiesStand(p.items, set, frames, frames, p.number - 1, shape)
      /\ FramesStand(p.items, set, frames, frames, p.vad[0], shape)

(* One stereo item. *)
StereoFrame(item, c, flagged, shape) ==
  /\ item.kind = "frame" /\ item.channel = c /\ item.made = shape
  /\ item.layout = Layout("independent", flagged, item.type, EcFresh, shape)

(* A stereo packet: predictors, a flag if the side is inactive, one or two *)
(* frames.                                                                 *)
StereoPacket(p) ==
  LET shape == <<Subframes(p.ms), p.fs>>
      one == IF 0 \in p.vad[1] THEN 0 ELSE 1
      only == one = 1 /\ p.items[2].set
  IN  /\ p.ms \in {10, 20}
      /\ p.lbrr = [c \in {0, 1} |-> FALSE]
      /\ Len(p.items) = one + (IF only THEN 2 ELSE 3)
      /\ p.items[1].kind = "predictors"
      /\ one = 1 => p.items[2].kind = "mid only"
      /\ StereoFrame(p.items[one + 2], 0, 0 \in p.vad[0], shape)
      /\ ~only => StereoFrame(p.items[one + 3], 1, 0 \in p.vad[1], shape)

(* The packet on its way is one of these.                                  *)
PacketHolds ==
  /\ phase \in {"sent", "decoding"} => packet.chans \in {1, 2}
  /\ packet.chans = 1 => MonoPacket(packet)
  /\ packet.chans = 2 => StereoPacket(packet)
  /\ packet.chans \in {1, 2} => packet.ms \in Lengths /\ packet.fs \in Rates

(* Copies the encoder keeps for its next packet. *)
CopiesKept(e, number) ==
  \A j \in 0..2 : j \in e.ch[0].lbrr =>
    /\ j < FramesPerPacket(e.ms)
    /\ e.ch[0].copy[j + 1].name = NameOf(number, j, 0)
    /\ e.ch[0].copy[j + 1].made = <<Subframes(e.ms), e.ch[0].fs>>

(* Without copies, none is kept. *)
NoneKept == ~Fec => \A c \in {0, 1} : enc.ch[c].lbrr = {}

(* A context is alike to what item n says, if that is a frame.             *)
Follows(ec, items, n) == (n > 0 /\ items[n].kind = "frame") => Alike(ec, Said(items[n]))

(* Where the decoder is after some calls for a mono packet. *)
Reading(d, p, fl, k, at) ==
  LET set == CopySet(p)
      frames == FramesPerPacket(p.ms)
      ch == d.ch[0]
  IN  /\ d.chans = 1 /\ ch.n = k /\ ch.frames = frames /\ ch.sub = Subframes(p.ms) /\ ch.fs = p.fs
      /\ ch.vad = p.vad[0] /\ ch.lbrr = set
      /\ at = HeadSize(set, frames) + 1
              + IF fl = "lbrr" THEN Before(set, k) ELSE Before(set, frames) + k
      /\ Follows(ch.ec, p.items, at - 1)

(* In the middle of a packet the decoder is where its calls have brought   *)
(* it.                                                                     *)
ReaderHolds ==
  phase = "decoding" =>
    /\ calls < FramesPerPacket(packet.ms)
    /\ IF calls = 0 THEN pos = 1 ELSE Reading(dec, packet, flag, calls, pos)

(* The types, and that a copy read is of the packet before, in the shape   *)
(* it was made.                                                            *)
TypeHolds ==
  /\ setup \in DOMAIN Setups
  /\ enc \in Encoders /\ dec \in Decoders /\ packet \in Packets
  /\ phase \in {"idle", "sent", "decoding"} /\ flag \in {"normal", "lbrr"}
  /\ pos \in Nat /\ calls \in Nat
  /\ control \in [chans : {0, 1, 2}, fs : {0} \cup Rates]
  /\ control.chans > 0 => control.fs \in Rates
  /\ celt \in BOOLEAN
  /\ \A h \in heard : h.flag = "lbrr" =>
       h.name = NameOf(packet.number - 1, h.frame, h.channel) /\ h.fits

(* What holds between any two steps of the link.                           *)
LinkInv == TypeHolds /\ CopiesKept(enc, packet.number) /\ NoneKept /\ PacketHolds /\ ReaderHolds

(* Lengths of packets and what they give. *)
LEMMA Durations ==
  ASSUME NEW ms \in Lengths
  PROVE  /\ FramesPerPacket(ms) \in {1, 2, 3} /\ Subframes(ms) \in {2, 4}
         /\ ms \in {10, 20} => FramesPerPacket(ms) = 1
BY SMT DEF Lengths, FramesPerPacket, Subframes

(* A layout is one.                                                        *)
LEMMA LayoutIn ==
  ASSUME NEW coding, NEW flagged \in BOOLEAN, NEW type \in Kinds, NEW ec \in Contexts, NEW shape \in Shapes
  PROVE  Layout(coding, flagged, type, ec, shape) \in Layouts
<1>1. /\ (IF coding = "conditional" THEN "delta" ELSE "absolute") \in {"delta", "absolute"}
      /\ (IF flagged THEN "vad" ELSE "no vad") \in {"vad", "no vad"}
  BY Zenon
<1>2. ec.lag \in Nat /\ 0 \in Nat
  BY SMT DEF Contexts
<1>3. (IF Voiced(type) /\ coding = "conditional" /\ Voiced(ec.type) THEN ec.lag ELSE 0) \in Nat
  BY <1>2, Zenon
<1>4. (Voiced(type) /\ coding = "independent") \in BOOLEAN
  BY Zenon
<1> DEFINE l == IF Voiced(type) /\ coding = "conditional" /\ Voiced(ec.type) THEN ec.lag ELSE 0
           g == IF coding = "conditional" THEN "delta" ELSE "absolute"
           t == IF flagged THEN "vad" ELSE "no vad"
           s == Voiced(type) /\ coding = "independent"
<1>5. Layout(coding, flagged, type, ec, shape)
        = [gain |-> g, table |-> t, lag |-> l, ltpScale |-> s, shape |-> shape]
  BY DEF Layout
<1>6. g \in {"delta", "absolute"} /\ t \in {"vad", "no vad"} /\ l \in Nat /\ s \in BOOLEAN
  BY <1>1, <1>3, <1>4
<1> HIDE DEF l, g, t, s
<1>7. [gain |-> g, table |-> t, lag |-> l, ltpScale |-> s, shape |-> shape] \in Layouts
  BY <1>6, Zenon DEF Layouts
<1>8. QED
  BY <1>5, <1>7

(* A layout tells two contexts apart only when it is conditional on them. *)
LEMMA LayoutAlike ==
  ASSUME NEW coding, NEW flagged, NEW type, NEW a, NEW b, NEW shape,
         coding = "conditional" => Alike(a, b)
  PROVE  Layout(coding, flagged, type, a, shape) = Layout(coding, flagged, type, b, shape)
<1>1. (IF Voiced(type) /\ coding = "conditional" /\ Voiced(a.type) THEN a.lag ELSE 0)
        = (IF Voiced(type) /\ coding = "conditional" /\ Voiced(b.type) THEN b.lag ELSE 0)
  BY Zenon DEF Alike, Voiced
<1>2. QED
  BY <1>1, Zenon DEF Layout

(* A frame leaves a context no other frame can tell from what it says.     *)
LEMMA AfterLemma ==
  ASSUME NEW ec \in Contexts, NEW item, item.type \in Kinds, item.name \in Nat
  PROVE  /\ EcAfter(ec, item.type, item.name) \in Contexts
         /\ Alike(EcAfter(ec, item.type, item.name), Said(item))
BY SMT DEF EcAfter, Contexts, Alike, Said, Voiced, Kinds

(* What a call makes of a channel before it codes anything: no copies are  *)
(* left but of frames of this length and rate.                             *)
ReadyChannel(c, x, fs, t) ==
  /\ x \in EncChannels /\ x.fs = fs /\ x.copy = c.copy /\ x.ec = c.ec
  /\ x.lbrr \subseteq c.lbrr
  /\ x.lbrr # {} => ~t /\ c.fs = fs
  /\ x.mem = IF c.fs = fs THEN c.mem ELSE 0

(* Setting a channel's rate and clearing its copies makes it ready.        *)
LEMMA ChannelReady ==
  ASSUME NEW c \in EncChannels, NEW fs \in Rates, NEW t \in BOOLEAN
  PROVE  ReadyChannel(c, ClearLbrr(SetupFs(c, fs), t), fs, t)
<1> DEFINE y == SetupFs(c, fs)
           x == ClearLbrr(y, t)
<1>1. y \in EncChannels
  BY Zenon DEF SetupFs, EncChannels, Rates
<1>2. /\ y.fs = fs /\ y.copy = c.copy /\ y.ec = c.ec /\ y.lbrr = c.lbrr
      /\ (c.fs # fs => y.fresh)
      /\ y.mem = IF c.fs = fs THEN c.mem ELSE 0
  BY SMT DEF SetupFs, EncChannels, Rates
<1> HIDE DEF y
<1>3. x \in EncChannels
  BY <1>1, Zenon DEF ClearLbrr, EncChannels
<1>4. /\ x.fs = y.fs /\ x.copy = y.copy /\ x.ec = y.ec /\ x.mem = y.mem
      /\ x.lbrr = (IF y.fresh \/ t THEN {} ELSE y.lbrr)
  BY <1>1, Zenon DEF ClearLbrr, EncChannels
<1> HIDE DEF x
<1>5. ReadyChannel(c, x, fs, t)
  BY <1>1, <1>2, <1>3, <1>4 DEF ReadyChannel
<1>6. QED
  BY <1>5 DEF x, y

(* The same for the encoder.                                               *)
ReadyEncoder(e, r, chans, ms, fs) ==
  /\ r \in Encoders /\ r.chans = chans /\ r.ms = ms /\ r.midOnly = e.midOnly
  /\ \A c \in {0, 1} :
       IF c < chans THEN ReadyChannel(e.ch[c], r.ch[c], fs, ms # e.ms \/ chans # e.chans)
                    ELSE r.ch[c] = e.ch[c]

(* Settings make every channel of the encoder ready.                       *)
LEMMA ControlledLemma ==
  ASSUME NEW e \in Encoders, NEW chans \in {1, 2}, NEW ms \in Lengths, NEW fs \in Rates
  PROVE  ReadyEncoder(e, Controlled(e, chans, ms, fs), chans, ms, fs)
<1> DEFINE t == ms # e.ms \/ chans # e.chans
           g == [c \in {0, 1} |-> IF c < chans THEN ClearLbrr(SetupFs(e.ch[c], fs), t) ELSE e.ch[c]]
           r == Controlled(e, chans, ms, fs)
<1>1. r = [e EXCEPT !.chans = chans, !.ms = ms, !.ch = g]
  BY DEF Controlled
<1>2. \A c \in {0, 1} : e.ch[c] \in EncChannels
  BY SMT DEF Encoders
<1>3. t \in BOOLEAN
  BY Zenon
<1>4. \A c \in {0, 1} : IF c < chans THEN ReadyChannel(e.ch[c], g[c], fs, t) ELSE g[c] = e.ch[c]
  <2> TAKE c \in {0, 1}
  <2>1. CASE c < chans
    <3>1. g[c] = ClearLbrr(SetupFs(e.ch[c], fs), t)
      BY <2>1, Zenon
    <3> HIDE DEF g, t
    <3>2. ReadyChannel(e.ch[c], ClearLbrr(SetupFs(e.ch[c], fs), t), fs, t)
      BY <1>2, <1>3, ChannelReady, Zenon
    <3>3. QED
      BY <2>1, <3>1, <3>2, Zenon
  <2>2. CASE ~(c < chans)
    BY <2>2, Zenon
  <2>3. QED
    BY <2>1, <2>2
<1>5. g \in [{0, 1} -> EncChannels]
  <2>1. \A c \in {0, 1} : g[c] \in EncChannels
    <3> HIDE DEF g
    <3>1. QED
      BY <1>2, <1>4, Zenon DEF ReadyChannel
  <2>2. g = [c \in {0, 1} |-> g[c]]
    BY Zenon
  <2> HIDE DEF g
  <2>3. QED
    BY <2>1, <2>2, SMT
<1> HIDE DEF g
<1>6. r \in Encoders
  BY <1>1, <1>5, Zenon DEF Encoders
<1>7. r.chans = chans /\ r.ms = ms /\ r.midOnly = e.midOnly /\ r.ch = g
  BY <1>1, Zenon DEF Encoders
<1> HIDE DEF r
<1>8. ReadyEncoder(e, r, chans, ms, fs)
  BY <1>4, <1>6, <1>7, Zenon DEF ReadyEncoder, t
<1>9. QED
  BY <1>8 DEF r

(* The copies that the settings leave are still those of the packet        *)
(* before.                                                                 *)
LEMMA ReadyKeeps ==
  ASSUME NEW e \in Encoders, NEW chans \in {1, 2}, NEW ms \in Lengths, NEW fs \in Rates,
         NEW number \in Nat, CopiesKept(e, number), NEW r, ReadyEncoder(e, r, chans, ms, fs)
  PROVE  CopiesKept(r, number)
<1>1. /\ r.ms = ms
      /\ ReadyChannel(e.ch[0], r.ch[0], fs, ms # e.ms \/ chans # e.chans)
  BY SMT DEF ReadyEncoder
<1>2. QED
  BY <1>1, Zenon DEF CopiesKept, ReadyChannel

(* An encoder with another channel is one, and its other channel stays.    *)
LEMMA EncoderWith ==
  ASSUME NEW e \in Encoders, NEW c \in {0, 1}, NEW x \in EncChannels
  PROVE  /\ With(e, c, x) \in Encoders
         /\ With(e, c, x).chans = e.chans /\ With(e, c, x).ms = e.ms
         /\ With(e, c, x).midOnly = e.midOnly
         /\ With(e, c, x).ch[c] = x
         /\ \A k \in {0, 1} : k # c => With(e, c, x).ch[k] = e.ch[k]
<1> DEFINE g == [e.ch EXCEPT ![c] = x]
           w == With(e, c, x)
<1>1. e.ch \in [{0, 1} -> EncChannels]
  BY SMT DEF Encoders
<1>2. g \in [{0, 1} -> EncChannels] /\ g[c] = x /\ \A k \in {0, 1} : k # c => g[k] = e.ch[k]
  BY <1>1, SMT
<1>3. w = [e EXCEPT !.ch = g]
  BY DEF With
<1> HIDE DEF g
<1>4. w \in Encoders
  BY <1>2, <1>3, Zenon DEF Encoders
<1>5. w.chans = e.chans /\ w.ms = e.ms /\ w.midOnly = e.midOnly /\ w.ch = g
  BY <1>3, Zenon DEF Encoders
<1> HIDE DEF w
<1>6. /\ w \in Encoders
      /\ w.chans = e.chans /\ w.ms = e.ms
      /\ w.midOnly = e.midOnly
      /\ w.ch[c] = x
      /\ \A k \in {0, 1} : k # c => w.ch[k] = e.ch[k]
  BY <1>2, <1>4, <1>5, Zenon
<1>7. QED
  BY <1>6 DEF w

(* How many copies precede a frame's.                                      *)
LEMMA BeforeLemma ==
  ASSUME NEW L \in SUBSET (0..2), NEW k \in 0..2
  PROVE  /\ Before(L, k) \in 0..k
         /\ Before(L, k + 1) = Before(L, k) + (IF k \in L THEN 1 ELSE 0)
         /\ Before(L, 0) = 0
         /\ \A j \in 0..2 : j < k => Before(L, j) <= Before(L, k)
         /\ \A j \in L : j < k => Before(L, j) + 1 <= Before(L, k)
BY SMT DEF Before

(* What stands in a sequence stands in a longer one.                       *)
Longer(items, more) == Len(items) <= Len(more) /\ \A i \in 1..Len(items) : more[i] = items[i]

(* A frame stays where it stands when more items follow.                   *)
LEMMA StandsStill ==
  ASSUME NEW items \in Seq(Items), NEW more \in Seq(Items), Longer(items, more),
         NEW at \in 1..Len(items), NEW coding, NEW flagged \in BOOLEAN, NEW shape,
         FrameStands(items, at, coding, flagged, shape)
  PROVE  FrameStands(more, at, coding, flagged, shape)
<1>1. more[at] = items[at] /\ SaidBefore(more, at) = SaidBefore(items, at)
  BY SMT DEF Longer, SaidBefore
<1>2. QED
  BY <1>1, Zenon DEF FrameStands

(* So do the copies.                                                       *)
LEMMA CopiesStandStill ==
  ASSUME NEW items \in Seq(Items), NEW more \in Seq(Items), Longer(items, more),
         NEW L \in SUBSET (0..2), NEW frames \in {1, 2, 3}, NEW k \in 0..3, NEW number \in Int, NEW shape,
         Len(items) >= HeadSize(L, frames) + Before(L, k),
         CopiesStand(items, L, frames, k, number, shape)
  PROVE  CopiesStand(more, L, frames, k, number, shape)
<1> SUFFICES ASSUME NEW j \in 0..2, j \in L, j < k
             PROVE  LET at == HeadSize(L, frames) + Before(L, j) + 1
                    IN  /\ FrameStands(more, at, LbrrCoding(L, j), TRUE, shape)
                        /\ more[at].name = NameOf(number, j, 0)
  BY Zenon DEF CopiesStand
<1> DEFINE at == HeadSize(L, frames) + Before(L, j) + 1
<1>1. at \in 1..Len(items)
  BY SMT DEF Before, HeadSize
<1>2. /\ FrameStands(items, at, LbrrCoding(L, j), TRUE, shape)
      /\ items[at].name = NameOf(number, j, 0)
  BY Zenon DEF CopiesStand
<1>3. more[at] = items[at]
  BY <1>1, SMT DEF Longer
<1> HIDE DEF at
<1>4. FrameStands(more, at, LbrrCoding(L, j), TRUE, shape)
  BY <1>1, <1>2, StandsStill, Zenon
<1>5. QED
  BY <1>2, <1>3, <1>4 DEF at

(* The encoder with the copies of the first k frames written.              *)
CopiesWritten(s, r, k, number) ==
  LET L == r.ch[0].lbrr
      frames == FramesPerPacket(r.ms)
      ch == s.enc.ch[0]
  IN  /\ s.enc \in Encoders /\ s.items \in Seq(Items)
      /\ s.enc.chans = r.chans /\ s.enc.ms = r.ms /\ s.enc.midOnly = r.midOnly
      /\ s.enc.ch[1] = r.ch[1]
      /\ ch.fs = r.ch[0].fs /\ ch.lbrr = L /\ ch.copy = r.ch[0].copy /\ ch.mem = r.ch[0].mem
      /\ Len(s.items) = HeadSize(L, frames) + Before(L, k)
      /\ HeadSize(L, frames) = 1 => s.items[1].kind = "lbrr flags" /\ s.items[1].set = L
      /\ CopiesStand(s.items, L, frames, k, number, <<Subframes(r.ms), r.ch[0].fs>>)
      /\ Follows(ch.ec, s.items, Len(s.items))

(* A frame's item is one.                                                  *)
LEMMA ItemLemma ==
  ASSUME NEW c \in {0, 1}, NEW frame \in 0..2, NEW layout \in Layouts, NEW type \in Kinds,
         NEW name \in Nat, NEW mem \in Nat, NEW made \in Shapes
  PROVE  FrameItem(c, frame, layout, type, name, mem, made) \in Items
<1>1. FrameItem(c, frame, layout, type, name, mem, made) \in FrameItems
  BY Zenon DEF FrameItem, FrameItems
<1>2. QED
  BY <1>1 DEF Items

(* What is read or written next to its frame before.                       *)
LEMMA FollowsLast ==
  ASSUME NEW items \in Seq(Items), NEW item \in Items, item.type \in Kinds, item.name \in Nat,
         NEW ec \in Contexts
  PROVE  Follows(EcAfter(ec, item.type, item.name), Append(items, item), Len(Append(items, item)))
<1>1. Append(items, item)[Len(Append(items, item))] = item
  BY SMT
<1>2. Alike(EcAfter(ec, item.type, item.name), Said(item))
  BY AfterLemma, Zenon
<1>3. QED
  BY <1>1, <1>2, Zenon DEF Follows

(* One more copy, if the frame has one, keeps the copies in their places.  *)
LEMMA WriteCopyStep ==
  ASSUME NEW r \in Encoders, r.ms \in Lengths, r.ch[0].fs \in Rates, NEW number \in Nat,
         CopiesKept(r, number), NEW k \in 0..2, k < FramesPerPacket(r.ms),
         NEW s, CopiesWritten(s, r, k, number)
  PROVE  CopiesWritten(WriteCopy(s, k, 0), r, k + 1, number)
<1> DEFINE L == r.ch[0].lbrr
           F == FramesPerPacket(r.ms)
           shape == <<Subframes(r.ms), r.ch[0].fs>>
           ch == s.enc.ch[0]
           copy == ch.copy[k + 1]
           layout == Layout(LbrrCoding(L, k), TRUE, copy.type, ch.ec, shape)
           item == FrameItem(0, k, layout, copy.type, copy.name, 0, copy.made)
           ch1 == [ch EXCEPT !.ec = EcAfter(@, copy.type, copy.name)]
           more == Append(s.items, item)
           at == HeadSize(L, F) + Before(L, k) + 1
<1>1. L \in SUBSET (0..2) /\ r.ch[0] \in EncChannels /\ r.ch[0].copy \in Copies3
  BY SMT DEF Encoders, EncChannels
<1>2. F \in {1, 2, 3} /\ Subframes(r.ms) \in {2, 4} /\ shape \in Shapes
  <2>1. F \in {1, 2, 3} /\ Subframes(r.ms) \in {2, 4}
    BY Durations, Zenon
  <2>2. shape \in Shapes
    BY <2>1, SMT DEF Shapes, Rates
  <2>3. QED
    BY <2>1, <2>2
<1>3. /\ s.enc \in Encoders /\ s.items \in Seq(Items)
      /\ s.enc.chans = r.chans /\ s.enc.ms = r.ms /\ s.enc.midOnly = r.midOnly
      /\ s.enc.ch[1] = r.ch[1]
      /\ ch.fs = r.ch[0].fs /\ ch.lbrr = L /\ ch.copy = r.ch[0].copy /\ ch.mem = r.ch[0].mem
      /\ Len(s.items) = HeadSize(L, F) + Before(L, k)
      /\ (HeadSize(L, F) = 1 => s.items[1].kind = "lbrr flags" /\ s.items[1].set = L)
      /\ CopiesStand(s.items, L, F, k, number, shape)
      /\ Follows(ch.ec, s.items, Len(s.items))
  BY Zenon DEF CopiesWritten
<1>31. s.enc \in Encoders /\ s.items \in Seq(Items) /\ ch.copy = r.ch[0].copy
  BY <1>3
<1>32. Len(s.items) = HeadSize(L, F) + Before(L, k) /\ Len(s.items) \in Nat
  <2>1. Len(s.items) \in Nat
    BY <1>31, SMT
  <2>2. QED
    BY <1>3, <2>1
<1>4. /\ Before(L, k) \in 0..k /\ HeadSize(L, F) \in {0, 1}
      /\ Before(L, k + 1) = Before(L, k) + (IF k \in L THEN 1 ELSE 0)
  BY <1>1, BeforeLemma, SMT DEF HeadSize
<1> HIDE DEF L, F, shape, ch, copy, layout, item, ch1, more, at
<1>5. CASE k \notin L
  <2>1. WriteCopy(s, k, 0) = s
    BY <1>3, <1>5, Zenon DEF WriteCopy, ch
  <2>2. Before(L, k + 1) = Before(L, k)
    BY <1>4, <1>5, SMT
  <2>3. CopiesStand(s.items, L, F, k + 1, number, shape)
    <3>1. \A j \in 0..2 : j \in L /\ j < k + 1 => j < k
      BY <1>5, SMT
    <3>2. QED
      BY <1>3, <3>1, Zenon DEF CopiesStand
  <2>4. QED
    BY <1>3, <2>1, <2>2, <2>3, Zenon DEF CopiesWritten, L, F, shape, ch
<1>6. CASE k \in L
  <2>1. ch \in EncChannels /\ ch.ec \in Contexts
    BY <1>31, SMT DEF Encoders, EncChannels, ch
  <2>2. /\ copy.type \in Kinds /\ copy.name \in Nat
        /\ copy.name = NameOf(number, k, 0) /\ copy.made = shape
    <3>1. copy = r.ch[0].copy[k + 1] /\ k + 1 \in 1..3
      BY <1>31, SMT DEF copy
    <3>2. copy \in [type : Kinds, name : Nat, made : Made]
      BY <1>1, <3>1, SMT DEF Copies3
    <3>3. copy.type \in Kinds /\ copy.name \in Nat
      BY <3>2, SMT
    <3>4. copy.name = NameOf(number, k, 0) /\ copy.made = shape
      BY <1>6, <3>1, Zenon DEF CopiesKept, L, shape
    <3>5. QED
      BY <3>3, <3>4
  <2>3. layout \in Layouts
    BY <1>2, <2>1, <2>2, LayoutIn, Zenon DEF layout
  <2>4. item \in Items
    <3>1. 0 \in {0, 1} /\ 0 \in Nat
      BY SMT
    <3>2. QED
      BY <1>2, <2>2, <2>3, <3>1, ItemLemma, Zenon DEF item
  <2>5. /\ item.kind = "frame" /\ item.channel = 0 /\ item.made = shape
        /\ item.layout = layout /\ item.type = copy.type /\ item.name = copy.name
    <3>1. QED
      BY <2>2, Zenon DEF FrameItem, item
  <2>6. WriteCopy(s, k, 0) = [enc |-> With(s.enc, 0, ch1), items |-> more]
    <3>1. EncShape(s.enc, 0) = shape
      BY <1>3, Zenon DEF EncShape, ch, shape
    <3>2. QED
      BY <1>3, <1>6, <3>1, Zenon DEF WriteCopy, ch, copy, layout, item, ch1, more
  <2>7. ch1 \in EncChannels /\ ch1.ec = EcAfter(ch.ec, copy.type, copy.name)
        /\ ch1.fs = ch.fs /\ ch1.lbrr = ch.lbrr /\ ch1.copy = ch.copy /\ ch1.mem = ch.mem
    <3>1. EcAfter(ch.ec, copy.type, copy.name) \in Contexts
      BY <2>1, <2>2, AfterLemma, Zenon
    <3>2. QED
      BY <2>1, <3>1, Zenon DEF EncChannels, ch1
  <2>8. /\ more \in Seq(Items) /\ Len(more) = Len(s.items) + 1 /\ more[Len(s.items) + 1] = item
        /\ Longer(s.items, more)
    <3>1. QED
      BY <1>31, <2>4, SMT DEF Longer, more
  <2>9. Follows(ch1.ec, more, Len(more))
    <3>1. QED
      BY <1>3, <2>1, <2>2, <2>4, <2>5, <2>7, FollowsLast, Zenon DEF more
  <2>10. CopiesStand(more, L, F, k + 1, number, shape)
    <3>1. CopiesStand(more, L, F, k, number, shape)
      <4>1. Len(s.items) >= HeadSize(L, F) + Before(L, k) /\ k \in 0..3 /\ number \in Int
        <5>1. QED
          BY <1>32, <1>4, SMT
      <4>2. QED
        BY <1>1, <1>2, <1>3, <2>8, <4>1, CopiesStandStill, Zenon
    <3>2. at = Len(s.items) + 1 /\ more[at] = item
      BY <1>3, <2>8 DEF at
    <3>3. LbrrCoding(L, k) = "conditional" => Alike(ch.ec, SaidBefore(more, at))
      <4> SUFFICES ASSUME LbrrCoding(L, k) = "conditional"
                   PROVE  Alike(ch.ec, SaidBefore(more, at))
        OBVIOUS
      <4>1. k > 0 /\ k - 1 \in L
        BY Zenon DEF LbrrCoding
      <4>2. HeadSize(L, F) + Before(L, k - 1) + 1 = Len(s.items)
        <5>1. k - 1 \in 0..2 /\ k - 1 + 1 = k
          BY <4>1, SMT
        <5>2. Before(L, k - 1 + 1) = Before(L, k - 1) + (IF k - 1 \in L THEN 1 ELSE 0)
              /\ Before(L, k - 1) \in 0..(k - 1)
          BY <1>1, <5>1, BeforeLemma, SMT
        <5>3. QED
          BY <1>32, <1>4, <4>1, <5>1, <5>2, SMT
      <4>3. s.items[Len(s.items)].kind = "frame"
        <5>1. k - 1 \in 0..2 /\ k - 1 < k
          BY <4>1, SMT
        <5>2. s.items[HeadSize(L, F) + Before(L, k - 1) + 1].kind = "frame"
          <6>1. QED
            BY <1>3, <4>1, <5>1, Zenon DEF CopiesStand, FrameStands
        <5>3. QED
          BY <4>2, <5>2
      <4>4. Len(s.items) \in 1..Len(s.items) /\ at > 1 /\ at - 1 = Len(s.items)
            /\ Len(s.items) > 0
        <5>1. k - 1 \in 0..2
          BY <4>1, SMT
        <5>2. Before(L, k - 1) \in 0..(k - 1)
          BY <1>1, <5>1, BeforeLemma, SMT
        <5>3. Before(L, k - 1) >= 0 /\ HeadSize(L, F) >= 0 /\ HeadSize(L, F) \in Int
              /\ Before(L, k - 1) \in Int
          BY <1>4, <5>1, <5>2, SMT
        <5>4. at = Len(s.items) + 1 /\ Len(s.items) \in Nat
          BY <1>32, <3>2, SMT
        <5>5. QED
          BY ONLY <4>2, <5>3, <5>4, SMT
      <4>5. Alike(ch.ec, Said(s.items[Len(s.items)]))
        BY <1>3, <4>3, <4>4, Zenon DEF Follows
      <4>6. more[Len(s.items)] = s.items[Len(s.items)]
        BY <2>8, <4>4, Zenon DEF Longer
      <4>7. QED
        BY <4>4, <4>5, <4>6, Zenon DEF SaidBefore
    <3>4. FrameStands(more, at, LbrrCoding(L, k), TRUE, shape)
      <4>1. layout = Layout(LbrrCoding(L, k), TRUE, copy.type, SaidBefore(more, at), shape)
        <5>1. QED
          BY <3>3, LayoutAlike, Zenon DEF layout
      <4>2. QED
        BY <2>5, <3>2, <4>1, Zenon DEF FrameStands
    <3>5. more[at].name = NameOf(number, k, 0)
      <4>1. QED
        BY <2>2, <2>5, <3>2, Zenon
    <3>6. \A j \in 0..2 : j < k + 1 => j < k \/ j = k
      BY SMT
    <3>7. QED
      BY <3>1, <3>4, <3>5, <3>6, Zenon DEF CopiesStand, at
  <2>11. /\ With(s.enc, 0, ch1) \in Encoders
         /\ With(s.enc, 0, ch1).chans = s.enc.chans /\ With(s.enc, 0, ch1).ms = s.enc.ms
         /\ With(s.enc, 0, ch1).midOnly = s.enc.midOnly
         /\ With(s.enc, 0, ch1).ch[0] = ch1
         /\ With(s.enc, 0, ch1).ch[1] = s.enc.ch[1]
    <3>1. 0 \in {0, 1} /\ 1 \in {0, 1} /\ 1 # 0
      BY SMT
    <3>2. QED
      BY <1>3, <2>7, <3>1, EncoderWith, ZenonT(60)
  <2>12. Before(L, k + 1) = Before(L, k) + 1
    BY <1>4, <1>6, SMT
  <2>13. Len(more) = HeadSize(L, F) + Before(L, k + 1)
    <3>1. QED
      BY <1>32, <1>4, <2>8, <2>12, SMT
  <2>14. HeadSize(L, F) = 1 => more[1].kind = "lbrr flags" /\ more[1].set = L
    <3>1. HeadSize(L, F) = 1 => 1 \in 1..Len(s.items)
      <4>1. QED
        BY <1>32, <1>4, SMT
    <3>2. QED
      BY <1>3, <2>8, <3>1, Zenon DEF Longer
  <2> DEFINE z == WriteCopy(s, k, 0)
  <2>15. z.enc = With(s.enc, 0, ch1) /\ z.items = more
    <3>1. QED
      BY <2>6, SMT DEF z
  <2> HIDE DEF z
  <2>16. CopiesWritten(z, r, k + 1, number)
    BY <1>3, <2>7, <2>8, <2>9, <2>10, <2>11, <2>13, <2>14, <2>15, Zenon DEF CopiesWritten, L, F, shape, ch
  <2>17. QED
    BY <2>16 DEF z
<1>7. QED
  BY <1>5, <1>6

(* Each frame's memory is the frame before it in the packet.               *)
MemoriesChain(items, L, frames, k, mem) ==
  \A j \in 0..2 : j < k =>
    LET at == HeadSize(L, frames) + Before(L, frames) + j + 1
    IN  items[at].mem = IF j = 0 THEN mem ELSE items[at - 1].name

(* The copies a channel has kept of the first k frames of a packet.        *)
CopiesMade(ch, k, number, shape) ==
  \A j \in 0..2 : j \in ch.lbrr =>
    j < k /\ ch.copy[j + 1].name = NameOf(number, j, 0) /\ ch.copy[j + 1].made = shape

(* The encoder with the first k frames of packet number written.           *)
FramesWritten(s, r, k, number, vad, fec) ==
  LET L == r.ch[0].lbrr
      frames == FramesPerPacket(r.ms)
      shape == <<Subframes(r.ms), r.ch[0].fs>>
      ch == s.enc.ch[0]
  IN  /\ s.enc \in Encoders /\ s.items \in Seq(Items)
      /\ s.enc.chans = r.chans /\ s.enc.ms = r.ms /\ s.enc.midOnly = r.midOnly
      /\ s.enc.ch[1] = r.ch[1]
      /\ ch.fs = r.ch[0].fs
      /\ Len(s.items) = HeadSize(L, frames) + Before(L, frames) + k
      /\ HeadSize(L, frames) = 1 => s.items[1].kind = "lbrr flags" /\ s.items[1].set = L
      /\ CopiesStand(s.items, L, frames, frames, number - 1, shape)
      /\ FramesStand(s.items, L, frames, k, vad, shape)
      /\ MemoriesChain(s.items, L, frames, k, r.ch[0].mem)
      /\ CopiesMade(ch, k, number, shape) /\ (fec \/ ch.lbrr = {})
      /\ Follows(ch.ec, s.items, Len(s.items))
      /\ ch.mem = IF k = 0 THEN r.ch[0].mem ELSE s.items[Len(s.items)].name

(* Frames stay where they stand when more items follow.                    *)
LEMMA FramesStandStill ==
  ASSUME NEW items \in Seq(Items), NEW more \in Seq(Items), Longer(items, more),
         NEW L \in SUBSET (0..2), NEW frames \in {1, 2, 3}, NEW k \in 0..3, NEW vad, NEW shape, NEW mem,
         Len(items) = HeadSize(L, frames) + Before(L, frames) + k
  PROVE  /\ FramesStand(items, L, frames, k, vad, shape) => FramesStand(more, L, frames, k, vad, shape)
         /\ MemoriesChain(items, L, frames, k, mem) => MemoriesChain(more, L, frames, k, mem)
<1>1. Before(L, frames) \in Nat /\ HeadSize(L, frames) \in Nat
  BY SMT DEF Before, HeadSize
<1>2. \A j \in 0..2 : j < k => HeadSize(L, frames) + Before(L, frames) + j + 1 \in 1..Len(items)
  BY <1>1, SMTT(30)
<1>3. \A j \in 0..2 : (j < k /\ j # 0) => (HeadSize(L, frames) + Before(L, frames) + j + 1) - 1 \in 1..Len(items)
  BY <1>1, SMTT(30)
<1>4. ASSUME FramesStand(items, L, frames, k, vad, shape)
      PROVE  FramesStand(more, L, frames, k, vad, shape)
  <2>1. \A j \in 0..2 : j < k => FrameStands(more, HeadSize(L, frames) + Before(L, frames) + j + 1,
                EncCoding(j, 0, FALSE), j \in vad, shape)
    <3> TAKE j \in 0..2
    <3> HAVE j < k
    <3> DEFINE at == HeadSize(L, frames) + Before(L, frames) + j + 1
               coding == EncCoding(j, 0, FALSE)
    <3>1. FrameStands(items, at, coding, j \in vad, shape)
      BY <1>4, Zenon DEF FramesStand
    <3>2. at \in 1..Len(items)
      BY <1>2, Zenon
    <3>5. (j \in vad) \in BOOLEAN
      OBVIOUS
    <3> HIDE DEF at, coding
    <3>3. FrameStands(more, at, coding, j \in vad, shape)
      BY <3>1, <3>2, <3>5, StandsStill, Zenon
    <3>4. QED
      BY <3>3 DEF at, coding
  <2>2. QED
    BY <2>1, Zenon DEF FramesStand
<1>5. ASSUME MemoriesChain(items, L, frames, k, mem)
      PROVE  MemoriesChain(more, L, frames, k, mem)
  <2>1. \A i \in 1..Len(items) : more[i] = items[i]
    BY DEF Longer
  <2>2. SUFFICES ASSUME NEW j \in 0..2, j < k
                 PROVE  LET at == HeadSize(L, frames) + Before(L, frames) + j + 1
                        IN  more[at].mem = IF j = 0 THEN mem ELSE more[at - 1].name
    BY Zenon DEF MemoriesChain
  <2> DEFINE at == HeadSize(L, frames) + Before(L, frames) + j + 1
  <2>3. items[at].mem = IF j = 0 THEN mem ELSE items[at - 1].name
    BY <1>5, <2>2, Zenon DEF MemoriesChain
  <2>4. at \in 1..Len(items)
    BY <1>2, <2>2, Zenon
  <2>7. j # 0 => at - 1 \in 1..Len(items)
    BY <1>3, <2>2, Zenon
  <2> HIDE DEF at
  <2>5. more[at].mem = IF j = 0 THEN mem ELSE more[at - 1].name
    BY <2>1, <2>3, <2>4, <2>7, SMT
  <2>6. QED
    BY <2>5 DEF at
<1>6. QED
  BY <1>4, <1>5

(* The frame before it is what the next one is coded against.              *)
LEMMA CodingLemma ==
  ASSUME NEW k \in 0..2, NEW only
  PROVE  /\ EncCoding(k, 0, only) = EncCoding(k, 0, FALSE)
         /\ EncCoding(k, 0, FALSE) = "conditional" => k > 0
<1>1. k - 0 = k /\ 0 # Side
  BY SMT DEF Side
<1>2. QED
  BY <1>1, SMT DEF EncCoding

(* One more frame keeps the frames, and the copies before them, in their   *)
(* places.                                                                 *)
LEMMA WriteFrameStep ==
  ASSUME NEW r \in Encoders, r.ms \in Lengths, r.ch[0].fs \in Rates, NEW number \in Nat,
         NEW k \in 0..2, k < FramesPerPacket(r.ms),
         NEW pick, pick.mid \in Kinds, NEW fec \in BOOLEAN,
         NEW vad, k \in vad <=> pick.mid # "inactive",
         NEW s, FramesWritten(s, r, k, number, vad, fec)
  PROVE  FramesWritten(WriteFrame(s, k, 0, pick, fec, NameOf(number, k, 0)), r, k + 1, number, vad, fec)
<1> DEFINE L == r.ch[0].lbrr
           F == FramesPerPacket(r.ms)
           shape == <<Subframes(r.ms), r.ch[0].fs>>
           ch == s.enc.ch[0]
           name == NameOf(number, k, 0)
           coding == EncCoding(k, 0, s.enc.midOnly)
           type == pick.mid
           flagged == type # "inactive"
           layout == Layout(coding, flagged, type, ch.ec, shape)
           item == FrameItem(0, k, layout, type, name, ch.mem, shape)
           kept == fec /\ 0 \in pick.strong
           made == [type |-> type, name |-> name, made |-> shape]
           copies == [i \in 1..3 |-> IF i = k + 1 THEN made ELSE ch.copy[i]]
           ch1 == [ch EXCEPT !.fresh = FALSE, !.mem = name, !.ec = EcAfter(@, type, name),
                             !.lbrr = IF kept THEN @ \cup {k} ELSE @,
                             !.copy = IF kept THEN copies ELSE @]
           more == Append(s.items, item)
           at == HeadSize(L, F) + Before(L, F) + k + 1
           z == WriteFrame(s, k, 0, pick, fec, NameOf(number, k, 0))
<1>1. L \in SUBSET (0..2) /\ r.ch[0] \in EncChannels
  BY SMT DEF Encoders, EncChannels
<1>2. F \in {1, 2, 3} /\ Subframes(r.ms) \in {2, 4} /\ shape \in Shapes
  <2>1. F \in {1, 2, 3} /\ Subframes(r.ms) \in {2, 4}
    BY Durations, Zenon
  <2>2. shape \in Shapes
    BY <2>1, SMT DEF Shapes, Rates
  <2>3. QED
    BY <2>1, <2>2
<1>3. /\ s.enc \in Encoders /\ s.items \in Seq(Items)
      /\ s.enc.chans = r.chans /\ s.enc.ms = r.ms /\ s.enc.midOnly = r.midOnly
      /\ s.enc.ch[1] = r.ch[1]
      /\ ch.fs = r.ch[0].fs
      /\ Len(s.items) = HeadSize(L, F) + Before(L, F) + k
      /\ (HeadSize(L, F) = 1 => s.items[1].kind = "lbrr flags" /\ s.items[1].set = L)
      /\ CopiesStand(s.items, L, F, F, number - 1, shape)
      /\ FramesStand(s.items, L, F, k, vad, shape)
      /\ MemoriesChain(s.items, L, F, k, r.ch[0].mem)
      /\ CopiesMade(ch, k, number, shape) /\ (fec \/ ch.lbrr = {})
      /\ Follows(ch.ec, s.items, Len(s.items))
      /\ ch.mem = IF k = 0 THEN r.ch[0].mem ELSE s.items[Len(s.items)].name
  BY Zenon DEF FramesWritten
<1>31. s.enc \in Encoders /\ s.items \in Seq(Items)
  BY <1>3
<1>32. Len(s.items) = HeadSize(L, F) + Before(L, F) + k /\ Len(s.items) \in Nat
  <2>1. Len(s.items) \in Nat
    BY <1>31, SMT
  <2>2. QED
    BY <1>3, <2>1
<1>4. Before(L, F) \in Nat /\ HeadSize(L, F) \in {0, 1}
  BY <1>1, <1>2, SMT DEF Before, HeadSize
<1>5. name \in Nat /\ type \in Kinds /\ 0 \in {0, 1} /\ flagged \in BOOLEAN
  <2>1. name \in Nat
    BY SMT DEF NameOf
  <2>2. flagged \in BOOLEAN /\ 0 \in {0, 1}
    OBVIOUS
  <2> HIDE DEF name
  <2>3. QED
    BY <2>1, <2>2
<1>6. z = [enc |-> With(s.enc, 0, ch1), items |-> more]
  <2>1. EncShape(s.enc, 0) = shape
    BY <1>3, Zenon DEF EncShape
  <2>2. TypeOf(pick, 0) = type /\ type # "absent"
    <3>1. 0 # Side
      BY SMT DEF Side
    <3>2. QED
      BY <3>1, SMT DEF TypeOf, Kinds
  <2>3. QED
    BY <2>1, <2>2, Zenon DEF WriteFrame
<1> HIDE DEF L, F, shape, ch, name, coding, type, flagged, layout, item, kept, made, copies, ch1, more, at, z
<1>7. ch \in EncChannels /\ ch.ec \in Contexts /\ ch.mem \in Nat /\ ch.copy \in Copies3
      /\ ch.lbrr \in SUBSET (0..2)
  BY <1>31, SMT DEF Encoders, EncChannels, ch
<1>8. layout \in Layouts
  BY <1>2, <1>5, <1>7, LayoutIn, Zenon DEF layout
<1>9. item \in Items
  BY <1>2, <1>5, <1>7, <1>8, ItemLemma, Zenon DEF item
<1>10. /\ item.kind = "frame" /\ item.channel = 0 /\ item.made = shape /\ item.mem = ch.mem
       /\ item.layout = layout /\ item.type = type /\ item.name = name
  BY Zenon DEF FrameItem, item
<1>11. /\ copies \in Copies3
       /\ copies[k + 1] = made
       /\ \A i \in 1..3 : i # k + 1 => copies[i] = ch.copy[i]
  <2>1. made \in [type : Kinds, name : Nat, made : Made]
    <3>1. shape \in Made
      BY <1>2 DEF Made
    <3>2. QED
      BY <1>5, <3>1, Zenon DEF made
  <2>2. k + 1 \in 1..3
    BY SMT
  <2>3. \A i \in 1..3 : ch.copy[i] \in [type : Kinds, name : Nat, made : Made]
    BY <1>7, SMT DEF Copies3
  <2>4. \A i \in 1..3 : copies[i] = IF i = k + 1 THEN made ELSE ch.copy[i]
    BY Zenon DEF copies
  <2>5. \A i \in 1..3 : copies[i] \in [type : Kinds, name : Nat, made : Made]
    BY <2>1, <2>3, <2>4, Zenon
  <2>6. copies = [i \in 1..3 |-> copies[i]]
    BY Zenon DEF copies
  <2>7. copies \in Copies3
    BY <2>5, <2>6, SMT DEF Copies3
  <2>8. QED
    BY <2>2, <2>4, <2>7, Zenon
<1>12. /\ ch1 \in EncChannels /\ ch1.ec = EcAfter(ch.ec, type, name)
       /\ ch1.fs = ch.fs /\ ch1.mem = name
       /\ ch1.lbrr = (IF kept THEN ch.lbrr \cup {k} ELSE ch.lbrr)
       /\ ch1.copy = (IF kept THEN copies ELSE ch.copy)
  <2>1. EcAfter(ch.ec, type, name) \in Contexts
    <3>1. [type |-> type, name |-> name].type = type /\ [type |-> type, name |-> name].name = name
      BY Zenon
    <3>2. QED
      BY <1>5, <1>7, <3>1, AfterLemma, Zenon
  <2>2. (IF kept THEN ch.lbrr \cup {k} ELSE ch.lbrr) \in SUBSET (0..2)
    BY <1>7, SMT
  <2>3. (IF kept THEN copies ELSE ch.copy) \in Copies3
    BY <1>7, <1>11, Zenon
  <2> DEFINE set == IF kept THEN ch.lbrr \cup {k} ELSE ch.lbrr
             cp == IF kept THEN copies ELSE ch.copy
             ec == EcAfter(ch.ec, type, name)
  <2>4. ch1 = [ch EXCEPT !.fresh = FALSE, !.mem = name, !.ec = ec, !.lbrr = set, !.copy = cp]
    BY Zenon DEF ch1
  <2>5. FALSE \in BOOLEAN
    OBVIOUS
  <2> HIDE DEF set, cp, ec
  <2>6. ch1 \in EncChannels
    BY <1>5, <1>7, <2>1, <2>2, <2>3, <2>4, <2>5, Zenon DEF EncChannels, set, cp, ec
  <2>7. ch1.ec = ec /\ ch1.fs = ch.fs /\ ch1.mem = name /\ ch1.lbrr = set /\ ch1.copy = cp
    BY <1>7, <2>4, Zenon DEF EncChannels
  <2>8. QED
    BY <2>6, <2>7 DEF set, cp, ec
<1>13. /\ more \in Seq(Items) /\ Len(more) = Len(s.items) + 1 /\ more[Len(s.items) + 1] = item
       /\ Longer(s.items, more)
  BY <1>31, <1>9, SMT DEF Longer, more
<1>14. Follows(ch1.ec, more, Len(more))
  BY <1>31, <1>5, <1>7, <1>9, <1>10, <1>12, FollowsLast, Zenon DEF more
<1>15. at = Len(s.items) + 1 /\ more[at] = item /\ more[Len(more)] = item
  BY <1>32, <1>13 DEF at
<1>16. k > 0 => /\ Len(s.items) \in 1..Len(s.items) /\ at > 1 /\ at - 1 = Len(s.items)
                /\ more[Len(s.items)] = s.items[Len(s.items)]
  <2>1. k > 0 => Len(s.items) \in 1..Len(s.items) /\ at > 1 /\ at - 1 = Len(s.items)
    BY <1>4, <1>15, <1>32, SMT
  <2>2. QED
    BY <1>13, <2>1, Zenon DEF Longer
<1>17. FrameStands(more, at, EncCoding(k, 0, FALSE), k \in vad, shape)
  <2>1. coding = EncCoding(k, 0, FALSE) /\ (coding = "conditional" => k > 0)
    BY CodingLemma, Zenon DEF coding
  <2>2. coding = "conditional" => Alike(ch.ec, SaidBefore(more, at))
    <3> SUFFICES ASSUME coding = "conditional"
                 PROVE  Alike(ch.ec, SaidBefore(more, at))
      OBVIOUS
    <3>1. k > 0
      BY <2>1
    <3>2. s.items[Len(s.items)].kind = "frame"
      <4>1. k - 1 \in 0..2 /\ k - 1 < k /\ HeadSize(L, F) + Before(L, F) + (k - 1) + 1 = Len(s.items)
        BY <1>4, <1>32, <3>1, SMT
      <4>2. s.items[HeadSize(L, F) + Before(L, F) + (k - 1) + 1].kind = "frame"
        BY <1>3, <4>1, Zenon DEF FramesStand, FrameStands
      <4>3. QED
        BY <4>1, <4>2
    <3>3. Len(s.items) > 0
      BY <1>16, <3>1, SMT
    <3>4. Alike(ch.ec, Said(s.items[Len(s.items)]))
      BY <1>3, <3>2, <3>3, Zenon DEF Follows
    <3>5. QED
      BY <1>16, <3>1, <3>4, Zenon DEF SaidBefore
  <2> DEFINE speech == k \in vad
  <2>3. flagged <=> speech
    BY Zenon DEF flagged, type
  <2>4. speech \in BOOLEAN
    OBVIOUS
  <2> HIDE DEF speech
  <2>5. layout = Layout(coding, speech, type, SaidBefore(more, at), shape)
    <3>1. flagged = speech
      BY <1>5, <2>3, <2>4
    <3>2. layout = Layout(coding, speech, type, ch.ec, shape)
      BY <3>1, Zenon DEF layout
    <3>3. QED
      BY <2>2, <3>2, LayoutAlike, Zenon
  <2>6. QED
    BY <1>10, <1>15, <2>1, <2>5, Zenon DEF FrameStands, speech
<1>18. k \in 0..3 /\ Len(s.items) >= HeadSize(L, F) + Before(L, F) /\ F \in 0..3
  BY <1>2, <1>4, <1>32, SMT
<1>19. /\ FramesStand(more, L, F, k, vad, shape)
       /\ MemoriesChain(more, L, F, k, r.ch[0].mem)
  BY <1>1, <1>2, <1>3, <1>13, <1>18, FramesStandStill, Zenon
<1>20. CopiesStand(more, L, F, F, number - 1, shape)
  <2>1. number - 1 \in Int
    BY SMT
  <2>2. QED
    BY <1>1, <1>2, <1>3, <1>13, <1>18, <2>1, CopiesStandStill, Zenon
<1>21. \A j \in 0..2 : j < k + 1 => j < k \/ j = k
  BY SMT
<1>22. FramesStand(more, L, F, k + 1, vad, shape)
  BY <1>17, <1>19, <1>21, Zenon DEF FramesStand, at
<1>23. MemoriesChain(more, L, F, k + 1, r.ch[0].mem)
  <2>1. more[at].mem = IF k = 0 THEN r.ch[0].mem ELSE more[at - 1].name
    <3>1. CASE k = 0
      BY <1>3, <1>10, <1>15, <3>1, Zenon
    <3>2. CASE k # 0
      <4>1. k > 0
        BY <3>2, SMT
      <4>2. QED
        BY <1>3, <1>10, <1>15, <1>16, <3>2, <4>1, ZenonT(60)
    <3>3. QED
      BY <3>1, <3>2
  <2>2. QED
    BY <1>19, <1>21, <2>1, Zenon DEF MemoriesChain, at
<1>24. CopiesMade(ch1, k + 1, number, shape)
  <2>1. SUFFICES ASSUME NEW j \in 0..2, j \in ch1.lbrr
                 PROVE  /\ j < k + 1 /\ ch1.copy[j + 1].name = NameOf(number, j, 0)
                        /\ ch1.copy[j + 1].made = shape
    BY Zenon DEF CopiesMade
  <2>2. made.name = NameOf(number, k, 0) /\ made.made = shape
    BY Zenon DEF made, name
  <2>3. CASE kept /\ j = k
    <3>1. k < k + 1
      BY SMT
    <3>2. QED
      BY <1>11, <1>12, <2>2, <2>3, <3>1, Zenon
  <2>4. CASE ~(kept /\ j = k)
    <3>1. j \in ch.lbrr
      BY <1>12, <2>1, <2>4, Zenon
    <3>2. j < k /\ ch.copy[j + 1].name = NameOf(number, j, 0) /\ ch.copy[j + 1].made = shape
      BY <1>3, <3>1, Zenon DEF CopiesMade
    <3>3. j < k + 1 /\ j + 1 \in 1..3 /\ j + 1 # k + 1
      BY <3>2, SMT
    <3>4. ch1.copy[j + 1] = ch.copy[j + 1]
      BY <1>11, <1>12, <3>3, Zenon
    <3>5. QED
      BY <3>2, <3>3, <3>4
  <2>5. QED
    BY <2>3, <2>4
<1>25. /\ With(s.enc, 0, ch1) \in Encoders
       /\ With(s.enc, 0, ch1).chans = s.enc.chans /\ With(s.enc, 0, ch1).ms = s.enc.ms
       /\ With(s.enc, 0, ch1).midOnly = s.enc.midOnly
       /\ With(s.enc, 0, ch1).ch[0] = ch1
       /\ With(s.enc, 0, ch1).ch[1] = s.enc.ch[1]
  <2>1. 0 \in {0, 1} /\ 1 \in {0, 1} /\ 1 # 0
    BY SMT
  <2>2. QED
    BY <1>31, <1>12, <2>1, EncoderWith, ZenonT(60)
<1>26. Len(more) = HeadSize(L, F) + Before(L, F) + (k + 1) /\ k + 1 # 0
  BY <1>4, <1>13, <1>32, SMTT(30)
<1>27. HeadSize(L, F) = 1 => more[1].kind = "lbrr flags" /\ more[1].set = L
  <2>1. HeadSize(L, F) = 1 => 1 \in 1..Len(s.items)
    BY <1>4, <1>32, SMT
  <2>2. QED
    BY <1>3, <1>13, <2>1, Zenon DEF Longer
<1>28. z.enc = With(s.enc, 0, ch1) /\ z.items = more
  BY <1>6, SMT
<1>29. ch1.mem = more[Len(more)].name
  BY <1>10, <1>12, <1>15
<1>34. fec \/ ch1.lbrr = {}
  BY <1>3, <1>12, Zenon DEF kept
<1>30. FramesWritten(z, r, k + 1, number, vad, fec)
  BY <1>3, <1>12, <1>13, <1>14, <1>20, <1>22, <1>23, <1>24, <1>25, <1>26, <1>27, <1>28, <1>29, <1>34,
     Zenon DEF FramesWritten, L, F, shape, ch
<1>33. QED
  BY <1>30 DEF z, name

(* The part of a mono packet that precedes its frames.                     *)
LEMMA WriteLbrrMono ==
  ASSUME NEW r \in Encoders, r.ms \in Lengths, r.ch[0].fs \in Rates, NEW number \in Nat,
         CopiesKept(r, number), NEW vad, NEW fec
  PROVE  FramesWritten(WriteLbrr(r, 1, FramesPerPacket(r.ms)), r, 0, number + 1, vad, fec)
<1> DEFINE L == r.ch[0].lbrr
           F == FramesPerPacket(r.ms)
           shape == <<Subframes(r.ms), r.ch[0].fs>>
           flags == WriteLbrrFlags(r, 0, F) \o <<>>
           s0 == [enc |-> r, items |-> flags]
           s1 == WriteCopy(s0, 0, 0)
           s2 == WriteCopy(s1, 1, 0)
           s3 == WriteCopy(s2, 2, 0)
           s == IF F = 1 THEN s1 ELSE IF F = 2 THEN s2 ELSE s3
           z == WriteLbrr(r, 1, F)
<1>1. L \in SUBSET (0..2) /\ r.ch[0] \in EncChannels /\ r.ch \in [{0, 1} -> EncChannels]
  BY SMT DEF Encoders, EncChannels
<1>2. F \in {1, 2, 3} /\ Subframes(r.ms) \in {2, 4}
  BY Durations, Zenon
<1>3. z = [enc |-> CopiesSent(s.enc, 1), items |-> s.items]
  BY SMT DEF WriteLbrr, EachFrame, EachChannel
<1> HIDE DEF z, s
<1>4. /\ flags \in Seq(Items) /\ Len(flags) = HeadSize(L, F) + 0
      /\ HeadSize(L, F) = 1 => flags[1].kind = "lbrr flags" /\ flags[1].set = L
      /\ Follows(r.ch[0].ec, flags, Len(flags))
  <2> DEFINE item == [kind |-> "lbrr flags", channel |-> 0, set |-> L]
  <2>1. item \in Items
    <3>1. item \in FlagItems
      BY <1>1, Zenon DEF FlagItems
    <3>2. QED
      BY <3>1 DEF Items
  <2>2. item.kind = "lbrr flags" /\ item.set = L
    BY Zenon
  <2>3. WriteLbrrFlags(r, 0, F) = IF L # {} /\ F > 1 THEN <<item>> ELSE <<>>
    BY Zenon DEF WriteLbrrFlags
  <2> HIDE DEF item, L, F
  <2>4. CASE L # {} /\ F > 1
    <3>1. WriteLbrrFlags(r, 0, F) = <<item>>
      BY <2>3, <2>4, Zenon
    <3>2. flags = <<item>>
      BY <2>1, <3>1, SMT
    <3> HIDE DEF flags
    <3>3. flags \in Seq(Items) /\ Len(flags) = 1 /\ flags[1] = item
      BY <2>1, <3>2, SMT
    <3>4. HeadSize(L, F) = 1 /\ 1 + 0 = 1
      BY <2>4, SMT DEF HeadSize
    <3>5. flags[Len(flags)].kind # "frame"
      <4>1. flags[Len(flags)] = item
        BY <3>3
      <4>2. item.kind # "frame"
        BY <2>2, Zenon
      <4>3. QED
        BY <4>1, <4>2
    <3>6. QED
      BY <2>2, <3>3, <3>4, <3>5, Zenon DEF Follows
  <2>5. CASE ~(L # {} /\ F > 1)
    <3>1. WriteLbrrFlags(r, 0, F) = <<>>
      BY <2>3, <2>5, Zenon
    <3>2. flags = <<>>
      BY <3>1, SMT
    <3> HIDE DEF flags
    <3>3. flags \in Seq(Items) /\ Len(flags) = 0
      BY <3>2, SMT
    <3>4. HeadSize(L, F) = 0 /\ 0 + 0 = 0 /\ 0 # 1 /\ ~(0 > 0)
      BY <2>5, SMT DEF HeadSize
    <3>5. QED
      BY <3>3, <3>4, Zenon DEF Follows
  <2>6. QED
    BY <2>4, <2>5
<1> HIDE DEF L, F, flags, shape
<1>5. CopiesWritten(s0, r, 0, number)
  <2>1. Before(L, 0) = 0
    BY <1>1, SMT DEF Before
  <2>2. \A j \in 0..2 : ~(j < 0)
    BY SMT
  <2>3. CopiesStand(flags, L, F, 0, number, shape)
    BY <2>2, Zenon DEF CopiesStand
  <2>4. s0.enc = r /\ s0.items = flags
    BY Zenon
  <2> HIDE DEF s0
  <2>5. QED
    BY <1>4, <2>1, <2>3, <2>4, Zenon DEF CopiesWritten, L, F, shape
<1>6. CopiesWritten(s, r, F, number)
  <2>1. 0 \in 0..2 /\ 1 \in 0..2 /\ 2 \in 0..2 /\ 0 < F /\ 0 + 1 = 1 /\ 1 + 1 = 2 /\ 2 + 1 = 3
    BY <1>2, SMT
  <2> HIDE DEF s0, s1, s2, s3
  <2>2. CopiesWritten(s1, r, 1, number)
    <3>1. CopiesWritten(WriteCopy(s0, 0, 0), r, 0 + 1, number)
      BY <1>5, <2>1, WriteCopyStep, Zenon DEF F
    <3>2. QED
      BY <2>1, <3>1 DEF s1
  <2>3. F # 1 => CopiesWritten(s2, r, 2, number)
    <3>1. SUFFICES ASSUME F # 1 PROVE CopiesWritten(s2, r, 2, number)
      OBVIOUS
    <3>2. 1 < F
      BY <1>2, <3>1, SMT
    <3>3. CopiesWritten(WriteCopy(s1, 1, 0), r, 1 + 1, number)
      BY <2>1, <2>2, <3>2, WriteCopyStep, Zenon DEF F
    <3>4. QED
      BY <2>1, <3>3 DEF s2
  <2>4. F = 3 => CopiesWritten(s3, r, 3, number)
    <3>1. SUFFICES ASSUME F = 3 PROVE CopiesWritten(s3, r, 3, number)
      OBVIOUS
    <3>2. 2 < F /\ F # 1
      BY <3>1, SMT
    <3>3. CopiesWritten(WriteCopy(s2, 2, 0), r, 2 + 1, number)
      BY <2>1, <2>3, <3>2, WriteCopyStep, Zenon DEF F
    <3>4. QED
      BY <2>1, <3>3 DEF s3
  <2>5. QED
    BY <1>2, <2>2, <2>3, <2>4, SMT DEF s
<1> DEFINE ch == s.enc.ch[0]
           e == CopiesSent(s.enc, 1)
<1>7. /\ s.enc \in Encoders /\ s.items \in Seq(Items)
      /\ s.enc.chans = r.chans /\ s.enc.ms = r.ms /\ s.enc.midOnly = r.midOnly
      /\ s.enc.ch[1] = r.ch[1]
      /\ ch.fs = r.ch[0].fs /\ ch.lbrr = L /\ ch.copy = r.ch[0].copy /\ ch.mem = r.ch[0].mem
      /\ Len(s.items) = HeadSize(L, F) + Before(L, F)
      /\ HeadSize(L, F) = 1 => s.items[1].kind = "lbrr flags" /\ s.items[1].set = L
      /\ CopiesStand(s.items, L, F, F, number, shape)
      /\ Follows(ch.ec, s.items, Len(s.items))
  BY <1>6, Zenon DEF CopiesWritten, L, F, shape
<1>8. /\ e \in Encoders /\ e.chans = s.enc.chans /\ e.ms = s.enc.ms /\ e.midOnly = s.enc.midOnly
      /\ e.ch[1] = s.enc.ch[1]
      /\ e.ch[0].fs = ch.fs /\ e.ch[0].ec = ch.ec /\ e.ch[0].mem = ch.mem /\ e.ch[0].lbrr = {}
  <2> DEFINE x == [s.enc.ch[0] EXCEPT !.lbrr = {}]
             g == [c \in {0, 1} |-> IF c < 1 THEN [s.enc.ch[c] EXCEPT !.lbrr = {}] ELSE s.enc.ch[c]]
  <2>1. s.enc \in Encoders
    BY <1>7
  <2>2. s.enc.ch[0] \in EncChannels /\ s.enc.ch[1] \in EncChannels
    BY <2>1, SMT DEF Encoders
  <2>3. {} \in SUBSET (0..2)
    OBVIOUS
  <2>4. x \in EncChannels
    BY <2>2, <2>3, Zenon DEF EncChannels
  <2>5. x.fs = ch.fs /\ x.ec = ch.ec /\ x.mem = ch.mem /\ x.lbrr = {}
    BY <2>2, Zenon DEF EncChannels
  <2>6. g[0] = x /\ g[1] = s.enc.ch[1] /\ g = [c \in {0, 1} |-> g[c]]
    <3>1. 0 < 1 /\ ~(1 < 1)
      BY SMT
    <3>2. QED
      BY <3>1, Zenon
  <2>7. e = [s.enc EXCEPT !.ch = g]
    BY DEF CopiesSent
  <2> HIDE DEF x, g
  <2>8. g \in [{0, 1} -> EncChannels]
    BY <2>2, <2>4, <2>6, SMT
  <2>9. e \in Encoders
    BY <2>1, <2>7, <2>8, Zenon DEF Encoders
  <2>10. e.chans = s.enc.chans /\ e.ms = s.enc.ms /\ e.midOnly = s.enc.midOnly /\ e.ch = g
    BY <2>1, <2>7, Zenon DEF Encoders
  <2> HIDE DEF e, ch
  <2>11. QED
    BY <2>5, <2>6, <2>9, <2>10, Zenon
<1>9. z.enc = e /\ z.items = s.items
  BY <1>3, SMT
<1> HIDE DEF e, ch
<1>10. Len(s.items) = HeadSize(L, F) + Before(L, F) + 0 /\ (number + 1) - 1 = number
  <2>1. Len(s.items) = HeadSize(L, F) + Before(L, F)
    BY <1>7
  <2>2. HeadSize(L, F) + Before(L, F) \in Nat
    BY <1>1, <1>2, SMT DEF HeadSize, Before
  <2>3. QED
    BY <2>1, <2>2, SMT
<1>11. \A j \in 0..2 : ~(j < 0)
  BY SMT
<1>12. FramesStand(s.items, L, F, 0, vad, shape) /\ MemoriesChain(s.items, L, F, 0, r.ch[0].mem)
  BY <1>11, Zenon DEF FramesStand, MemoriesChain
<1>13. CopiesMade(e.ch[0], 0, number + 1, shape)
  BY <1>8, Zenon DEF CopiesMade
<1>14. FramesWritten(z, r, 0, number + 1, vad, fec)
  BY <1>7, <1>8, <1>9, <1>10, <1>12, <1>13, Zenon DEF FramesWritten, L, F, shape, ch
<1>15. QED
  BY <1>14 DEF z, F

(* A mono packet after the encoder e, numbered one more than number.       *)
MonoOutcome(e, z, ms, fs, number, fec) ==
  LET p == z.packet
      frames == FramesPerPacket(ms)
  IN  /\ z.enc \in Encoders /\ z.enc.chans = 1 /\ z.enc.ms = ms /\ z.enc.midOnly = e.midOnly
      /\ z.enc.ch[1] = e.ch[1]
      /\ p \in Packets /\ p.number = number + 1 /\ p.chans = 1 /\ p.ms = ms /\ p.fs = fs
      /\ MonoPacket(p)
      /\ CopiesKept(z.enc, number + 1) /\ (fec \/ z.enc.ch[0].lbrr = {})
      /\ z.enc.ch[0].fs = fs /\ z.enc.ch[0].mem = p.items[Len(p.items)].name
      /\ MemoriesChain(p.items, CopySet(p), frames, frames,
                       IF e.ch[0].fs = fs THEN e.ch[0].mem ELSE 0)

(* A whole mono packet.                                                    *)
LEMMA EncodedMono ==
  ASSUME NEW e \in Encoders, NEW ms \in Lengths, NEW fs \in Rates, NEW number \in Nat,
         CopiesKept(e, number), NEW fec \in BOOLEAN, NEW picks,
         \A f \in 0..(FramesPerPacket(ms) - 1) : picks[f + 1].mid \in Kinds
  PROVE  MonoOutcome(e, Encoded(e, 1, ms, fs, picks, fec, number + 1), ms, fs, number, fec)
<1> DEFINE r == Controlled(e, 1, ms, fs)
           L == r.ch[0].lbrr
           F == FramesPerPacket(ms)
           shape == <<Subframes(ms), fs>>
           vad == [c \in {0, 1} |-> {f \in 0..(F - 1) :
                     /\ c < 1
                     /\ TypeOf(picks[f + 1], c) \notin {"inactive", "absent"}}]
           lbrr == [c \in {0, 1} |-> c < 1 /\ r.ch[c].lbrr # {}]
           s0 == WriteLbrr(r, 1, F)
           s1 == WriteFrame(s0, 0, 0, picks[1], fec, NameOf(number + 1, 0, 0))
           s2 == WriteFrame(s1, 1, 0, picks[2], fec, NameOf(number + 1, 1, 0))
           s3 == WriteFrame(s2, 2, 0, picks[3], fec, NameOf(number + 1, 2, 0))
           s == IF F = 1 THEN s1 ELSE IF F = 2 THEN s2 ELSE s3
           z == Encoded(e, 1, ms, fs, picks, fec, number + 1)
           p == [chans |-> 1, ms |-> ms, fs |-> fs, number |-> number + 1, items |-> s.items,
                 vad |-> vad, lbrr |-> lbrr]
<1>1. F \in {1, 2, 3} /\ Subframes(ms) \in {2, 4}
  BY Durations, Zenon
<1>2. z = [enc |-> s.enc, packet |-> p]
  <2>1. Widened(e, 1) = e
    <3>1. ~(1 > e.chans)
      BY SMT DEF Encoders
    <3>2. QED
      BY <3>1, Zenon DEF Widened
  <2>2. 0 + 1 = 1 /\ 1 + 1 = 2 /\ 2 + 1 = 3 /\ 1 # 2
    BY SMT
  <2> DEFINE Slot(a, f) == WriteSlot(a, f, picks[f + 1], 1, fec, number + 1)
  <2>3. EachFrame(LAMBDA a, f : WriteSlot(a, f, picks[f + 1], 1, fec, number + 1), s0, F)
          = IF F = 1 THEN Slot(s0, 0) ELSE IF F = 2 THEN Slot(Slot(s0, 0), 1)
            ELSE Slot(Slot(Slot(s0, 0), 1), 2)
    BY DEF EachFrame
  <2>4. \A a, f : Slot(a, f) = WriteFrame(a, f, 0, picks[f + 1], fec, NameOf(number + 1, f, 0))
    BY <2>2, Zenon DEF WriteSlot, EachChannel
  <2>5. EachFrame(LAMBDA a, f : WriteSlot(a, f, picks[f + 1], 1, fec, number + 1), s0, F) = s
    <3> HIDE DEF Slot, F
    <3>1. Slot(s0, 0) = s1
      BY <2>2, <2>4, Zenon
    <3>2. Slot(s1, 1) = s2
      BY <2>2, <2>4, Zenon
    <3>3. Slot(s2, 2) = s3
      BY <2>2, <2>4, Zenon
    <3> HIDE DEF s0, s1, s2, s3
    <3>4. QED
      BY <2>3, <3>1, <3>2, <3>3, Zenon
  <2> DEFINE ready == Controlled(Widened(e, 1), 1, ms, fs)
             x == EachFrame(LAMBDA a, f : WriteSlot(a, f, picks[f + 1], 1, fec, number + 1),
                            WriteLbrr(ready, 1, F), F)
  <2>6. z = [enc |-> x.enc,
             packet |-> [chans |-> 1, ms |-> ms, fs |-> fs, number |-> number + 1, items |-> x.items,
                         vad |-> vad, lbrr |-> [c \in {0, 1} |-> c < 1 /\ ready.ch[c].lbrr # {}]]]
    BY DEF Encoded
  <2>7. ready = r
    BY <2>1
  <2>8. x = s
    BY <2>1, <2>5
  <2> HIDE DEF z, x, ready, r, vad, s
  <2>9. QED
    BY <2>6, <2>7, <2>8, Zenon
<1> HIDE DEF z, s
<1>3. /\ r \in Encoders /\ r.chans = 1 /\ r.ms = ms /\ r.midOnly = e.midOnly /\ r.ch[1] = e.ch[1]
      /\ ReadyChannel(e.ch[0], r.ch[0], fs, ms # e.ms \/ 1 # e.chans)
      /\ CopiesKept(r, number)
  <2>1. 1 \in {1, 2} /\ 0 < 1 /\ ~(1 < 1) /\ 0 \in {0, 1} /\ 1 \in {0, 1}
    BY SMT
  <2> HIDE DEF r
  <2>2. ReadyEncoder(e, r, 1, ms, fs)
    BY <2>1, ControlledLemma, Zenon DEF r
  <2>3. CopiesKept(r, number)
    BY <2>1, <2>2, ReadyKeeps, Zenon
  <2>4. QED
    BY <2>1, <2>2, <2>3, Zenon DEF ReadyEncoder
<1> HIDE DEF r
<1>4. r.ch[0].fs = fs /\ r.ch[0].mem = (IF e.ch[0].fs = fs THEN e.ch[0].mem ELSE 0)
      /\ r.ch[0] \in EncChannels
  BY <1>3, Zenon DEF ReadyChannel
<1>5. L \in SUBSET (0..2) /\ L \subseteq 0..(F - 1)
  <2>1. L \in SUBSET (0..2)
    BY <1>4, SMT DEF EncChannels
  <2>2. \A j \in 0..2 : j \in L => j < F
    BY <1>3, Zenon DEF CopiesKept
  <2> HIDE DEF L, F
  <2>3. QED
    BY <1>1, <2>1, <2>2, SMT
<1> DEFINE speech == vad[0]
           Picked(k, pick) == pick.mid \in Kinds /\ (k \in speech <=> pick.mid # "inactive")
<1>6. \A k \in 0..2 : k < F => Picked(k, picks[k + 1])
  <2>1. SUFFICES ASSUME NEW k \in 0..2, k < F
                 PROVE  Picked(k, picks[k + 1])
    BY Zenon
  <2>2. k \in 0..(F - 1) /\ 0 < 1 /\ 0 # Side
    <3> HIDE DEF F
    <3>1. QED
      BY <1>1, <2>1, SMT DEF Side
  <2>3. picks[k + 1].mid \in Kinds
    BY <2>2, Zenon
  <2>4. TypeOf(picks[k + 1], 0) = picks[k + 1].mid /\ picks[k + 1].mid # "absent"
    BY <2>2, <2>3, SMT DEF TypeOf, Kinds
  <2>5. speech = {f \in 0..(F - 1) : 0 < 1 /\ TypeOf(picks[f + 1], 0) \notin {"inactive", "absent"}}
    BY Zenon
  <2> HIDE DEF speech, F
  <2>6. k \in speech <=> TypeOf(picks[k + 1], 0) \notin {"inactive", "absent"}
    BY <2>2, <2>5, Zenon
  <2>7. QED
    BY <2>3, <2>4, <2>6, Zenon
<1>7. /\ vad \in [{0, 1} -> SUBSET (0..2)] /\ lbrr \in [{0, 1} -> BOOLEAN]
      /\ lbrr[0] = (L # {})
  <2>1. \A c \in {0, 1} : vad[c] \in SUBSET (0..2)
    <3>1. 0..(F - 1) \subseteq 0..2
      <4> HIDE DEF F
      <4>1. QED
        BY <1>1, SMT
    <3> HIDE DEF F
    <3>2. QED
      BY <3>1, Zenon
  <2>2. vad = [c \in {0, 1} |-> vad[c]]
    BY Zenon
  <2>3. 0 < 1
    BY SMT
  <2>4. lbrr[0] = (L # {})
    BY <2>3, Zenon
  <2>5. \A c \in {0, 1} : lbrr[c] \in BOOLEAN
    BY Zenon
  <2>6. lbrr = [c \in {0, 1} |-> lbrr[c]]
    BY Zenon
  <2> HIDE DEF vad, lbrr, L
  <2>7. QED
    BY <2>1, <2>2, <2>4, <2>5, <2>6, SMT
<1> HIDE DEF speech, vad, lbrr, Picked
<1>8. FramesWritten(s, r, F, number + 1, speech, fec)
  <2>1. FramesWritten(s0, r, 0, number + 1, speech, fec)
    BY <1>3, <1>4, WriteLbrrMono, Zenon
  <2>2. 0 \in 0..2 /\ 1 \in 0..2 /\ 2 \in 0..2 /\ 0 < F /\ 0 + 1 = 1 /\ 1 + 1 = 2 /\ 2 + 1 = 3
        /\ number + 1 \in Nat
    <3> HIDE DEF F
    <3>1. QED
      BY <1>1, SMT
  <2>3. r.ms \in Lengths /\ r.ch[0].fs \in Rates /\ F = FramesPerPacket(r.ms)
    BY <1>3, <1>4
  <2> HIDE DEF F, s0, s1, s2, s3
  <2>4. FramesWritten(s1, r, 1, number + 1, speech, fec)
    <3>1. picks[1].mid \in Kinds /\ (0 \in speech <=> picks[1].mid # "inactive")
      <4>1. Picked(0, picks[0 + 1])
        BY <1>6, <2>2, Zenon
      <4>2. QED
        BY <2>2, <4>1 DEF Picked
    <3>2. FramesWritten(WriteFrame(s0, 0, 0, picks[1], fec, NameOf(number + 1, 0, 0)), r, 0 + 1,
                        number + 1, speech, fec)
      BY <1>3, <2>1, <2>2, <2>3, <3>1, WriteFrameStep, Zenon
    <3>3. QED
      BY <2>2, <3>2 DEF s1
  <2>5. F # 1 => FramesWritten(s2, r, 2, number + 1, speech, fec)
    <3>1. SUFFICES ASSUME F # 1 PROVE FramesWritten(s2, r, 2, number + 1, speech, fec)
      OBVIOUS
    <3>2. 1 < F
      BY <1>1, <3>1, SMT
    <3>3. picks[2].mid \in Kinds /\ (1 \in speech <=> picks[2].mid # "inactive")
      <4>1. Picked(1, picks[1 + 1])
        BY <1>6, <2>2, <3>2, Zenon
      <4>2. QED
        BY <2>2, <4>1 DEF Picked
    <3>4. FramesWritten(WriteFrame(s1, 1, 0, picks[2], fec, NameOf(number + 1, 1, 0)), r, 1 + 1,
                        number + 1, speech, fec)
      BY <1>3, <2>2, <2>3, <2>4, <3>2, <3>3, WriteFrameStep, Zenon
    <3>5. QED
      BY <2>2, <3>4 DEF s2
  <2>6. F = 3 => FramesWritten(s3, r, 3, number + 1, speech, fec)
    <3>1. SUFFICES ASSUME F = 3 PROVE FramesWritten(s3, r, 3, number + 1, speech, fec)
      OBVIOUS
    <3>2. 2 < F /\ F # 1
      BY <3>1, SMT
    <3>3. picks[3].mid \in Kinds /\ (2 \in speech <=> picks[3].mid # "inactive")
      <4>1. Picked(2, picks[2 + 1])
        BY <1>6, <2>2, <3>2, Zenon
      <4>2. QED
        BY <2>2, <4>1 DEF Picked
    <3>4. FramesWritten(WriteFrame(s2, 2, 0, picks[3], fec, NameOf(number + 1, 2, 0)), r, 2 + 1,
                        number + 1, speech, fec)
      BY <1>3, <2>2, <2>3, <2>5, <3>2, <3>3, WriteFrameStep, Zenon
    <3>5. QED
      BY <2>2, <3>4 DEF s3
  <2>7. QED
    BY <1>1, <2>4, <2>5, <2>6, SMT DEF s
<1> HIDE DEF L, shape
<1>9. FramesPerPacket(r.ms) = F /\ <<Subframes(r.ms), r.ch[0].fs>> = shape /\ r.ch[0].lbrr = L
  BY <1>3, <1>4 DEF L, shape
<1> HIDE DEF F
<1> DEFINE ch == s.enc.ch[0]
<1>10. /\ s.enc \in Encoders /\ s.items \in Seq(Items)
       /\ s.enc.chans = 1 /\ s.enc.ms = ms /\ s.enc.midOnly = e.midOnly
       /\ s.enc.ch[1] = e.ch[1] /\ ch.fs = fs
       /\ Len(s.items) = HeadSize(L, F) + Before(L, F) + F
       /\ (HeadSize(L, F) = 1 => s.items[1].kind = "lbrr flags" /\ s.items[1].set = L)
       /\ CopiesStand(s.items, L, F, F, (number + 1) - 1, shape)
       /\ FramesStand(s.items, L, F, F, speech, shape)
       /\ MemoriesChain(s.items, L, F, F, r.ch[0].mem)
       /\ CopiesMade(ch, F, number + 1, shape) /\ (fec \/ ch.lbrr = {})
       /\ ch.mem = IF F = 0 THEN r.ch[0].mem ELSE s.items[Len(s.items)].name
  BY <1>3, <1>4, <1>8, <1>9, Zenon DEF FramesWritten
<1> HIDE DEF ch
<1>11. p \in Packets /\ p.number = number + 1 /\ p.chans = 1 /\ p.ms = ms /\ p.fs = fs
       /\ p.items = s.items /\ p.vad = vad /\ p.lbrr = lbrr
  <2>1. 1 \in {0, 1, 2} /\ number + 1 \in Nat
    BY SMT
  <2>2. p \in Packets
    BY <1>7, <1>10, <2>1, Zenon DEF Packets
  <2>3. QED
    BY <2>2, Zenon
<1> HIDE DEF p
<1>12. CopySet(p) = L
  <2>1. CASE L = {}
    BY <1>7, <1>11, <2>1, Zenon DEF CopySet
  <2>2. CASE L # {} /\ F = 1
    <3>1. L = {0}
      <4>1. 0..(F - 1) = {0}
        BY <2>2, SMT
      <4>2. QED
        BY <1>5, <2>2, <4>1, Zenon
    <3>2. QED
      BY <1>7, <1>11, <2>2, <3>1, Zenon DEF CopySet, F
  <2>3. CASE L # {} /\ F # 1
    <3>1. HeadSize(L, F) = 1
      BY <1>1, <2>3, SMT DEF HeadSize
    <3>2. QED
      BY <1>7, <1>10, <1>11, <2>3, <3>1, Zenon DEF CopySet, F
  <2>4. QED
    BY <2>1, <2>2, <2>3
<1>13. MonoPacket(p)
  BY <1>5, <1>7, <1>10, <1>11, <1>12, Zenon DEF MonoPacket, F, shape, speech
<1>14. CopiesKept(s.enc, number + 1)
  BY <1>10, Zenon DEF CopiesKept, CopiesMade, ch, F, shape
<1>15. z.enc = s.enc /\ z.packet = p
  BY <1>2, SMT
<1>16. F # 0
  BY <1>1, SMT
<1>17. MonoOutcome(e, z, ms, fs, number, fec)
  BY <1>4, <1>10, <1>11, <1>12, <1>13, <1>14, <1>15, <1>16, Zenon DEF MonoOutcome, F, ch
<1>18. QED
  BY <1>17 DEF z

(* What a call may hear.                                                   *)
Heards == [flag : {"normal", "lbrr"}, channel : {0, 1}, frame : 0..3, name : Nat, before : Nat,
           meant : Nat, fits : BOOLEAN]

(* A reader of a packet's items.                                           *)
Reads == [dec : Decoders, pos : Nat, ok : BOOLEAN, heard : SUBSET Heards]

(* A decoder with another channel is one, and its other channel stays.     *)
LEMMA DecoderWith ==
  ASSUME NEW d \in Decoders, NEW c \in {0, 1}, NEW x \in DecChannels
  PROVE  /\ With(d, c, x) \in Decoders
         /\ With(d, c, x).chans = d.chans /\ With(d, c, x).midOnly = d.midOnly
         /\ With(d, c, x).ch[c] = x
         /\ \A k \in {0, 1} : k # c => With(d, c, x).ch[k] = d.ch[k]
<1> DEFINE g == [d.ch EXCEPT ![c] = x]
           w == With(d, c, x)
<1>1. d.ch \in [{0, 1} -> DecChannels]
  BY SMT DEF Decoders
<1>2. g \in [{0, 1} -> DecChannels] /\ g[c] = x /\ \A k \in {0, 1} : k # c => g[k] = d.ch[k]
  BY <1>1, SMT
<1>3. w = [d EXCEPT !.ch = g]
  BY DEF With
<1> HIDE DEF g
<1>4. w \in Decoders
  BY <1>2, <1>3, Zenon DEF Decoders
<1>5. w.chans = d.chans /\ w.midOnly = d.midOnly /\ w.ch = g
  BY <1>3, Zenon DEF Decoders
<1> HIDE DEF w
<1>6. /\ w \in Decoders
      /\ w.chans = d.chans /\ w.midOnly = d.midOnly
      /\ w.ch[c] = x
      /\ \A k \in {0, 1} : k # c => w.ch[k] = d.ch[k]
  BY <1>2, <1>4, <1>5, Zenon
<1>7. QED
  BY <1>6 DEF w

(* A channel of the decoder at the first frame of a packet.                *)
ReadyToRead(c, x, wider, ms, fs) ==
  /\ x \in DecChannels /\ x.n = 0 /\ x.frames = FramesPerPacket(ms) /\ x.sub = Subframes(ms)
  /\ x.fs = fs /\ x.mem = IF wider \/ c.fs # fs THEN 0 ELSE c.mem

(* So are the channels of a decoder; it has them then.                     *)
ReadyDecoder(d, x, chans, ms, fs) ==
  /\ x \in Decoders /\ x.chans = chans /\ x.midOnly = d.midOnly
  /\ \A c \in {0, 1} : IF c < chans THEN ReadyToRead(d.ch[c], x.ch[c], chans > d.chans, ms, fs)
                                    ELSE x.ch[c] = d.ch[c]

(* A new channel of the decoder.                                           *)
LEMMA FreshChannel ==
  DecChannelFresh \in DecChannels /\ DecChannelFresh.n = 0 /\ DecChannelFresh.fs = 0
  /\ DecChannelFresh.mem = 0
<1>1. {} \in SUBSET (0..2) /\ 0 \in 0..3 /\ 0 \in Nat /\ 4 \in {2, 4} /\ 0 \in {0} \cup Rates
      /\ FALSE \in BOOLEAN
  BY SMT
<1>2. EcFresh \in Contexts /\ "inactive" \in Kinds
  BY SMT DEF EcFresh, Contexts, Kinds
<1>3. DecChannelFresh \in DecChannels
  BY <1>1, <1>2, Zenon DEF DecChannelFresh, DecChannels
<1>4. QED
  BY <1>3, Zenon DEF DecChannelFresh

(* With a new packet every channel of it is ready.                         *)
LEMMA PreparedNew ==
  ASSUME NEW d \in Decoders, NEW chans \in {1, 2}, NEW ms \in Lengths, NEW fs \in Rates
  PROVE  ReadyDecoder(d, DecPrepared(d, TRUE, chans, ms, fs), chans, ms, fs)
<1> DEFINE wider == chans > d.chans
           Inited(c) == IF chans > d.chans THEN DecChannelFresh ELSE Begun(c, TRUE)
           Sized(c) == [c EXCEPT !.frames = FramesPerPacket(ms), !.sub = Subframes(ms)]
           g == [c \in {0, 1} |-> IF c < chans THEN DecSetFs(Sized(Inited(d.ch[c])), fs) ELSE d.ch[c]]
           x == DecPrepared(d, TRUE, chans, ms, fs)
<1>1. \A c \in {0, 1} : d.ch[c] \in DecChannels
  BY SMT DEF Decoders
<1>2. FramesPerPacket(ms) \in 0..3 /\ Subframes(ms) \in {2, 4} /\ 0 \in 0..3 /\ 0 \in Nat
      /\ "inactive" \in Kinds /\ fs \in {0} \cup Rates
  BY Durations, SMT DEF Kinds
<1>3. ASSUME NEW c \in DecChannels
      PROVE  /\ Inited(c) \in DecChannels /\ Inited(c).n = 0
             /\ Inited(c).mem = IF wider THEN 0 ELSE c.mem
             /\ Inited(c).fs = IF wider THEN 0 ELSE c.fs
  <2>1. CASE chans > d.chans
    BY <2>1, FreshChannel, Zenon
  <2>2. CASE ~(chans > d.chans)
    <3>1. Inited(c) = [c EXCEPT !.n = 0]
      BY <2>2, Zenon DEF Begun
    <3>2. [c EXCEPT !.n = 0] \in DecChannels /\ [c EXCEPT !.n = 0].n = 0
          /\ [c EXCEPT !.n = 0].mem = c.mem /\ [c EXCEPT !.n = 0].fs = c.fs
      BY <1>2, Zenon DEF DecChannels
    <3> HIDE DEF Inited
    <3>3. QED
      BY <2>2, <3>1, <3>2, Zenon
  <2>3. QED
    BY <2>1, <2>2
<1>4. ASSUME NEW c \in DecChannels
      PROVE  /\ Sized(c) \in DecChannels /\ Sized(c).n = c.n /\ Sized(c).mem = c.mem /\ Sized(c).fs = c.fs
             /\ Sized(c).frames = FramesPerPacket(ms) /\ Sized(c).sub = Subframes(ms)
  BY <1>2, Zenon DEF DecChannels
<1>5. ASSUME NEW c \in DecChannels
      PROVE  /\ DecSetFs(c, fs) \in DecChannels /\ DecSetFs(c, fs).n = c.n
             /\ DecSetFs(c, fs).frames = c.frames /\ DecSetFs(c, fs).sub = c.sub
             /\ DecSetFs(c, fs).fs = fs
             /\ DecSetFs(c, fs).mem = IF c.fs # fs THEN 0 ELSE c.mem
  <2>1. CASE c.fs = fs
    BY <2>1, Zenon DEF DecSetFs
  <2>2. CASE c.fs # fs
    <3> DEFINE y == [c EXCEPT !.fs = fs, !.mem = 0, !.type = "inactive"]
    <3>1. DecSetFs(c, fs) = y
      BY <2>2, Zenon DEF DecSetFs
    <3>2. y \in DecChannels /\ y.n = c.n /\ y.frames = c.frames /\ y.sub = c.sub /\ y.fs = fs /\ y.mem = 0
      BY <1>2, Zenon DEF DecChannels
    <3> HIDE DEF y
    <3>3. QED
      BY <2>2, <3>1, <3>2, Zenon
  <2>3. QED
    BY <2>1, <2>2
<1>6. x = [d EXCEPT !.chans = chans, !.ch = g]
  <2>1. 0 \in {0, 1} /\ d.ch[0] \in DecChannels
    BY <1>1, SMT
  <2>2. Inited(d.ch[0]).n = 0
    BY <1>3, <2>1, Zenon
  <2>3. QED
    BY <2>2, Zenon DEF DecPrepared
<1>7. \A c \in {0, 1} : IF c < chans THEN ReadyToRead(d.ch[c], g[c], chans > d.chans, ms, fs)
                                     ELSE g[c] = d.ch[c]
  <2> TAKE c \in {0, 1}
  <2>1. CASE c < chans
    <3>1. g[c] = DecSetFs(Sized(Inited(d.ch[c])), fs)
      BY <2>1, Zenon
    <3> HIDE DEF g, Sized, Inited
    <3>2. ReadyToRead(d.ch[c], DecSetFs(Sized(Inited(d.ch[c])), fs), chans > d.chans, ms, fs)
      <4> DEFINE a == Inited(d.ch[c])
                 b == Sized(a)
                 y == DecSetFs(b, fs)
      <4>1. a \in DecChannels /\ a.n = 0 /\ a.mem = (IF wider THEN 0 ELSE d.ch[c].mem)
            /\ a.fs = (IF wider THEN 0 ELSE d.ch[c].fs)
        BY <1>1, <1>3, Zenon
      <4> HIDE DEF a
      <4>2. b \in DecChannels /\ b.n = a.n /\ b.mem = a.mem /\ b.fs = a.fs
            /\ b.frames = FramesPerPacket(ms) /\ b.sub = Subframes(ms)
        BY <4>1, <1>4, Zenon
      <4> HIDE DEF b
      <4>3. y \in DecChannels /\ y.n = b.n /\ y.frames = b.frames /\ y.sub = b.sub /\ y.fs = fs
            /\ y.mem = IF b.fs # fs THEN 0 ELSE b.mem
        BY <4>2, <1>5, Zenon
      <4> HIDE DEF y
      <4>4. y.mem = IF chans > d.chans \/ d.ch[c].fs # fs THEN 0 ELSE d.ch[c].mem
        BY <4>1, <4>2, <4>3, Zenon
      <4>5. ReadyToRead(d.ch[c], y, chans > d.chans, ms, fs)
        BY <4>1, <4>2, <4>3, <4>4 DEF ReadyToRead
      <4>6. QED
        BY <4>5 DEF y, b, a
    <3>3. QED
      BY <2>1, <3>1, <3>2, Zenon
  <2>2. CASE ~(c < chans)
    BY <2>2, Zenon
  <2>3. QED
    BY <2>1, <2>2
<1>8. g \in [{0, 1} -> DecChannels]
  <2>1. g = [c \in {0, 1} |-> g[c]]
    BY Zenon
  <2> HIDE DEF g
  <2>2. \A c \in {0, 1} : g[c] \in DecChannels
    BY <1>1, <1>7, Zenon DEF ReadyToRead
  <2>3. QED
    BY <2>1, <2>2, SMT
<1> HIDE DEF g
<1>9. x \in Decoders
  BY <1>6, <1>8, Zenon DEF Decoders
<1>10. x.chans = chans /\ x.midOnly = d.midOnly /\ x.ch = g
  BY <1>6, Zenon DEF Decoders
<1> HIDE DEF x
<1>11. ReadyDecoder(d, x, chans, ms, fs)
  BY <1>7, <1>9, <1>10, Zenon DEF ReadyDecoder
<1>12. QED
  BY <1>11 DEF x

(* Between the frames of a packet nothing of it changes.                   *)
LEMMA PreparedAgain ==
  ASSUME NEW d \in Decoders, d.chans = 1, NEW ms, NEW fs, d.ch[0].n > 0, d.ch[0].fs = fs
  PROVE  /\ DecPrepared(d, FALSE, 1, ms, fs) \in Decoders
         /\ DecPrepared(d, FALSE, 1, ms, fs).chans = 1
         /\ DecPrepared(d, FALSE, 1, ms, fs).ch[0] = d.ch[0]
         /\ DecPrepared(d, FALSE, 1, ms, fs).ch[1] = d.ch[1]
<1> DEFINE g == [c \in {0, 1} |-> d.ch[c]]
           x == DecPrepared(d, FALSE, 1, ms, fs)
<1>1. d.ch \in [{0, 1} -> DecChannels]
  BY SMT DEF Decoders
<1>2. ~(1 > d.chans) /\ d.ch[0].n # 0 /\ (\A c \in {0, 1} : c < 1 => c = 0)
  <2>1. d.ch[0].n \in Nat
    BY <1>1, SMT DEF DecChannels
  <2>2. QED
    BY <2>1, SMT
<1>3. \A c \in {0, 1} : c < 1 => DecSetFs(Begun(d.ch[c], FALSE), fs) = d.ch[c]
  BY <1>2, Zenon DEF Begun, DecSetFs
<1>4. x = [d EXCEPT !.chans = 1, !.ch = [c \in {0, 1} |-> IF c < 1 THEN DecSetFs(Begun(d.ch[c], FALSE), fs) ELSE d.ch[c]]]
  <2>1. Begun(d.ch[0], FALSE).n # 0
    BY <1>2, Zenon DEF Begun
  <2>2. QED
    BY <1>2, <2>1, Zenon DEF DecPrepared
<1>5. g \in [{0, 1} -> DecChannels] /\ g[0] = d.ch[0] /\ g[1] = d.ch[1]
  BY <1>1, SMT
<1>6. [c \in {0, 1} |-> IF c < 1 THEN DecSetFs(Begun(d.ch[c], FALSE), fs) ELSE d.ch[c]] = g
  BY <1>3, Zenon
<1>7. x = [d EXCEPT !.chans = 1, !.ch = g]
  BY <1>4, <1>6
<1> HIDE DEF x, g
<1>8. x \in Decoders
  <2>1. 1 \in {1, 2}
    BY SMT
  <2>2. QED
    BY <1>5, <1>7, <2>1, Zenon DEF Decoders
<1>9. x.chans = 1 /\ x.ch = g
  BY <1>7, Zenon DEF Decoders
<1>10. QED
  BY <1>5, <1>8, <1>9 DEF x

(* What a frame's item carries.                                            *)
LEMMA FrameItemLemma ==
  ASSUME NEW item \in Items, item.kind = "frame"
  PROVE  item.type \in Kinds /\ item.name \in Nat /\ item.mem \in Nat
<1>1. item \in FrameItems
  <2>1. item \notin FlagItems
    <3>1. item \in FlagItems => item.kind = "lbrr flags"
      BY Zenon DEF FlagItems
    <3>2. "lbrr flags" # "frame"
      BY SMT
    <3>3. QED
      BY <3>1, <3>2
  <2>2. item \notin StereoItems
    <3>1. item \in StereoItems => item.kind \in {"predictors", "mid only"}
      BY Zenon DEF StereoItems
    <3>2. "frame" \notin {"predictors", "mid only"}
      BY SMT
    <3>3. QED
      BY <3>1, <3>2, Zenon
  <2>3. QED
    BY <2>1, <2>2, Zenon DEF Items
<1>2. QED
  BY <1>1, Zenon DEF FrameItems

(* The read x is the read r after one more frame, item, of channel c.      *)
SameChannel(a, b) ==
  /\ a.n = b.n /\ a.frames = b.frames /\ a.sub = b.sub /\ a.fs = b.fs
  /\ a.vad = b.vad /\ a.lbrr = b.lbrr /\ a.type = b.type /\ a.mem = b.mem

(* A reader past one frame: the context, and nothing else of the decoder,  *)
(* is new.                                                                 *)
FrameRead(r, x, c, item) ==
  /\ x \in Reads /\ x.ok /\ x.pos = r.pos + 1 /\ x.heard = r.heard
  /\ x.dec.chans = r.dec.chans /\ x.dec.midOnly = r.dec.midOnly
  /\ \A k \in {0, 1} : k # c => x.dec.ch[k] = r.dec.ch[k]
  /\ SameChannel(x.dec.ch[c], r.dec.ch[c])
  /\ Alike(x.dec.ch[c].ec, Said(item))

(* A frame laid out for a context alike to the reader's is read.           *)
LEMMA ReadsFrame ==
  ASSUME NEW r \in Reads, r.ok, NEW items \in Seq(Items), r.pos \in 1..Len(items),
         NEW c \in {0, 1}, NEW coding, NEW flagged \in BOOLEAN, NEW ctx,
         items[r.pos].kind = "frame", items[r.pos].channel = c,
         items[r.pos].layout = Layout(coding, flagged, items[r.pos].type, ctx,
                                      <<r.dec.ch[c].sub, r.dec.ch[c].fs>>),
         coding = "conditional" => Alike(r.dec.ch[c].ec, ctx)
  PROVE  FrameRead(r, ReadFrame(r, items, c, flagged, coding), c, items[r.pos])
<1> DEFINE item == items[r.pos]
           ch == r.dec.ch[c]
           mine == Layout(coding, flagged, item.type, ch.ec, <<ch.sub, ch.fs>>)
           ec == EcAfter(ch.ec, item.type, item.name)
           ch1 == [ch EXCEPT !.ec = ec]
           w == With(r.dec, c, ch1)
           x == ReadFrame(r, items, c, flagged, coding)
<1>1. item \in Items /\ Len(items) \in Nat
  BY SMT
<1>2. item.type \in Kinds /\ item.name \in Nat
  <2> HIDE DEF item
  <2>1. item.kind = "frame"
    BY DEF item
  <2>2. QED
    BY <1>1, <2>1, FrameItemLemma, Zenon
<1>3. r.dec \in Decoders /\ r.pos \in Nat /\ r.ok \in BOOLEAN /\ r.heard \in SUBSET Heards
  BY SMT DEF Reads
<1>4. ch \in DecChannels
  BY <1>3, SMT DEF Decoders
<1>5. mine = item.layout
  <2> DEFINE shape == <<ch.sub, ch.fs>>
  <2>1. item.layout = Layout(coding, flagged, item.type, ctx, shape)
    OBVIOUS
  <2>2. coding = "conditional" => Alike(ch.ec, ctx)
    OBVIOUS
  <2>3. mine = Layout(coding, flagged, item.type, ch.ec, shape)
    OBVIOUS
  <2> HIDE DEF mine, shape, ch, item
  <2>4. QED
    <3>1. ASSUME NEW a, NEW b, NEW s, NEW type, coding = "conditional" => Alike(a, b)
          PROVE  Layout(coding, flagged, type, a, s) = Layout(coding, flagged, type, b, s)
      BY <3>1, LayoutAlike, ZenonT(60)
    <3>2. QED
      BY <2>1, <2>2, <2>3, <3>1, SMT
<1>6. Coming(r, items) = "frame"
  <2>1. r.pos <= Len(items)
    BY <1>1, SMT
  <2>2. QED
    BY <2>1, Zenon DEF Coming
<1>7. x = [r EXCEPT !.pos = @ + 1, !.ok = mine = item.layout /\ item.channel = c, !.dec = w]
  BY <1>6, Zenon DEF ReadFrame
<1> DEFINE agreed == mine = item.layout /\ item.channel = c
<1>8. agreed = TRUE
  BY <1>5, Zenon
<1>9. ec \in Contexts /\ Alike(ec, Said(item))
  <2> HIDE DEF item
  <2>1. ch.ec \in Contexts
    BY <1>4, Zenon DEF DecChannels
  <2>2. QED
    BY <1>2, <2>1, AfterLemma, Zenon
<1> HIDE DEF ec
<1>10. ch1 \in DecChannels /\ SameChannel(ch1, ch) /\ ch1.ec = ec
  <2> HIDE DEF ch
  <2>1. ch1 \in DecChannels
    BY <1>4, <1>9, Zenon DEF DecChannels
  <2>2. ch1.n = ch.n /\ ch1.frames = ch.frames /\ ch1.sub = ch.sub /\ ch1.fs = ch.fs
        /\ ch1.vad = ch.vad /\ ch1.lbrr = ch.lbrr /\ ch1.type = ch.type /\ ch1.mem = ch.mem
        /\ ch1.ec = ec
    BY <1>4, Zenon DEF DecChannels
  <2>3. QED
    BY <2>1, <2>2, Zenon DEF SameChannel
<1> HIDE DEF ch1
<1>11. /\ w \in Decoders /\ w.chans = r.dec.chans /\ w.midOnly = r.dec.midOnly /\ w.ch[c] = ch1
       /\ \A k \in {0, 1} : k # c => w.ch[k] = r.dec.ch[k]
  <2>1. /\ With(r.dec, c, ch1) \in Decoders
        /\ With(r.dec, c, ch1).chans = r.dec.chans /\ With(r.dec, c, ch1).midOnly = r.dec.midOnly
        /\ With(r.dec, c, ch1).ch[c] = ch1
        /\ \A k \in {0, 1} : k # c => With(r.dec, c, ch1).ch[k] = r.dec.ch[k]
    <3> HIDE DEF ch
    <3>1. QED
      BY <1>3, <1>10, DecoderWith, SMT
  <2>2. QED
    BY <2>1
<1> HIDE DEF w, agreed, ch, item
<1>12. x = [r EXCEPT !.pos = @ + 1, !.ok = agreed, !.dec = w]
  BY <1>7 DEF agreed, item
<1>13. r.pos + 1 \in Nat /\ agreed \in BOOLEAN
  BY <1>3, <1>8, SMT
<1> HIDE DEF x
<1>14. x \in Reads
  BY <1>3, <1>11, <1>12, <1>13, Zenon DEF Reads
<1>15. x.pos = r.pos + 1 /\ x.ok = agreed /\ x.dec = w /\ x.heard = r.heard
  BY <1>12, Zenon DEF Reads
<1>16. x.ok
  BY <1>8, <1>15
<1>17. FrameRead(r, x, c, item)
  BY <1>9, <1>10, <1>11, <1>14, <1>15, <1>16, Zenon DEF FrameRead, ch
<1>18. QED
  BY <1>17 DEF x, item

(* The decoder d, with the flags of the mono packet p and k of its copies  *)
(* read and passed over.                                                   *)
HeaderRead(x, d, p, k) ==
  LET set == CopySet(p)
      frames == FramesPerPacket(p.ms)
      ch == x.dec.ch[0]
  IN  /\ x \in Reads /\ x.ok /\ x.heard = {}
      /\ x.dec.chans = 1 /\ x.dec.midOnly = d.midOnly /\ x.dec.ch[1] = d.ch[1]
      /\ ch.n = 0 /\ ch.frames = frames /\ ch.sub = Subframes(p.ms) /\ ch.fs = p.fs
      /\ ch.mem = d.ch[0].mem /\ ch.vad = p.vad[0] /\ ch.lbrr = set
      /\ x.pos = HeadSize(set, frames) + 1 + Before(set, k)
      /\ Follows(ch.ec, p.items, x.pos - 1)

(* A mono packet that has been sent.                                       *)
MonoFacts(p) ==
  /\ p \in Packets /\ p.chans = 1 /\ p.ms \in Lengths /\ p.fs \in Rates /\ MonoPacket(p)

(* Numbers of a mono packet.                                               *)
LEMMA MonoNumbers ==
  ASSUME NEW p, MonoFacts(p)
  PROVE  LET L == CopySet(p)
             F == FramesPerPacket(p.ms)
         IN  /\ F \in {1, 2, 3} /\ L \in SUBSET (0..2) /\ L \subseteq 0..(F - 1)
             /\ p.items \in Seq(Items)
             /\ HeadSize(L, F) \in {0, 1} /\ Before(L, F) \in Nat
             /\ Len(p.items) = HeadSize(L, F) + Before(L, F) + F /\ Len(p.items) \in Nat
             /\ p.vad[0] \in SUBSET (0..2)
<1> DEFINE L == CopySet(p)
           F == FramesPerPacket(p.ms)
<1>1. F \in {1, 2, 3}
  BY Durations, Zenon DEF MonoFacts
<1>2. p \in Packets
  BY Zenon DEF MonoFacts
<1>3. p.items \in Seq(Items) /\ p.vad[0] \in SUBSET (0..2)
  BY <1>2, SMT DEF Packets
<1>4. /\ L \subseteq 0..(F - 1)
      /\ Len(p.items) = HeadSize(L, F) + Before(L, F) + F
  BY Zenon DEF MonoFacts, MonoPacket
<1> HIDE DEF L, F
<1>5. L \in SUBSET (0..2)
  BY <1>1, <1>4, SMT
<1>6. HeadSize(L, F) \in {0, 1} /\ Before(L, F) \in Nat
  BY <1>1, <1>5, SMT DEF HeadSize, Before
<1>7. Len(p.items) \in Nat
  BY <1>3, SMT
<1>8. QED
  BY <1>1, <1>3, <1>4, <1>5, <1>6, <1>7 DEF L, F

(* The flags that head a mono packet are read.                             *)
LEMMA ReadFlagsMono ==
  ASSUME NEW p, MonoFacts(p), NEW d \in Decoders, d.chans = 1, d.ch[0].n = 0,
         d.ch[0].frames = FramesPerPacket(p.ms), d.ch[0].sub = Subframes(p.ms), d.ch[0].fs = p.fs
  PROVE  HeaderRead(ReadLbrrFlags([dec |-> d, pos |-> 1, ok |-> TRUE, heard |-> {}], p, 0), d, p, 0)
<1> DEFINE L == CopySet(p)
           F == FramesPerPacket(p.ms)
           r == [dec |-> d, pos |-> 1, ok |-> TRUE, heard |-> {}]
           only == d.ch[0].frames = 1
           flags == IF ~p.lbrr[0] THEN {} ELSE IF only THEN {0} ELSE p.items[1].set
           at == IF p.lbrr[0] /\ ~only THEN 1 + 1 ELSE 1
           ch1 == [d.ch[0] EXCEPT !.lbrr = L, !.vad = p.vad[0]]
           w == With(d, 0, ch1)
           x == ReadLbrrFlags(r, p, 0)
<1>1. /\ F \in {1, 2, 3} /\ L \in SUBSET (0..2) /\ L \subseteq 0..(F - 1)
      /\ p.items \in Seq(Items)
      /\ HeadSize(L, F) \in {0, 1} /\ Before(L, F) \in Nat
      /\ Len(p.items) = HeadSize(L, F) + Before(L, F) + F /\ Len(p.items) \in Nat
      /\ p.vad[0] \in SUBSET (0..2)
  BY MonoNumbers, Zenon
<1>21. p.lbrr[0] = (L # {}) /\ (HeadSize(L, F) = 1 => p.items[1].kind = "lbrr flags")
  BY Zenon DEF MonoFacts, MonoPacket
<1>22. 1 <= Len(p.items)
  <2> HIDE DEF L, F
  <2>1. HeadSize(L, F) \in {0, 1} /\ Before(L, F) \in Nat /\ F \in {1, 2, 3}
        /\ Len(p.items) = HeadSize(L, F) + Before(L, F) + F
    BY <1>1
  <2>2. QED
    BY ONLY <2>1, SMT
<1>2. flags = L
  BY Zenon DEF CopySet
<1>3. at = HeadSize(L, F) + 1
  <2> HIDE DEF L, F
  <2>1. only <=> F = 1
    BY DEF F
  <2>2. HeadSize(L, F) = IF L # {} /\ ~only THEN 1 ELSE 0
    <3>1. F # 1 <=> F > 1
      BY <1>1, SMT
    <3>2. QED
      BY <2>1, <3>1, Zenon DEF HeadSize
  <2>3. 1 + 1 = 1 + 1 /\ 0 + 1 = 1
    BY SMT
  <2>4. QED
    BY <1>21, <2>2, <2>3, Zenon
<1>4. (p.lbrr[0] /\ ~only) => Coming(r, p.items) = "lbrr flags"
  <2> SUFFICES ASSUME p.lbrr[0], ~only
               PROVE  Coming(r, p.items) = "lbrr flags"
    OBVIOUS
  <2>1. L # {} /\ F > 1
    <3> HIDE DEF L
    <3>1. F # 1 /\ L # {}
      BY <1>21
    <3> HIDE DEF F
    <3>2. QED
      BY <1>1, <3>1, SMT
  <2>2. HeadSize(L, F) = 1
    BY <2>1, Zenon DEF HeadSize
  <2>3. r.pos = 1 /\ 1 <= Len(p.items)
    BY <1>22, Zenon
  <2>4. QED
    BY <1>21, <2>2, <2>3, Zenon DEF Coming
<1>5. x = [r EXCEPT !.pos = at, !.dec = w]
  <2>1. r.dec = d /\ r.pos = 1
    BY Zenon
  <2> DEFINE set == IF ~p.lbrr[0] THEN {} ELSE IF r.dec.ch[0].frames = 1 THEN {0} ELSE p.items[r.pos].set
  <2>2. set = L
    BY <1>2, <2>1, Zenon
  <2>3. ~(p.lbrr[0] /\ ~(r.dec.ch[0].frames = 1) /\ Coming(r, p.items) # "lbrr flags")
    BY <1>4, <2>1, Zenon
  <2>4. x = [r EXCEPT !.pos = IF p.lbrr[0] /\ ~(r.dec.ch[0].frames = 1) THEN r.pos + 1 ELSE r.pos,
                      !.dec = With(r.dec, 0, [r.dec.ch[0] EXCEPT !.lbrr = set, !.vad = p.vad[0]])]
    BY <2>3, Zenon DEF ReadLbrrFlags
  <2> HIDE DEF set, x, L
  <2>5. QED
    BY <2>1, <2>2, <2>4, Zenon
<1> DEFINE ch == d.ch[0]
<1>6. ch \in DecChannels
  BY SMT DEF Decoders
<1> HIDE DEF L, F, x, at, flags
<1>7. ch1 \in DecChannels /\ ch1.n = ch.n /\ ch1.frames = ch.frames /\ ch1.sub = ch.sub /\ ch1.fs = ch.fs
      /\ ch1.mem = ch.mem /\ ch1.vad = p.vad[0] /\ ch1.lbrr = L
  <2> HIDE DEF ch
  <2>1. ch1 \in DecChannels
    BY <1>1, <1>6, Zenon DEF DecChannels, ch
  <2>2. ch1.n = ch.n /\ ch1.frames = ch.frames /\ ch1.sub = ch.sub /\ ch1.fs = ch.fs
      /\ ch1.mem = ch.mem /\ ch1.vad = p.vad[0] /\ ch1.lbrr = L
    BY <1>6, Zenon DEF DecChannels, ch
  <2>3. QED
    BY <2>1, <2>2
<1> HIDE DEF ch1, ch
<1>8. /\ w \in Decoders /\ w.chans = d.chans /\ w.midOnly = d.midOnly /\ w.ch[0] = ch1
      /\ w.ch[1] = d.ch[1]
  <2>1. 0 \in {0, 1} /\ 1 \in {0, 1} /\ 1 # 0
    BY SMT
  <2>2. QED
    BY <1>7, <2>1, DecoderWith, Zenon
<1> HIDE DEF w
<1>9. at \in Nat /\ 1 \in Nat /\ TRUE \in BOOLEAN /\ {} \in SUBSET Heards
  BY <1>1, <1>3, SMT
<1>10. r \in Reads
  BY <1>9, Zenon DEF Reads
<1>11. x \in Reads
  BY <1>5, <1>8, <1>9, <1>10, Zenon DEF Reads
<1>12. x.pos = at /\ x.dec = w /\ x.heard = {} /\ x.ok
  <2>1. r.heard = {} /\ r.ok = TRUE
    BY Zenon
  <2> HIDE DEF r
  <2>2. x.pos = at /\ x.dec = w /\ x.heard = r.heard /\ x.ok = r.ok
    BY <1>5, <1>10, Zenon DEF Reads
  <2>3. QED
    BY <2>1, <2>2
<1>13. x.pos = HeadSize(L, F) + 1 + Before(L, 0) /\ x.pos - 1 = HeadSize(L, F)
  BY <1>1, <1>3, <1>12, SMT DEF Before
<1>14. Follows(ch1.ec, p.items, x.pos - 1)
  <2>1. HeadSize(L, F) = 0 => ~(x.pos - 1 > 0)
    BY <1>13, SMT
  <2>2. HeadSize(L, F) = 1 => p.items[x.pos - 1].kind # "frame"
    <3>1. "lbrr flags" # "frame"
      BY SMT
    <3>2. QED
      BY <1>21, <1>13, <3>1, Zenon
  <2>3. QED
    BY <1>1, <1>21, <2>1, <2>2, Zenon DEF Follows
<1>15. HeaderRead(x, d, p, 0)
  BY <1>7, <1>8, <1>11, <1>12, <1>13, <1>14, Zenon DEF HeaderRead, L, F, ch
<1>16. QED
  BY <1>15 DEF x

(* Two places in a mono packet.                                            *)
LEMMA CopyPlace ==
  ASSUME NEW p, MonoFacts(p), NEW k \in 0..2, k \in CopySet(p)
  PROVE  LET L == CopySet(p)
             F == FramesPerPacket(p.ms)
             at == HeadSize(L, F) + Before(L, k) + 1
         IN  /\ k < F /\ at \in 1..Len(p.items)
             /\ FrameStands(p.items, at, LbrrCoding(L, k), TRUE, <<Subframes(p.ms), p.fs>>)
             /\ p.items[at].name = NameOf(p.number - 1, k, 0)
             /\ LbrrCoding(L, k) = "conditional" => p.items[at - 1].kind = "frame" /\ at > 1
             /\ Before(L, k + 1) = Before(L, k) + 1
<1> DEFINE L == CopySet(p)
           F == FramesPerPacket(p.ms)
           at == HeadSize(L, F) + Before(L, k) + 1
<1>1. /\ F \in {1, 2, 3} /\ L \in SUBSET (0..2) /\ L \subseteq 0..(F - 1)
      /\ p.items \in Seq(Items)
      /\ HeadSize(L, F) \in {0, 1} /\ Before(L, F) \in Nat
      /\ Len(p.items) = HeadSize(L, F) + Before(L, F) + F /\ Len(p.items) \in Nat
      /\ p.vad[0] \in SUBSET (0..2)
  BY MonoNumbers, Zenon
<1>2. CopiesStand(p.items, L, F, F, p.number - 1, <<Subframes(p.ms), p.fs>>)
  BY Zenon DEF MonoFacts, MonoPacket
<1> HIDE DEF L, F
<1>3. k \in L
  BY DEF L
<1>4. k < F
  BY <1>1, <1>3, SMT
<1>5. Before(L, k) \in 0..k /\ Before(L, k + 1) = Before(L, k) + 1 /\ Before(L, k) + 1 <= Before(L, F)
  BY <1>1, <1>3, <1>4, SMT DEF Before
<1>6. at \in 1..Len(p.items)
  BY <1>1, <1>5, SMTT(30)
<1>7. /\ FrameStands(p.items, at, LbrrCoding(L, k), TRUE, <<Subframes(p.ms), p.fs>>)
      /\ p.items[at].name = NameOf(p.number - 1, k, 0)
  BY <1>2, <1>3, <1>4, Zenon DEF CopiesStand
<1>8. LbrrCoding(L, k) = "conditional" => p.items[at - 1].kind = "frame" /\ at > 1
  <2> SUFFICES ASSUME LbrrCoding(L, k) = "conditional"
               PROVE  p.items[at - 1].kind = "frame" /\ at > 1
    OBVIOUS
  <2>1. k > 0 /\ k - 1 \in L
    BY Zenon DEF LbrrCoding
  <2>2. k - 1 \in 0..2 /\ k - 1 < F
    BY <1>1, <2>1, <1>4, SMT
  <2>3. p.items[HeadSize(L, F) + Before(L, k - 1) + 1].kind = "frame"
    BY <1>2, <2>1, <2>2, Zenon DEF CopiesStand, FrameStands
  <2>4. Before(L, k) = Before(L, k - 1) + 1 /\ Before(L, k - 1) \in Nat
    BY <1>1, <2>1, SMT DEF Before
  <2>5. HeadSize(L, F) + Before(L, k - 1) + 1 = at - 1 /\ at > 1
    BY <1>1, <2>4, SMT
  <2>6. QED
    BY <2>3, <2>5
<1>9. QED
  BY <1>4, <1>5, <1>6, <1>7, <1>8 DEF L, F

(* And of a frame.                                                         *)
LEMMA FramePlace ==
  ASSUME NEW p, MonoFacts(p), NEW k \in 0..2, k < FramesPerPacket(p.ms)
  PROVE  LET L == CopySet(p)
             F == FramesPerPacket(p.ms)
             at == HeadSize(L, F) + Before(L, F) + k + 1
         IN  /\ at \in 1..Len(p.items)
             /\ FrameStands(p.items, at, EncCoding(k, 0, FALSE), k \in p.vad[0],
                            <<Subframes(p.ms), p.fs>>)
             /\ EncCoding(k, 0, FALSE) = "conditional" => p.items[at - 1].kind = "frame" /\ at > 1
<1> DEFINE L == CopySet(p)
           F == FramesPerPacket(p.ms)
           at == HeadSize(L, F) + Before(L, F) + k + 1
<1>1. /\ F \in {1, 2, 3} /\ L \in SUBSET (0..2) /\ L \subseteq 0..(F - 1)
      /\ p.items \in Seq(Items)
      /\ HeadSize(L, F) \in {0, 1} /\ Before(L, F) \in Nat
      /\ Len(p.items) = HeadSize(L, F) + Before(L, F) + F /\ Len(p.items) \in Nat
      /\ p.vad[0] \in SUBSET (0..2)
  BY MonoNumbers, Zenon
<1>2. FramesStand(p.items, L, F, F, p.vad[0], <<Subframes(p.ms), p.fs>>)
  BY Zenon DEF MonoFacts, MonoPacket
<1> HIDE DEF L, F
<1>3. k < F
  BY DEF F
<1>4. at \in 1..Len(p.items)
  <2>1. HeadSize(L, F) \in {0, 1} /\ Before(L, F) \in Nat /\ F \in {1, 2, 3}
        /\ Len(p.items) = HeadSize(L, F) + Before(L, F) + F
    BY <1>1
  <2>2. k \in 0..2
    OBVIOUS
  <2>3. QED
    BY ONLY <2>1, <2>2, <1>3, SMT
<1>5. FrameStands(p.items, at, EncCoding(k, 0, FALSE), k \in p.vad[0], <<Subframes(p.ms), p.fs>>)
  BY <1>2, <1>3, Zenon DEF FramesStand
<1>6. EncCoding(k, 0, FALSE) = "conditional" => p.items[at - 1].kind = "frame" /\ at > 1
  <2> SUFFICES ASSUME EncCoding(k, 0, FALSE) = "conditional"
               PROVE  p.items[at - 1].kind = "frame" /\ at > 1
    OBVIOUS
  <2>1. k > 0
    BY CodingLemma, Zenon
  <2>2. k - 1 \in 0..2 /\ k - 1 < F
    BY <1>3, <1>1, <2>1, SMT
  <2>3. p.items[HeadSize(L, F) + Before(L, F) + (k - 1) + 1].kind = "frame"
    BY <1>2, <2>2, Zenon DEF FramesStand, FrameStands
  <2>4. HeadSize(L, F) + Before(L, F) + (k - 1) + 1 = at - 1 /\ at > 1
    BY <1>1, <2>1, SMT
  <2>5. QED
    BY <2>3, <2>4
<1>7. QED
  BY <1>4, <1>5, <1>6 DEF L, F

(* One more copy is skipped, if the frame has one.                         *)
LEMMA SkipCopyStep ==
  ASSUME NEW p, MonoFacts(p), NEW d \in Decoders, NEW k \in 0..2, NEW x, HeaderRead(x, d, p, k)
  PROVE  HeaderRead(SkipCopy(x, p, k, 0), d, p, k + 1)
<1> DEFINE L == CopySet(p)
           F == FramesPerPacket(p.ms)
           ch == x.dec.ch[0]
           at == HeadSize(L, F) + Before(L, k) + 1
           shape == <<Subframes(p.ms), p.fs>>
           y == ReadFrame(x, p.items, 0, TRUE, LbrrCoding(L, k))
           z == SkipCopy(x, p, k, 0)
<1>1. /\ x \in Reads /\ x.ok /\ x.heard = {}
      /\ x.dec.chans = 1 /\ x.dec.midOnly = d.midOnly /\ x.dec.ch[1] = d.ch[1]
      /\ ch.n = 0 /\ ch.frames = F /\ ch.sub = Subframes(p.ms) /\ ch.fs = p.fs
      /\ ch.mem = d.ch[0].mem /\ ch.vad = p.vad[0] /\ ch.lbrr = L
      /\ x.pos = HeadSize(L, F) + 1 + Before(L, k)
      /\ Follows(ch.ec, p.items, x.pos - 1)
  BY Zenon DEF HeaderRead
<1>2. p.chans = 1
  BY DEF MonoFacts
<1>3. /\ F \in {1, 2, 3} /\ L \in SUBSET (0..2) /\ L \subseteq 0..(F - 1)
      /\ p.items \in Seq(Items)
      /\ HeadSize(L, F) \in {0, 1} /\ Before(L, F) \in Nat
      /\ Len(p.items) = HeadSize(L, F) + Before(L, F) + F /\ Len(p.items) \in Nat
      /\ p.vad[0] \in SUBSET (0..2)
  BY MonoNumbers, Zenon
<1>4. z = IF k \notin L THEN x ELSE y
  <2>1. p.chans # 2
    BY <1>2, SMT
  <2> HIDE DEF L, y, ch
  <2>2. x.dec.ch[0].lbrr = L
    BY <1>1 DEF ch
  <2>3. z = IF ~x.ok \/ k \notin L THEN x ELSE y
    BY <2>1, <2>2, Zenon DEF SkipCopy, y
  <2>4. QED
    BY <1>1, <2>3, Zenon
<1>5. CASE k \notin L
  <2>1. Before(L, k + 1) = Before(L, k)
    <3> HIDE DEF L, F
    <3>1. QED
      BY <1>3, <1>5, SMT DEF Before
  <2>2. z = x
    BY <1>4, <1>5, Zenon
  <2> HIDE DEF z, L, F, ch
  <2>3. HeaderRead(z, d, p, k + 1)
    BY <1>1, <2>1, <2>2, Zenon DEF HeaderRead, L, F, ch
  <2>4. QED
    BY <2>3 DEF z
<1>6. CASE k \in L
  <2>1. /\ k < F /\ at \in 1..Len(p.items)
        /\ FrameStands(p.items, at, LbrrCoding(L, k), TRUE, shape)
        /\ LbrrCoding(L, k) = "conditional" => p.items[at - 1].kind = "frame" /\ at > 1
        /\ Before(L, k + 1) = Before(L, k) + 1
    BY <1>6, CopyPlace, Zenon
  <2>2. x.pos = at /\ at + 1 = HeadSize(L, F) + 1 + Before(L, k + 1) /\ at \in Nat
    <3> HIDE DEF L, F
    <3>1. Before(L, k) \in 0..k
      BY <1>3, BeforeLemma, Zenon
    <3>2. x.pos = HeadSize(L, F) + 1 + Before(L, k) /\ HeadSize(L, F) \in {0, 1} /\ k \in 0..2
      BY <1>1, <1>3
    <3>3. Before(L, k + 1) = Before(L, k) + 1
      BY <2>1
    <3>4. QED
      BY ONLY <3>1, <3>2, <3>3, SMT
  <2> HIDE DEF L, F, ch, at, shape
  <2>3. FrameRead(x, y, 0, p.items[at])
    <3> DEFINE ctx == SaidBefore(p.items, at)
    <3>1. /\ p.items[at].kind = "frame" /\ p.items[at].channel = 0
          /\ p.items[at].layout = Layout(LbrrCoding(L, k), TRUE, p.items[at].type, ctx, shape)
      BY <2>1, Zenon DEF FrameStands
    <3>2. LbrrCoding(L, k) = "conditional" => Alike(ch.ec, ctx)
      <4>1. LbrrCoding(L, k) = "conditional" => Follows(ch.ec, p.items, at - 1)
            /\ p.items[at - 1].kind = "frame" /\ at > 1 /\ at - 1 > 0
        <5>1. at > 1 => at - 1 > 0
          BY <2>2, SMT
        <5>2. QED
          BY <1>1, <2>1, <2>2, <5>1, Zenon
      <4>2. QED
        BY <4>1, Zenon DEF Follows, SaidBefore
    <3>3. shape = <<x.dec.ch[0].sub, x.dec.ch[0].fs>>
      BY <1>1 DEF shape, ch
    <3>4. 0 \in {0, 1} /\ TRUE \in BOOLEAN
      BY SMT
    <3> HIDE DEF ctx
    <3>5. /\ p.items[x.pos].kind = "frame" /\ p.items[x.pos].channel = 0
          /\ x.pos \in 1..Len(p.items)
          /\ p.items[x.pos].layout = Layout(LbrrCoding(L, k), TRUE, p.items[x.pos].type, ctx,
                                            <<x.dec.ch[0].sub, x.dec.ch[0].fs>>)
      BY <2>1, <2>2, <3>1, <3>3
    <3>6. LbrrCoding(L, k) = "conditional" => Alike(x.dec.ch[0].ec, ctx)
      BY <3>2 DEF ch
    <3>7. FrameRead(x, ReadFrame(x, p.items, 0, TRUE, LbrrCoding(L, k)), 0, p.items[x.pos])
      <4>1. x \in Reads /\ x.ok /\ p.items \in Seq(Items)
        BY <1>1, <1>3
      <4> DEFINE coding == LbrrCoding(L, k)
      <4> HIDE DEF coding
      <4>2. FrameRead(x, ReadFrame(x, p.items, 0, TRUE, coding), 0, p.items[x.pos])
        BY <4>1, <3>4, <3>5, <3>6, ReadsFrame, Zenon DEF coding
      <4>3. QED
        BY <4>2 DEF coding
    <3>8. QED
      BY <2>2, <3>7
  <2> HIDE DEF y
  <2>4. z = y
    BY <1>4, <1>6, Zenon
  <2> HIDE DEF z
  <2>5. /\ y \in Reads /\ y.ok /\ y.pos = at + 1 /\ y.heard = {}
        /\ y.dec.chans = x.dec.chans /\ y.dec.midOnly = x.dec.midOnly
        /\ y.dec.ch[1] = x.dec.ch[1]
        /\ SameChannel(y.dec.ch[0], ch)
        /\ Alike(y.dec.ch[0].ec, Said(p.items[at]))
    <3>1. 1 \in {0, 1} /\ 1 # 0
      BY SMT
    <3>2. QED
      BY <1>1, <2>2, <2>3, <3>1, Zenon DEF FrameRead, ch
  <2>6. Follows(y.dec.ch[0].ec, p.items, y.pos - 1)
    <3>1. y.pos - 1 = at
      BY <2>2, <2>5, SMT
    <3>2. QED
      BY <2>5, <3>1, Zenon DEF Follows
  <2>7. HeaderRead(z, d, p, k + 1)
    BY <1>1, <2>2, <2>4, <2>5, <2>6, Zenon DEF HeaderRead, SameChannel, L, F, ch
  <2>8. QED
    BY <2>7 DEF z
<1>7. QED
  BY <1>5, <1>6

(* What a call for frame k of the mono packet p hears, from memory mem.    *)
HeardMono(x, p, fl, k, mem) ==
  LET set == CopySet(p)
      frames == FramesPerPacket(p.ms)
      item == p.items[HeadSize(set, frames) + Before(set, frames) + k + 1]
  IN  \A h \in x.heard :
        /\ h.flag = fl /\ h.channel = 0 /\ h.frame = k
        /\ fl = "lbrr" => h.name = NameOf(p.number - 1, k, 0) /\ h.fits
        /\ fl = "normal" => h.before = mem /\ h.meant = item.mem

(* The channel remembers the frame it has heard.                           *)
MemoryMono(x, p, fl, k) ==
  LET set == CopySet(p)
      frames == FramesPerPacket(p.ms)
      item == p.items[HeadSize(set, frames) + Before(set, frames) + k + 1]
  IN  fl = "normal" => x.dec.ch[0].mem = item.name

(* A call for a channel, by what it does with its frame.                   *)
LEMMA DecodeChannelIs ==
  ASSUME NEW r, NEW p, NEW fl, NEW c, r.ok
  PROVE  DecodeChannel(r, p, fl, c) =
         LET ch == r.dec.ch[c]
             coded == fl = "normal" \/ (fl = "lbrr" /\ ch.n \in ch.lbrr)
             rd == ReadFrame(r, p.items, c, fl = "lbrr" \/ ch.n \in ch.vad,
                             DecCoding(r.dec, fl, r.dec.ch[0].n - c, c))
         IN  IF ~coded THEN ConcealChannel(r, c)
             ELSE IF ~rd.ok THEN rd
             ELSE HearChannel(r, rd, fl, c, p.items[r.pos])
  BY Zenon DEF DecodeChannel

(* A call for the mid channel of a mono packet reads the next frame or     *)
(* copy.                                                                   *)
LEMMA DecodeChannelMono ==
  ASSUME NEW p, MonoFacts(p), NEW fl \in {"normal", "lbrr"}, NEW k \in 0..2,
         k < FramesPerPacket(p.ms), NEW r \in Reads, r.ok, r.heard = {},
         Reading(r.dec, p, fl, k, r.pos)
  PROVE  LET x == DecodeChannel(r, p, fl, 0)
         IN  /\ x \in Reads /\ x.ok /\ x.dec.midOnly = r.dec.midOnly
             /\ Reading(x.dec, p, fl, k + 1, x.pos)
             /\ HeardMono(x, p, fl, k, r.dec.ch[0].mem) /\ MemoryMono(x, p, fl, k)
<1> DEFINE L == CopySet(p)
           F == FramesPerPacket(p.ms)
           ch == r.dec.ch[0]
           shape == <<Subframes(p.ms), p.fs>>
           at == HeadSize(L, F) + 1 + IF fl = "lbrr" THEN Before(L, k) ELSE Before(L, F) + k
           coding == IF fl = "lbrr" THEN LbrrCoding(L, k) ELSE EncCoding(k, 0, FALSE)
           flagged == fl = "lbrr" \/ k \in p.vad[0]
           coded == fl = "normal" \/ (fl = "lbrr" /\ k \in L)
           read == ReadFrame(r, p.items, 0, flagged, coding)
           item == p.items[at]
           lost == [ch EXCEPT !.n = @ + 1, !.mem = Concealed, !.lost = TRUE]
           done == [read.dec.ch[0] EXCEPT !.n = @ + 1, !.mem = item.name, !.type = item.type,
                                          !.lost = FALSE]
           sound == [flag |-> fl, channel |-> 0, frame |-> k, name |-> item.name,
                     before |-> ch.mem, meant |-> item.mem, fits |-> item.made = <<ch.sub, ch.fs>>]
           x == DecodeChannel(r, p, fl, 0)
<1>1. /\ r.dec.chans = 1 /\ ch.n = k /\ ch.frames = F /\ ch.sub = Subframes(p.ms) /\ ch.fs = p.fs
      /\ ch.vad = p.vad[0] /\ ch.lbrr = L
      /\ r.pos = at
      /\ Follows(ch.ec, p.items, r.pos - 1)
  BY Zenon DEF Reading
<1>2. /\ F \in {1, 2, 3} /\ L \in SUBSET (0..2) /\ L \subseteq 0..(F - 1)
      /\ p.items \in Seq(Items)
      /\ HeadSize(L, F) \in {0, 1} /\ Before(L, F) \in Nat
      /\ Len(p.items) = HeadSize(L, F) + Before(L, F) + F /\ Len(p.items) \in Nat
      /\ p.vad[0] \in SUBSET (0..2)
  BY MonoNumbers, Zenon
<1>3. r.dec \in Decoders /\ ch \in DecChannels /\ k + 1 \in 0..3
  <2>1. r.dec \in Decoders
    BY Zenon DEF Reads
  <2>2. QED
    BY <2>1, SMT DEF Decoders
<1>4. x = IF ~coded THEN [r EXCEPT !.dec = With(@, 0, lost)]
          ELSE IF ~read.ok THEN read
          ELSE [read EXCEPT !.dec = With(@, 0, done), !.heard = @ \cup {sound}]
  <2>1. ch.n - 0 = k /\ 0 # Side
    BY <1>1, SMT DEF Side
  <2>2. DecCoding(r.dec, fl, k, 0) = coding
    <3>1. (k <= 0) => ~(k > 0) /\ k - 0 <= 0
      BY SMT
    <3>2. ~(k <= 0) => ~(k - 0 <= 0)
      BY SMT
    <3>3. r.dec.ch[0].lbrr = L
      BY <1>1
    <3> HIDE DEF L
    <3>4. QED
      BY <2>1, <3>1, <3>2, <3>3, Zenon DEF DecCoding, LbrrCoding, EncCoding
  <2> HIDE DEF L, F, coding, at
  <2> DEFINE rd == ReadFrame(r, p.items, 0, fl = "lbrr" \/ ch.n \in ch.vad,
                             DecCoding(r.dec, fl, ch.n - 0, 0))
             in == fl = "normal" \/ (fl = "lbrr" /\ ch.n \in ch.lbrr)
  <2>3. x = IF ~in THEN ConcealChannel(r, 0)
            ELSE IF ~rd.ok THEN rd ELSE HearChannel(r, rd, fl, 0, p.items[r.pos])
    BY DecodeChannelIs, Zenon
  <2> HIDE DEF x
  <2>4. ch.n = k /\ ch.lbrr = L /\ ch.vad = p.vad[0] /\ r.pos = at /\ ch.n - 0 = k
    BY <1>1, <2>1
  <2>5. rd = read /\ (in <=> coded) /\ p.items[r.pos] = item
    <3> HIDE DEF ch
    <3>1. QED
      BY <2>2, <2>4, Zenon
  <2>6. ConcealChannel(r, 0) = [r EXCEPT !.dec = With(@, 0, lost)]
    BY Zenon DEF ConcealChannel
  <2>7. HearChannel(r, read, fl, 0, item)
          = [read EXCEPT !.dec = With(@, 0, done), !.heard = @ \cup {sound}]
    <3>1. HearChannel(r, read, fl, 0, item)
          = [read EXCEPT !.dec = With(@, 0, done),
               !.heard = @ \cup {[flag |-> fl, channel |-> 0, frame |-> ch.n, name |-> item.name,
                                  before |-> ch.mem, meant |-> item.mem,
                                  fits |-> item.made = <<ch.sub, ch.fs>>]}]
      <4> HIDE DEF read, item
      <4>1. QED
        BY Zenon DEF HearChannel
    <3> HIDE DEF read, ch, item, done
    <3>2. QED
      BY <2>4, <3>1, Zenon
  <2> HIDE DEF ch, rd, in, coded, read, item, lost, done, sound
  <2>8. QED
    BY <2>3, <2>5, <2>6, <2>7, Zenon
<1> HIDE DEF L, F, ch, shape, at, coding, flagged, coded, read, item, lost, done, sound, x
<1>5. CASE ~coded
  <2>1. fl = "lbrr" /\ k \notin L
    BY <1>5, Zenon DEF coded
  <2> DEFINE w == With(r.dec, 0, lost)
  <2>2. lost \in DecChannels /\ lost.n = ch.n + 1 /\ lost.frames = ch.frames /\ lost.sub = ch.sub
        /\ lost.fs = ch.fs /\ lost.vad = ch.vad /\ lost.lbrr = ch.lbrr /\ lost.ec = ch.ec
    <3>1. ch.n + 1 \in 0..3 /\ Concealed \in Nat /\ TRUE \in BOOLEAN
      BY <1>1, <1>3, SMT DEF Concealed
    <3>2. lost \in DecChannels
      BY <1>3, <3>1, Zenon DEF DecChannels, lost
    <3>3. QED
      BY <1>3, <3>2, Zenon DEF DecChannels, lost
  <2>3. w \in Decoders /\ w.chans = r.dec.chans /\ w.midOnly = r.dec.midOnly /\ w.ch[0] = lost
    <3>1. 0 \in {0, 1}
      BY SMT
    <3>2. QED
      BY <1>3, <2>2, <3>1, DecoderWith, ZenonT(60)
  <2> HIDE DEF w
  <2>4. x = [r EXCEPT !.dec = w]
    BY <1>4, <1>5, Zenon DEF w
  <2>5. x \in Reads
    BY <2>3, <2>4, Zenon DEF Reads
  <2>6. x.dec = w /\ x.ok = r.ok /\ x.pos = r.pos /\ x.heard = r.heard
    BY <2>4, Zenon DEF Reads
  <2>7. x.pos = HeadSize(L, F) + 1 + Before(L, k + 1)
    <3>1. Before(L, k + 1) = Before(L, k)
      BY <1>2, <2>1, SMT DEF Before
    <3>2. QED
      BY <1>1, <2>1, <2>6, <3>1, Zenon DEF at
  <2>8. Reading(x.dec, p, fl, k + 1, x.pos)
    <3>1. x.pos = HeadSize(L, F) + 1 + IF fl = "lbrr" THEN Before(L, k + 1) ELSE Before(L, F) + (k + 1)
      BY <2>1, <2>7, Zenon
    <3>2. QED
      BY <1>1, <2>2, <2>3, <2>6, <3>1, Zenon DEF Reading, L, F
  <2>9. HeardMono(x, p, fl, k, r.dec.ch[0].mem) /\ MemoryMono(x, p, fl, k)
    <3>1. fl # "normal"
      BY <2>1, SMT
    <3>2. QED
      BY <2>6, <3>1, Zenon DEF HeardMono, MemoryMono
  <2>10. QED
    BY <2>3, <2>5, <2>6, <2>8, <2>9 DEF x
<1>6. CASE coded
  <2>1. /\ at \in 1..Len(p.items)
        /\ FrameStands(p.items, at, coding, flagged, shape)
        /\ coding = "conditional" => p.items[at - 1].kind = "frame" /\ at > 1
        /\ fl = "lbrr" => p.items[at].name = NameOf(p.number - 1, k, 0)
        /\ at + 1 = HeadSize(L, F) + 1 + IF fl = "lbrr" THEN Before(L, k + 1) ELSE Before(L, F) + (k + 1)
    <3>1. CASE fl = "lbrr"
      <4>1. k \in CopySet(p) /\ fl # "normal"
        BY <1>6, <3>1, SMT DEF coded, L
      <4> DEFINE at1 == HeadSize(L, F) + Before(L, k) + 1
      <4>2. /\ k < F /\ at1 \in 1..Len(p.items)
            /\ FrameStands(p.items, at1, LbrrCoding(L, k), TRUE, shape)
            /\ p.items[at1].name = NameOf(p.number - 1, k, 0)
            /\ LbrrCoding(L, k) = "conditional" => p.items[at1 - 1].kind = "frame" /\ at1 > 1
            /\ Before(L, k + 1) = Before(L, k) + 1
        BY <4>1, CopyPlace, Zenon DEF L, F, shape
      <4>3. at = HeadSize(L, F) + 1 + Before(L, k)
        BY <3>1, Zenon DEF at
      <4>4. at = at1 /\ at + 1 = HeadSize(L, F) + 1 + Before(L, k + 1)
        <5>1. Before(L, k) \in Nat
          BY <1>2, SMT DEF Before
        <5>2. HeadSize(L, F) \in {0, 1} /\ Before(L, k + 1) = Before(L, k) + 1
          BY <1>2, <4>2
        <5>3. QED
          BY ONLY <4>3, <5>1, <5>2, SMT DEF at1
      <4> HIDE DEF at1
      <4>5. coding = LbrrCoding(L, k) /\ flagged = TRUE
        BY <3>1, Zenon DEF coding, flagged
      <4>6. QED
        BY <3>1, <4>2, <4>4, <4>5, Zenon
    <3>2. CASE fl # "lbrr"
      <4> DEFINE at1 == HeadSize(L, F) + Before(L, F) + k + 1
                 speech == k \in p.vad[0]
      <4> HIDE DEF coding, flagged
      <4>1. /\ at1 \in 1..Len(p.items)
            /\ FrameStands(p.items, at1, EncCoding(k, 0, FALSE), speech, shape)
            /\ EncCoding(k, 0, FALSE) = "conditional" => p.items[at1 - 1].kind = "frame" /\ at1 > 1
        BY FramePlace, Zenon DEF L, F, shape
      <4>2. at = HeadSize(L, F) + 1 + (Before(L, F) + k)
        BY <3>2, Zenon DEF at
      <4>3. at = at1 /\ at + 1 = HeadSize(L, F) + 1 + (Before(L, F) + (k + 1))
        <5>1. HeadSize(L, F) \in {0, 1} /\ Before(L, F) \in Nat /\ k \in 0..2
          BY <1>2
        <5>2. QED
          BY ONLY <4>2, <5>1, SMT DEF at1
      <4>4. coding = EncCoding(k, 0, FALSE) /\ flagged = speech
        <5>1. coding = EncCoding(k, 0, FALSE)
          BY <3>2, Zenon DEF coding
        <5>2. flagged <=> speech
          BY <3>2, Zenon DEF flagged
        <5>5. flagged \in BOOLEAN
          BY Zenon DEF flagged
        <5>6. speech \in BOOLEAN
          BY SMT
        <5>3. flagged \in BOOLEAN /\ speech \in BOOLEAN
          BY <5>5, <5>6
        <5> HIDE DEF speech
        <5>4. QED
          BY <5>1, <5>2, <5>3, Zenon
      <4> HIDE DEF at1, speech
      <4>5. QED
        BY <3>2, <4>1, <4>3, <4>4, Zenon
    <3>3. QED
      BY <3>1, <3>2
  <2>2. item \in Items /\ item.kind = "frame" /\ item.channel = 0 /\ item.made = shape
    <3>1. item \in Items
      BY <1>2, <2>1, SMT DEF item
    <3>2. QED
      BY <2>1, <3>1, Zenon DEF FrameStands, item
  <2>3. item.type \in Kinds /\ item.name \in Nat /\ item.mem \in Nat
    BY <2>2, FrameItemLemma, Zenon
  <2>4. FrameRead(r, read, 0, item)
    <3> DEFINE ctx == SaidBefore(p.items, at)
    <3>1. item.layout = Layout(coding, flagged, item.type, ctx, shape)
      BY <2>1, Zenon DEF FrameStands, item
    <3>2. coding = "conditional" => Alike(ch.ec, ctx)
      <4>1. at > 1 => at - 1 > 0
        BY <2>1, <1>2, SMT
      <4>2. coding = "conditional" => Follows(ch.ec, p.items, at - 1)
            /\ p.items[at - 1].kind = "frame" /\ at > 1 /\ at - 1 > 0
        BY <1>1, <2>1, <4>1, Zenon
      <4>3. QED
        BY <4>2, Zenon DEF Follows, SaidBefore
    <3>3. shape = <<r.dec.ch[0].sub, r.dec.ch[0].fs>>
      BY <1>1 DEF shape, ch
    <3>4. 0 \in {0, 1} /\ flagged \in BOOLEAN
      <4>1. flagged \in BOOLEAN
        BY Zenon DEF flagged
      <4>2. QED
        BY <4>1, SMT
    <3> HIDE DEF ctx
    <3>5. /\ p.items[r.pos].kind = "frame" /\ p.items[r.pos].channel = 0
          /\ r.pos \in 1..Len(p.items)
          /\ p.items[r.pos].layout = Layout(coding, flagged, p.items[r.pos].type, ctx,
                                            <<r.dec.ch[0].sub, r.dec.ch[0].fs>>)
      BY <1>1, <2>1, <2>2, <3>1, <3>3 DEF item
    <3>6. coding = "conditional" => Alike(r.dec.ch[0].ec, ctx)
      BY <3>2 DEF ch
    <3>7. FrameRead(r, ReadFrame(r, p.items, 0, flagged, coding), 0, p.items[r.pos])
      <4>1. p.items \in Seq(Items)
        BY <1>2
      <4>2. QED
        BY <4>1, <3>4, <3>5, <3>6, ReadsFrame, Zenon
    <3>8. QED
      BY <1>1, <3>7 DEF read, item
  <2> DEFINE old == read.dec.ch[0]
             w == With(read.dec, 0, done)
  <2>5. /\ read \in Reads /\ read.ok /\ read.pos = at + 1 /\ read.heard = {}
        /\ read.dec.chans = 1 /\ read.dec.midOnly = r.dec.midOnly
        /\ SameChannel(old, ch) /\ Alike(old.ec, Said(item))
    BY <1>1, <2>4, Zenon DEF FrameRead, ch
  <2>6. read.dec \in Decoders /\ old \in DecChannels
    <3>1. read.dec \in Decoders
      BY <2>5, Zenon DEF Reads
    <3>2. QED
      BY <3>1, SMT DEF Decoders
  <2> HIDE DEF old
  <2>7. done \in DecChannels /\ done.n = k + 1 /\ done.frames = F /\ done.sub = Subframes(p.ms)
        /\ done.fs = p.fs /\ done.vad = p.vad[0] /\ done.lbrr = L /\ done.ec = old.ec
        /\ done.mem = item.name
    <3>1. old.n = k /\ old.frames = F /\ old.sub = Subframes(p.ms) /\ old.fs = p.fs
          /\ old.vad = p.vad[0] /\ old.lbrr = L
      BY <1>1, <2>5, Zenon DEF SameChannel
    <3>2. done = [old EXCEPT !.n = k + 1, !.mem = item.name, !.type = item.type, !.lost = FALSE]
      BY <3>1, Zenon DEF done, old
    <3>3. FALSE \in BOOLEAN
      OBVIOUS
    <3>4. done \in DecChannels
      BY <1>3, <2>3, <2>6, <3>2, <3>3, Zenon DEF DecChannels
    <3>5. done.n = k + 1 /\ done.frames = old.frames /\ done.sub = old.sub /\ done.fs = old.fs
          /\ done.vad = old.vad /\ done.lbrr = old.lbrr /\ done.ec = old.ec /\ done.mem = item.name
      BY <2>6, <3>2, Zenon DEF DecChannels
    <3>6. QED
      BY <3>1, <3>4, <3>5, Zenon
  <2>8. w \in Decoders /\ w.chans = 1 /\ w.midOnly = r.dec.midOnly /\ w.ch[0] = done
    <3>1. 0 \in {0, 1}
      BY SMT
    <3>2. QED
      BY <2>5, <2>6, <2>7, <3>1, DecoderWith, ZenonT(60)
  <2> HIDE DEF w
  <2>9. x = [read EXCEPT !.dec = w, !.heard = {sound}]
    <3>1. x = [read EXCEPT !.dec = With(read.dec, 0, done), !.heard = read.heard \cup {sound}]
      BY <1>4, <1>6, <2>5, Zenon
    <3>2. read.heard \cup {sound} = {sound}
      BY <2>5, Zenon
    <3>3. QED
      BY <3>1, <3>2, Zenon DEF w
  <2>10. sound.flag = fl /\ sound.channel = 0 /\ sound.frame = k /\ sound.name = item.name
         /\ sound.before = ch.mem /\ sound.meant = item.mem
         /\ sound.fits = (item.made = <<ch.sub, ch.fs>>)
    BY Zenon DEF sound
  <2>11. sound \in Heards
    <3>1. 0 \in {0, 1} /\ k \in 0..3 /\ (item.made = <<ch.sub, ch.fs>>) \in BOOLEAN
      BY SMT
    <3>2. ch.mem \in Nat
      BY <1>3, Zenon DEF DecChannels
    <3>3. QED
      BY <2>3, <3>1, <3>2, Zenon DEF Heards, sound
  <2> HIDE DEF x
  <2>12. x \in Reads
    <3>1. {sound} \in SUBSET Heards
      BY <2>11, Zenon
    <3>2. QED
      BY <2>5, <2>8, <2>9, <3>1, Zenon DEF Reads
  <2>13. x.dec = w /\ x.heard = {sound} /\ x.pos = read.pos /\ x.ok = read.ok
    BY <2>5, <2>9, Zenon DEF Reads
  <2>14. Reading(x.dec, p, fl, k + 1, x.pos)
    <3>1. x.pos - 1 = at
      BY <2>1, <2>5, <2>13, <1>2, SMT
    <3>2. Follows(done.ec, p.items, x.pos - 1)
      BY <2>5, <2>7, <3>1, Zenon DEF Follows, item
    <3>3. x.pos = HeadSize(L, F) + 1 + IF fl = "lbrr" THEN Before(L, k + 1) ELSE Before(L, F) + (k + 1)
      BY <2>1, <2>5, <2>13
    <3>4. QED
      BY <2>7, <2>8, <2>13, <3>2, <3>3, Zenon DEF Reading, L, F
  <2>15. fl = "normal" => item = p.items[HeadSize(L, F) + Before(L, F) + k + 1]
    <3>1. SUFFICES ASSUME fl = "normal"
                   PROVE  item = p.items[HeadSize(L, F) + Before(L, F) + k + 1]
      OBVIOUS
    <3>2. fl # "lbrr"
      BY <3>1, SMT
    <3>3. at = HeadSize(L, F) + 1 + (Before(L, F) + k)
      BY <3>2, Zenon DEF at
    <3>4. HeadSize(L, F) \in {0, 1} /\ Before(L, F) \in Nat /\ k \in 0..2
      BY <1>2
    <3>5. at = HeadSize(L, F) + Before(L, F) + k + 1
      BY ONLY <3>3, <3>4, SMT
    <3>6. QED
      BY <3>5 DEF item
  <2>16. fl = "lbrr" => item.name = NameOf(p.number - 1, k, 0)
    BY <2>1 DEF item
  <2>17. sound.fits
    BY <1>1, <2>2, <2>10, Zenon DEF shape
  <2>18. HeardMono(x, p, fl, k, r.dec.ch[0].mem)
    BY <2>10, <2>13, <2>15, <2>16, <2>17, Zenon DEF HeardMono, L, F, ch
  <2>19. MemoryMono(x, p, fl, k)
    BY <2>7, <2>8, <2>13, <2>15, Zenon DEF MemoryMono, L, F
  <2>20. QED
    BY <2>5, <2>8, <2>12, <2>13, <2>14, <2>18, <2>19 DEF x
<1>7. QED
  BY <1>5, <1>6

(* One call of silk_decode for a mono packet: y has gone through its frame. *)
AfterMono(x, y) == x = [y EXCEPT !.dec = [@ EXCEPT !.midOnly = FALSE]]

(* A call for a mono packet, by what it does to its only channel.          *)
LEMMA DecodedIsMono ==
  ASSUME NEW d, NEW fl, fl # "loss", NEW new, NEW p, p.chans = 1, NEW at, NEW ready, NEW r1,
         ready = DecPrepared(d, new, 1, p.ms, p.fs),
         r1 = IF ready.ch[0].n = 0
                THEN ReadHeader([dec |-> ready, pos |-> at, ok |-> TRUE, heard |-> {}], p, fl)
                ELSE [dec |-> ready, pos |-> at, ok |-> TRUE, heard |-> {}],
         r1.dec.chans = 1
  PROVE  AfterMono(Decoded(d, fl, new, p, at), DecodeChannel(r1, p, fl, 0))
<1> DEFINE rdy == DecPrepared(d, new, p.chans, p.ms, p.fs)
           r0 == [dec |-> rdy, pos |-> at, ok |-> TRUE, heard |-> {}]
           rr == IF fl # "loss" /\ rdy.ch[0].n = 0 THEN ReadHeader(r0, p, fl) ELSE r0
           stereo == ReadStereo(rr, p, fl)
           back == p.chans = 2 /\ ~stereo.only /\ d.midOnly
           side == [stereo.r.dec.ch[Side] EXCEPT !.mem = 0, !.type = "inactive"]
           r2 == IF back THEN [stereo.r EXCEPT !.dec = With(@, Side, side)] ELSE stereo.r
           mid == DecodeChannel(r2, p, fl, 0)
           both == IF p.chans = 1 \/ ~mid.ok THEN mid
                   ELSE IF HasSide(r2, fl, p.chans, stereo.only)
                     THEN DecodeChannel(mid, p, fl, Side)
                   ELSE PassSide(mid)
           x == Decoded(d, fl, new, p, at)
<1>1. x = IF fl = "loss" THEN both ELSE [both EXCEPT !.dec = [@ EXCEPT !.midOnly = stereo.only]]
  BY Zenon DEF Decoded
<1>2. rdy = ready
  OBVIOUS
<1>3. rr = r1
  <2> HIDE DEF rdy
  <2>1. QED
    BY <1>2, Zenon
<1> HIDE DEF rdy, r0, rr
<1>4. stereo = [r |-> r1, only |-> FALSE]
  BY <1>3, Zenon DEF ReadStereo
<1> HIDE DEF stereo
<1>5. stereo.r = r1 /\ stereo.only = FALSE
  BY <1>4, SMT
<1>6. p.chans # 2
  BY SMT
<1> HIDE DEF x, side
<1>7. r2 = r1
  BY <1>5, <1>6, Zenon
<1> HIDE DEF back, r2
<1>8. both = DecodeChannel(r1, p, fl, 0)
  BY <1>7, Zenon
<1> HIDE DEF both, mid
<1>9. x = [both EXCEPT !.dec = [@ EXCEPT !.midOnly = FALSE]]
  BY <1>1, <1>5, Zenon
<1>10. QED
  BY <1>8, <1>9 DEF x, AfterMono

(* The reader x stands before frame 0 of the mono packet p, d having been prepared. *)
HeaderDone(x, d, p, fl) ==
  /\ x \in Reads /\ x.ok /\ x.heard = {}
  /\ x.dec.midOnly = d.midOnly /\ x.dec.ch[0].mem = d.ch[0].mem
  /\ Reading(x.dec, p, fl, 0, x.pos)

(* Past the header the decoder is at the first of the frames it is asked   *)
(* for.                                                                    *)
LEMMA HeaderReadIsReading ==
  ASSUME NEW p, MonoFacts(p), NEW fl \in {"normal", "lbrr"}, NEW x, NEW d,
         HeaderRead(x, d, p, IF fl = "lbrr" THEN 0 ELSE FramesPerPacket(p.ms))
  PROVE  HeaderDone(x, d, p, fl)
<1> DEFINE L == CopySet(p)
           F == FramesPerPacket(p.ms)
           K == IF fl = "lbrr" THEN 0 ELSE F
           ch == x.dec.ch[0]
<1>1. /\ x \in Reads /\ x.ok /\ x.heard = {}
      /\ x.dec.chans = 1 /\ x.dec.midOnly = d.midOnly
      /\ ch.n = 0 /\ ch.frames = F /\ ch.sub = Subframes(p.ms) /\ ch.fs = p.fs
      /\ ch.mem = d.ch[0].mem /\ ch.vad = p.vad[0] /\ ch.lbrr = L
      /\ x.pos = HeadSize(L, F) + 1 + Before(L, K)
      /\ Follows(ch.ec, p.items, x.pos - 1)
  BY Zenon DEF HeaderRead
<1>2. HeadSize(L, F) \in {0, 1} /\ Before(L, F) \in Nat
  BY MonoNumbers, Zenon
<1>3. x.pos = HeadSize(L, F) + 1 + IF fl = "lbrr" THEN Before(L, 0) ELSE Before(L, F) + 0
  <2>1. Before(L, F) + 0 = Before(L, F)
    BY <1>2, SMT
  <2> HIDE DEF L, F
  <2>2. Before(L, K) = IF fl = "lbrr" THEN Before(L, 0) ELSE Before(L, F) + 0
    BY <2>1, Zenon
  <2> HIDE DEF K
  <2>3. QED
    BY <1>1, <2>2, Zenon
<1> HIDE DEF K
<1>4. Reading(x.dec, p, fl, 0, x.pos)
  BY <1>1, <1>3, Zenon DEF Reading
<1>5. QED
  BY <1>1, <1>4, Zenon DEF HeaderDone

(* The header of a mono packet is read.                                    *)
LEMMA HeaderMono ==
  ASSUME NEW p, MonoFacts(p), NEW fl \in {"normal", "lbrr"}, NEW d \in Decoders, d.chans = 1,
         d.ch[0].n = 0, d.ch[0].frames = FramesPerPacket(p.ms), d.ch[0].sub = Subframes(p.ms),
         d.ch[0].fs = p.fs
  PROVE  HeaderDone(ReadHeader([dec |-> d, pos |-> 1, ok |-> TRUE, heard |-> {}], p, fl), d, p, fl)
<1> DEFINE F == FramesPerPacket(p.ms)
           r == [dec |-> d, pos |-> 1, ok |-> TRUE, heard |-> {}]
           x0 == ReadLbrrFlags(r, p, 0)
           x1 == SkipCopy(x0, p, 0, 0)
           x2 == SkipCopy(x1, p, 1, 0)
           x3 == SkipCopy(x2, p, 2, 0)
           s == IF F = 1 THEN x1 ELSE IF F = 2 THEN x2 ELSE x3
           z == ReadHeader(r, p, fl)
<1>1. F \in {1, 2, 3} /\ p.chans = 1
  BY MonoNumbers, Zenon DEF MonoFacts
<1>2. z = IF fl # "normal" THEN x0 ELSE s
  <2>1. r.ok /\ p.chans # 2 /\ 1 # 2
    BY <1>1, SMT
  <2> DEFINE flags == EachChannel(LAMBDA a, c : IF a.ok THEN ReadLbrrFlags(a, p, c) ELSE a, r, p.chans)
             Copies(acc, frame) == EachChannel(LAMBDA a, c : SkipCopy(a, p, frame, c), acc, p.chans)
  <2>2. flags = x0
    BY <2>1, Zenon DEF EachChannel
  <2>3. \A a, f : Copies(a, f) = SkipCopy(a, p, f, 0)
    BY <2>1, Zenon DEF EachChannel
  <2>4. EachFrame(Copies, flags, F)
          = IF F = 1 THEN Copies(flags, 0) ELSE IF F = 2 THEN Copies(Copies(flags, 0), 1)
            ELSE Copies(Copies(Copies(flags, 0), 1), 2)
    BY DEF EachFrame
  <2>5. z = IF fl # "normal" THEN flags ELSE EachFrame(Copies, flags, F)
    BY Zenon DEF ReadHeader
  <2> HIDE DEF F, flags, Copies, x0, z
  <2>6. EachFrame(Copies, flags, F) = s
    <3>1. Copies(flags, 0) = x1
      BY <2>2, <2>3, Zenon
    <3>2. Copies(x1, 1) = x2
      BY <2>3, Zenon
    <3>3. Copies(x2, 2) = x3
      BY <2>3, Zenon
    <3> HIDE DEF x1, x2, x3
    <3>4. QED
      BY <2>4, <3>1, <3>2, <3>3, Zenon
  <2> HIDE DEF s
  <2>7. QED
    BY <2>2, <2>5, <2>6, Zenon
<1>3. HeaderRead(x0, d, p, 0)
  BY ReadFlagsMono, Zenon
<1> HIDE DEF F, x0, x1, x2, x3, z
<1>4. 0 \in 0..2 /\ 1 \in 0..2 /\ 2 \in 0..2 /\ 0 + 1 = 1 /\ 1 + 1 = 2 /\ 2 + 1 = 3
  BY SMT
<1>5. HeaderRead(x1, d, p, 1)
  <2>1. HeaderRead(SkipCopy(x0, p, 0, 0), d, p, 0 + 1)
    BY <1>3, <1>4, SkipCopyStep, Zenon
  <2>2. QED
    BY <1>4, <2>1 DEF x1
<1>6. HeaderRead(x2, d, p, 2)
  <2>1. HeaderRead(SkipCopy(x1, p, 1, 0), d, p, 1 + 1)
    BY <1>4, <1>5, SkipCopyStep, Zenon
  <2>2. QED
    BY <1>4, <2>1 DEF x2
<1>7. HeaderRead(x3, d, p, 3)
  <2>1. HeaderRead(SkipCopy(x2, p, 2, 0), d, p, 2 + 1)
    BY <1>4, <1>6, SkipCopyStep, Zenon
  <2>2. QED
    BY <1>4, <2>1 DEF x3
<1>8. HeaderRead(s, d, p, F)
  BY <1>1, <1>5, <1>6, <1>7, Zenon
<1> HIDE DEF s
<1>9. HeaderRead(z, d, p, IF fl = "lbrr" THEN 0 ELSE F)
  <2>1. CASE fl = "lbrr"
    <3>1. fl # "normal"
      BY <2>1, SMT
    <3>2. z = x0
      BY <1>2, <3>1, Zenon
    <3>3. QED
      BY <1>3, <2>1, <3>2, Zenon
  <2>2. CASE fl # "lbrr"
    <3>1. ~(fl # "normal")
      BY <2>2, SMT
    <3>2. z = s
      BY <1>2, <3>1, Zenon
    <3>3. QED
      BY <1>8, <2>2, <3>2, Zenon
  <2>3. QED
    BY <2>1, <2>2
<1>10. HeaderDone(z, d, p, fl)
  BY <1>9, HeaderReadIsReading, Zenon DEF F
<1>11. QED
  BY <1>10 DEF z

(* One call of silk_decode for frame k of the mono packet p.               *)
CallMono(x, d, p, fl, k) ==
  /\ x \in Reads /\ x.ok
  /\ Reading(x.dec, p, fl, k + 1, x.pos)
  /\ HeardMono(x, p, fl, k, IF k = 0 /\ d.ch[0].fs # p.fs THEN 0 ELSE d.ch[0].mem)
  /\ MemoryMono(x, p, fl, k)

(* A whole call for a mono packet.                                         *)
LEMMA DecodedMono ==
  ASSUME NEW p, MonoFacts(p), NEW fl \in {"normal", "lbrr"}, NEW k \in 0..2,
         k < FramesPerPacket(p.ms), NEW d \in Decoders, NEW at, NEW new \in BOOLEAN, new <=> k = 0,
         IF k = 0 THEN at = 1 ELSE Reading(d, p, fl, k, at)
  PROVE  CallMono(Decoded(d, fl, new, p, at), d, p, fl, k)
<1> DEFINE F == FramesPerPacket(p.ms)
           ready == DecPrepared(d, new, 1, p.ms, p.fs)
           r0 == [dec |-> ready, pos |-> at, ok |-> TRUE, heard |-> {}]
           r1 == IF ready.ch[0].n = 0 THEN ReadHeader(r0, p, fl) ELSE r0
           mem == IF k = 0 /\ d.ch[0].fs # p.fs THEN 0 ELSE d.ch[0].mem
           mid == DecodeChannel(r1, p, fl, 0)
           x == Decoded(d, fl, new, p, at)
<1>1. p.chans = 1 /\ p.ms \in Lengths /\ p.fs \in Rates /\ fl # "loss"
  BY SMTT(30) DEF MonoFacts
<1>2. /\ r1 \in Reads /\ r1.ok /\ r1.heard = {} /\ r1.dec.ch[0].mem = mem
      /\ Reading(r1.dec, p, fl, k, r1.pos)
  <2>1. CASE k = 0
    <3>1. new = TRUE /\ at = 1
      BY <2>1
    <3>2. ReadyDecoder(d, ready, 1, p.ms, p.fs)
      <4>1. 1 \in {1, 2}
        BY SMT
      <4>2. ReadyDecoder(d, DecPrepared(d, TRUE, 1, p.ms, p.fs), 1, p.ms, p.fs)
        BY <1>1, <4>1, PreparedNew, Zenon
      <4>3. QED
        BY <3>1, <4>2, Zenon
    <3> HIDE DEF ready
    <3>3. ready \in Decoders /\ ready.chans = 1
          /\ ReadyToRead(d.ch[0], ready.ch[0], 1 > d.chans, p.ms, p.fs)
      <4>1. 0 \in {0, 1} /\ 0 < 1
        BY SMT
      <4>2. QED
        BY <3>2, <4>1, Zenon DEF ReadyDecoder
    <3>4. /\ ready.ch[0].n = 0 /\ ready.ch[0].frames = F /\ ready.ch[0].sub = Subframes(p.ms)
          /\ ready.ch[0].fs = p.fs /\ ready.ch[0].mem = mem
      <4>1. ~(1 > d.chans)
        BY SMT DEF Decoders
      <4>2. QED
        BY <2>1, <3>3, <4>1, Zenon DEF ReadyToRead
    <3> HIDE DEF mem, F
    <3>5. HeaderDone(ReadHeader([dec |-> ready, pos |-> 1, ok |-> TRUE, heard |-> {}], p, fl), ready, p, fl)
      BY <3>3, <3>4, HeaderMono, Zenon DEF F
    <3>6. r1 = ReadHeader([dec |-> ready, pos |-> 1, ok |-> TRUE, heard |-> {}], p, fl)
      BY <3>1, <3>4, Zenon
    <3> HIDE DEF r1
    <3>7. HeaderDone(r1, ready, p, fl)
      BY <3>5, <3>6, Zenon
    <3>8. QED
      BY <2>1, <3>4, <3>7, Zenon DEF HeaderDone
  <2>2. CASE k # 0
    <3>1. new = FALSE /\ Reading(d, p, fl, k, at)
      BY <2>2
    <3> DEFINE ch == d.ch[0]
               L == CopySet(p)
    <3>2. /\ d.chans = 1 /\ ch.n = k /\ ch.frames = F /\ ch.sub = Subframes(p.ms) /\ ch.fs = p.fs
          /\ ch.vad = p.vad[0] /\ ch.lbrr = L
          /\ at = HeadSize(L, F) + 1 + IF fl = "lbrr" THEN Before(L, k) ELSE Before(L, F) + k
          /\ Follows(ch.ec, p.items, at - 1)
      BY <3>1, Zenon DEF Reading
    <3>3. d.ch[0].n > 0
      <4>1. k > 0
        BY <2>2, SMT
      <4>2. QED
        BY <3>2, <4>1, Zenon
    <3>4. ready \in Decoders /\ ready.chans = 1 /\ ready.ch[0] = d.ch[0]
      <4>1. /\ DecPrepared(d, FALSE, 1, p.ms, p.fs) \in Decoders
            /\ DecPrepared(d, FALSE, 1, p.ms, p.fs).chans = 1
            /\ DecPrepared(d, FALSE, 1, p.ms, p.fs).ch[0] = d.ch[0]
        <5>1. d.chans = 1 /\ d.ch[0].fs = p.fs
          BY <3>2
        <5>2. QED
          BY <3>3, <5>1, PreparedAgain, ZenonT(60)
      <4>2. QED
        BY <3>1, <4>1, Zenon
    <3> HIDE DEF ready
    <3>5. Reading(ready, p, fl, k, at)
      BY <3>2, <3>4, Zenon DEF Reading
    <3>6. r1 = r0
      BY <2>2, <3>2, <3>4, Zenon
    <3>7. at \in Nat
      <4>1. HeadSize(L, F) \in {0, 1} /\ Before(L, F) \in Nat
        BY MonoNumbers, Zenon
      <4>2. Before(L, k) \in Nat
        <5> HIDE DEF L
        <5>1. QED
          BY SMT DEF Before
      <4> HIDE DEF L, F
      <4> DEFINE rest == IF fl = "lbrr" THEN Before(L, k) ELSE Before(L, F) + k
      <4>3. rest \in Nat
        <5>1. Before(L, F) + k \in Nat
          BY <4>1, SMT
        <5>2. QED
          BY <4>2, <5>1, Zenon
      <4> HIDE DEF rest
      <4>4. at = HeadSize(L, F) + 1 + rest
        BY <3>2 DEF rest
      <4>5. QED
        BY <4>1, <4>3, <4>4, SMT
    <3>8. r0 \in Reads
      <4>1. TRUE \in BOOLEAN /\ {} \in SUBSET Heards
        BY Zenon
      <4>2. QED
        BY <3>4, <3>7, <4>1, Zenon DEF Reads
    <3> HIDE DEF r1
    <3>9. r1.dec = ready /\ r1.pos = at /\ r1.ok /\ r1.heard = {}
      BY <3>6, SMT
    <3>10. mem = d.ch[0].mem
      BY <2>2, Zenon
    <3> HIDE DEF r0, r1, mem
    <3>11. QED
      BY <3>4, <3>5, <3>6, <3>8, <3>9, <3>10, Zenon
  <2>3. QED
    BY <2>1, <2>2
<1>3. r1.dec.chans = 1
  BY <1>2, Zenon DEF Reading
<1>4. x = [mid EXCEPT !.dec = [@ EXCEPT !.midOnly = FALSE]]
  <2>1. ready = DecPrepared(d, new, 1, p.ms, p.fs)
    OBVIOUS
  <2> HIDE DEF ready
  <2>2. r1 = IF ready.ch[0].n = 0
               THEN ReadHeader([dec |-> ready, pos |-> at, ok |-> TRUE, heard |-> {}], p, fl)
               ELSE [dec |-> ready, pos |-> at, ok |-> TRUE, heard |-> {}]
    BY Zenon
  <2> HIDE DEF r1, x
  <2>3. AfterMono(Decoded(d, fl, new, p, at), DecodeChannel(r1, p, fl, 0))
    <3>1. p.chans = 1 /\ fl # "loss"
      BY <1>1
    <3>2. QED
      BY ONLY <1>3, <2>1, <2>2, <3>1, DecodedIsMono, SMT
  <2>4. QED
    BY <2>3 DEF x, AfterMono
<1> HIDE DEF ready, r0, r1, x
<1>5. /\ mid \in Reads /\ mid.ok
      /\ Reading(mid.dec, p, fl, k + 1, mid.pos)
      /\ HeardMono(mid, p, fl, k, r1.dec.ch[0].mem) /\ MemoryMono(mid, p, fl, k)
  BY <1>2, DecodeChannelMono, Zenon
<1> HIDE DEF mid
<1> DEFINE w == [mid.dec EXCEPT !.midOnly = FALSE]
<1>6. w \in Decoders /\ w.chans = mid.dec.chans /\ w.ch = mid.dec.ch
  <2>1. mid.dec \in Decoders /\ FALSE \in BOOLEAN
    BY <1>5, Zenon DEF Reads
  <2>2. w \in Decoders
    BY <2>1, Zenon DEF Decoders
  <2>3. QED
    BY <2>1, Zenon DEF Decoders
<1>7. x = [mid EXCEPT !.dec = w]
  BY <1>4
<1> HIDE DEF w
<1>8. x \in Reads
  BY <1>5, <1>6, <1>7, Zenon DEF Reads
<1>9. x.dec = w /\ x.pos = mid.pos /\ x.ok = mid.ok /\ x.heard = mid.heard
  BY <1>5, <1>7, Zenon DEF Reads
<1>10. Reading(x.dec, p, fl, k + 1, x.pos)
  BY <1>5, <1>6, <1>9, Zenon DEF Reading
<1>11. HeardMono(x, p, fl, k, mem)
  BY <1>2, <1>5, <1>9, Zenon DEF HeardMono
<1>12. MemoryMono(x, p, fl, k)
  BY <1>5, <1>6, <1>9, Zenon DEF MemoryMono
<1>13. CallMono(x, d, p, fl, k)
  BY <1>5, <1>8, <1>9, <1>10, <1>11, <1>12, Zenon DEF CallMono
<1>14. QED
  BY <1>13 DEF x

(* The stream s with one more frame of a stereo packet, of channel c.      *)
FrameAdded(s, z, c, speech, shape) ==
  /\ z = [enc |-> z.enc, items |-> z.items]
  /\ z.enc \in Encoders /\ z.enc.chans = s.enc.chans /\ z.enc.ms = s.enc.ms
  /\ z.enc.midOnly = s.enc.midOnly
  /\ z.enc.ch[c].fs = s.enc.ch[c].fs /\ z.enc.ch[c].lbrr = s.enc.ch[c].lbrr
  /\ \A k \in {0, 1} : k # c => z.enc.ch[k] = s.enc.ch[k]
  /\ z.items \in Seq(Items) /\ Len(z.items) = Len(s.items) + 1 /\ Longer(s.items, z.items)
  /\ StereoFrame(z.items[Len(s.items) + 1], c, speech, shape)
  /\ z.items[Len(s.items) + 1].mem = s.enc.ch[c].mem
  /\ z.enc.ch[c].mem = z.items[Len(s.items) + 1].name

(* An independent layout tells no context from another.                    *)
LEMMA LayoutIndependent ==
  ASSUME NEW flagged, NEW type, NEW a, NEW b, NEW shape
  PROVE  Layout("independent", flagged, type, a, shape) = Layout("independent", flagged, type, b, shape)
<1>1. "independent" # "conditional"
  BY SMT
<1>2. QED
  BY <1>1, Zenon DEF Layout

(* The one frame of a channel of a stereo packet.                          *)
LEMMA StereoFrameWritten ==
  ASSUME NEW s, s.enc \in Encoders, s.items \in Seq(Items), NEW c \in {0, 1}, NEW pick,
         TypeOf(pick, c) \in Kinds, NEW name \in Nat, NEW shape \in Shapes, shape = EncShape(s.enc, c),
         NEW speech \in BOOLEAN, speech <=> TypeOf(pick, c) # "inactive"
  PROVE  FrameAdded(s, WriteFrame(s, 0, c, pick, FALSE, name), c, speech, shape)
<1> DEFINE ch == s.enc.ch[c]
           type == TypeOf(pick, c)
           flagged == type # "inactive"
           layout == Layout("independent", flagged, type, ch.ec, shape)
           item == FrameItem(c, 0, layout, type, name, ch.mem, shape)
           kept == FALSE /\ c \in pick.strong
           ec == EcAfter(ch.ec, type, name)
           ch1 == [ch EXCEPT !.fresh = FALSE, !.mem = name, !.ec = ec]
           w == With(s.enc, c, ch1)
           more == Append(s.items, item)
           z == WriteFrame(s, 0, c, pick, FALSE, name)
<1>1. ch \in EncChannels
  BY SMT DEF Encoders
<1>2. ch.ec \in Contexts /\ ch.mem \in Nat /\ ch.lbrr \in SUBSET (0..2) /\ ch.copy \in Copies3
  BY <1>1, SMT DEF EncChannels
<1>3. type \in Kinds /\ flagged \in BOOLEAN /\ 0 \in 0..2 /\ (flagged <=> speech)
  <2>1. type \in Kinds /\ 0 \in 0..2
    BY SMT
  <2> HIDE DEF type
  <2>2. flagged \in BOOLEAN
    OBVIOUS
  <2>3. flagged <=> speech
    BY DEF type
  <2>4. QED
    BY <2>1, <2>2, <2>3
<1>4. z = [enc |-> w, items |-> more]
  <2>1. EncCoding(0, c, s.enc.midOnly) = "independent"
    <3>1. 0 - c <= 0
      BY SMT
    <3>2. QED
      BY <3>1, Zenon DEF EncCoding
  <2>2. type # "absent"
    BY <1>3, SMT DEF Kinds
  <2>3. z = IF type = "absent" THEN s
            ELSE [enc |-> With(s.enc, c,
                      [ch EXCEPT !.fresh = FALSE, !.mem = name, !.ec = ec,
                                 !.lbrr = IF kept THEN @ \cup {0} ELSE @,
                                 !.copy = IF kept
                                            THEN [k \in 1 .. 3 |->
                                                   IF k = 0 + 1
                                                     THEN [type |-> type, name |-> name,
                                                           made |-> EncShape(s.enc, c)]
                                                     ELSE ch.copy[k]]
                                            ELSE @]),
            items |-> Append(s.items, FrameItem(c, 0, Layout(EncCoding(0, c, s.enc.midOnly), flagged, type, ch.ec,
                       EncShape(s.enc, c)), type, name, ch.mem, EncShape(s.enc, c)))]
    BY DEF WriteFrame
  <2>4. ~kept
    OBVIOUS
  <2>5. ch1 = [ch EXCEPT !.fresh = FALSE, !.mem = name, !.ec = ec, !.lbrr = @, !.copy = @]
    <3> HIDE DEF ch, ec
    <3>1. QED
      BY <1>1, Zenon DEF EncChannels
  <2> HIDE DEF ch, type, flagged, kept, ec, z, ch1
  <2>6. QED
    BY <2>1, <2>2, <2>3, <2>4, <2>5, Zenon
<1> HIDE DEF ch, type, flagged, layout, item, kept, ec, ch1, w, more, z
<1>5. layout \in Layouts
  BY <1>2, <1>3, LayoutIn, Zenon DEF layout
<1>6. item \in Items
  BY <1>2, <1>3, <1>5, ItemLemma, Zenon DEF item
<1>7. /\ item.kind = "frame" /\ item.channel = c /\ item.made = shape
      /\ item.layout = layout /\ item.type = type /\ item.name = name /\ item.mem = ch.mem
  BY Zenon DEF FrameItem, item
<1>8. layout = Layout("independent", speech, type, EcFresh, shape)
  <2>2. flagged = speech
    BY <1>3
  <2>3. layout = Layout("independent", speech, type, ch.ec, shape)
    BY <2>2, Zenon DEF layout
  <2>5. Layout("independent", speech, type, ch.ec, shape) = Layout("independent", speech, type, EcFresh, shape)
    BY LayoutIndependent, SMT
  <2>6. QED
    BY <2>3, <2>5
<1>9. StereoFrame(item, c, speech, shape)
  BY <1>7, <1>8, Zenon DEF StereoFrame
<1>10. ec \in Contexts
  <2>1. [type |-> type, name |-> name].type = type /\ [type |-> type, name |-> name].name = name
    BY Zenon
  <2>2. QED
    BY <1>2, <1>3, <2>1, AfterLemma, Zenon DEF ec
<1>11. ch1 \in EncChannels /\ ch1.fs = ch.fs /\ ch1.lbrr = ch.lbrr /\ ch1.mem = name
  <2>1. FALSE \in BOOLEAN
    OBVIOUS
  <2>2. ch1 \in EncChannels
    BY <1>1, <1>10, <2>1, Zenon DEF EncChannels, ch1
  <2>3. ch1.fs = ch.fs /\ ch1.lbrr = ch.lbrr /\ ch1.mem = name
    BY <1>1, Zenon DEF EncChannels, ch1
  <2>4. QED
    BY <2>2, <2>3
<1>12. /\ w \in Encoders /\ w.chans = s.enc.chans /\ w.ms = s.enc.ms /\ w.midOnly = s.enc.midOnly
       /\ w.ch[c] = ch1 /\ \A k \in {0, 1} : k # c => w.ch[k] = s.enc.ch[k]
  <2>1. /\ With(s.enc, c, ch1) \in Encoders /\ With(s.enc, c, ch1).chans = s.enc.chans
        /\ With(s.enc, c, ch1).ms = s.enc.ms /\ With(s.enc, c, ch1).midOnly = s.enc.midOnly
        /\ With(s.enc, c, ch1).ch[c] = ch1
        /\ \A k \in {0, 1} : k # c => With(s.enc, c, ch1).ch[k] = s.enc.ch[k]
    BY <1>11, EncoderWith, SMT
  <2>2. QED
    BY <2>1 DEF w
<1>13. /\ more \in Seq(Items) /\ Len(more) = Len(s.items) + 1 /\ more[Len(s.items) + 1] = item
       /\ Longer(s.items, more)
  BY <1>6, SMT DEF Longer, more
<1>14. z.enc = w /\ z.items = more /\ z = [enc |-> z.enc, items |-> z.items]
  <2>1. z.enc = w /\ z.items = more
    BY <1>4, SMT
  <2>2. QED
    BY <1>4, <2>1, Zenon
<1>17. z.items[Len(s.items) + 1].mem = s.enc.ch[c].mem
       /\ z.enc.ch[c].mem = z.items[Len(s.items) + 1].name
  BY <1>7, <1>11, <1>12, <1>13, <1>14 DEF ch
<1>15. FrameAdded(s, z, c, speech, shape)
  BY <1>9, <1>17, <1>11, <1>12, <1>13, <1>14, Zenon DEF FrameAdded, ch
<1>16. QED
  BY <1>15 DEF z

(* No channel of the encoder keeps a copy.                                 *)
Silent(e) == \A c \in {0, 1} : e.ch[c].lbrr = {}

(* A new channel of the encoder, which has no copies.                      *)
LEMMA FreshEncChannel == EncChannelFresh \in EncChannels /\ EncChannelFresh.lbrr = {}
<1> DEFINE copy == [type |-> "inactive", name |-> 0, made |-> <<0, 0>>]
           lbrr == {}
<1>1. copy \in [type : Kinds, name : Nat, made : Made]
  <2>1. "inactive" \in Kinds /\ 0 \in Nat /\ <<0, 0>> \in Made
    BY SMT DEF Kinds, Made
  <2>2. QED
    BY <2>1, Zenon
<1>2. NoCopies \in Copies3
  <2>1. NoCopies = [k \in 1..3 |-> copy]
    BY Zenon DEF NoCopies
  <2> HIDE DEF copy
  <2>2. QED
    BY <1>1, <2>1, SMT DEF Copies3
<1>3. 0 \in Nat /\ lbrr \in SUBSET (0..2) /\ 0 \in {0} \cup Rates /\ TRUE \in BOOLEAN
  BY SMT
<1>4. EcFresh \in Contexts
  <2>1. "inactive" \in Kinds
    BY SMT DEF Kinds
  <2>2. QED
    BY <1>3, <2>1, Zenon DEF EcFresh, Contexts
<1>5. EncChannelFresh = [fs |-> 0, fresh |-> TRUE, lbrr |-> lbrr, copy |-> NoCopies, ec |-> EcFresh, mem |-> 0]
  BY Zenon DEF EncChannelFresh
<1> HIDE DEF lbrr
<1>6. EncChannelFresh \in EncChannels
  BY <1>2, <1>3, <1>4, <1>5, Zenon DEF EncChannels
<1>7. EncChannelFresh.lbrr = lbrr
  BY <1>5, SMT
<1>8. QED
  BY <1>6, <1>7 DEF lbrr

(* A side channel is added without copies.                                 *)
LEMMA WidenedLemma ==
  ASSUME NEW e \in Encoders, NEW chans \in {1, 2}
  PROVE  /\ Widened(e, chans) \in Encoders
         /\ Widened(e, chans).chans = e.chans /\ Widened(e, chans).ms = e.ms
         /\ Widened(e, chans).ch[0] = e.ch[0]
         /\ chans > e.chans => Widened(e, chans).ch[1] = EncChannelFresh
         /\ ~(chans > e.chans) => Widened(e, chans) = e
         /\ Silent(e) => Silent(Widened(e, chans))
<1> DEFINE v == With(e, 1, EncChannelFresh)
           w == [v EXCEPT !.midOnly = FALSE]
           x == Widened(e, chans)
<1>1. 0 \in {0, 1} /\ 1 \in {0, 1} /\ 0 # 1 /\ FALSE \in BOOLEAN /\ \A c \in {0, 1} : c = 0 \/ c = 1
  BY SMT
<1>2. /\ v \in Encoders /\ v.chans = e.chans /\ v.ms = e.ms /\ v.ch[0] = e.ch[0]
      /\ v.ch[1] = EncChannelFresh
  BY <1>1, FreshEncChannel, EncoderWith, ZenonT(60)
<1> HIDE DEF v
<1>3. w \in Encoders /\ w.chans = v.chans /\ w.ms = v.ms /\ w.ch = v.ch
  <2>1. w \in Encoders
    BY <1>1, <1>2, Zenon DEF Encoders
  <2>2. QED
    BY <1>2, <2>1, Zenon DEF Encoders
<1>4. Silent(e) => Silent(w)
  BY <1>1, <1>2, <1>3, FreshEncChannel, Zenon DEF Silent
<1>5. x = IF chans > e.chans THEN w ELSE e
  BY Zenon DEF Widened, v, Side
<1> HIDE DEF w, x
<1>6. /\ x \in Encoders /\ x.chans = e.chans /\ x.ms = e.ms /\ x.ch[0] = e.ch[0]
      /\ chans > e.chans => x.ch[1] = EncChannelFresh
      /\ ~(chans > e.chans) => x = e
      /\ Silent(e) => Silent(x)
  BY <1>2, <1>3, <1>4, <1>5, Zenon
<1>7. QED
  BY <1>6 DEF x

(* The encoder x is e with other contexts, no copies and other memories.   *)
Resembles(x, e) ==
  /\ x \in Encoders /\ x.chans = e.chans /\ x.ms = e.ms /\ Silent(x)
  /\ \A c \in {0, 1} : x.ch[c].fs = e.ch[c].fs

(* The encoder x predicts from what e predicts from.                       *)
SameMemory(x, e) == x.midOnly = e.midOnly /\ \A c \in {0, 1} : x.ch[c].mem = e.ch[c].mem

(* Without copies nothing precedes the stereo items.                       *)
LEMMA NoLbrrWritten ==
  ASSUME NEW e \in Encoders, Silent(e)
  PROVE  Resembles(WriteLbrr(e, 2, 1).enc, e) /\ SameMemory(WriteLbrr(e, 2, 1).enc, e) /\ WriteLbrr(e, 2, 1).items = <<>>
<1> DEFINE flags == WriteLbrrFlags(e, 0, 1) \o (IF 2 = 2 THEN WriteLbrrFlags(e, Side, 1) ELSE <<>>)
           s0 == [enc |-> e, items |-> flags]
           Copies(acc, frame) == EachChannel(LAMBDA a, c : WriteCopy(a, frame, c), acc, 2)
           s == EachFrame(Copies, s0, 1)
           g == [c \in {0, 1} |-> [e.ch[c] EXCEPT !.lbrr = {}]]
           x == CopiesSent(e, 2)
           z == WriteLbrr(e, 2, 1)
<1>1. z = [enc |-> CopiesSent(s.enc, 2), items |-> s.items]
  BY DEF WriteLbrr
<1>2. flags = <<>>
  <2>1. e.ch[0].lbrr = {} /\ e.ch[Side].lbrr = {}
    BY SMT DEF Silent, Side
  <2>2. WriteLbrrFlags(e, 0, 1) = <<>> /\ WriteLbrrFlags(e, Side, 1) = <<>>
    BY <2>1, Zenon DEF WriteLbrrFlags
  <2>3. <<>> \o <<>> = <<>>
    BY SMT
  <2>4. QED
    BY <2>2, <2>3, Zenon
<1>3. s = s0
  <2>1. s0.enc = e
    BY Zenon
  <2> HIDE DEF s0
  <2>2. WriteCopy(s0, 0, 0) = s0 /\ WriteCopy(s0, 0, 1) = s0
    <3>1. s0.enc.ch[0].lbrr = {} /\ s0.enc.ch[1].lbrr = {}
      BY <2>1, SMT DEF Silent
    <3>2. QED
      BY <3>1, Zenon DEF WriteCopy
  <2>3. Copies(s0, 0) = WriteCopy(WriteCopy(s0, 0, 0), 0, 1)
    BY Zenon DEF EachChannel
  <2>4. s = Copies(s0, 0)
    BY DEF EachFrame
  <2> HIDE DEF s, Copies
  <2>5. QED
    BY <2>2, <2>3, <2>4, Zenon
<1> HIDE DEF s, z, flags
<1>4. z.enc = x /\ z.items = <<>>
  <2>1. z.enc = CopiesSent(s.enc, 2) /\ z.items = s.items
    BY <1>1, SMT
  <2>2. s.enc = e /\ s.items = flags
    BY <1>3, SMT
  <2>3. QED
    BY <1>2, <2>1, <2>2
<1>5. x = [e EXCEPT !.ch = g]
  <2>1. \A c \in {0, 1} : c < 2
    BY SMT
  <2>2. [c \in {0, 1} |-> IF c < 2 THEN [e.ch[c] EXCEPT !.lbrr = {}] ELSE e.ch[c]] = g
    BY <2>1, Zenon
  <2> HIDE DEF g
  <2>3. QED
    BY <2>2, Zenon DEF CopiesSent
<1>6. \A c \in {0, 1} : e.ch[c] \in EncChannels
  BY SMT DEF Encoders
<1>7. \A c \in {0, 1} : g[c] \in EncChannels /\ g[c].lbrr = {} /\ g[c].fs = e.ch[c].fs
                         /\ g[c].mem = e.ch[c].mem
  <2> TAKE c \in {0, 1}
  <2> DEFINE a == e.ch[c]
             none == {}
             b == [a EXCEPT !.lbrr = none]
  <2>1. a \in EncChannels /\ none \in SUBSET (0..2)
    BY <1>6
  <2>2. g[c] = b
    BY Zenon
  <2> HIDE DEF g, a, none
  <2>3. b \in EncChannels
    BY <2>1, Zenon DEF EncChannels
  <2>4. b.lbrr = none /\ b.fs = a.fs /\ b.mem = a.mem
    BY <2>1, Zenon DEF EncChannels
  <2> HIDE DEF b
  <2>5. QED
    BY <2>2, <2>3, <2>4 DEF a, none
<1>8. g \in [{0, 1} -> EncChannels]
  <2>1. g = [c \in {0, 1} |-> g[c]]
    BY Zenon
  <2> HIDE DEF g
  <2>2. QED
    BY <1>7, <2>1, SMT
<1> HIDE DEF g
<1>9. x \in Encoders
  BY <1>5, <1>8, Zenon DEF Encoders
<1>10. x.chans = e.chans /\ x.ms = e.ms /\ x.ch = g /\ x.midOnly = e.midOnly
  BY <1>5, Zenon DEF Encoders
<1> HIDE DEF x
<1>11. Resembles(x, e)
  BY <1>7, <1>9, <1>10, Zenon DEF Resembles, Silent
<1>12. SameMemory(x, e)
  BY <1>7, <1>10, Zenon DEF SameMemory
<1>13. QED
  BY <1>4, <1>11, <1>12 DEF z

(* The stereo items of a frame, before its channels.                       *)
StereoHead(z, e, speech, absent) ==
  /\ Resembles(z.enc, e) /\ z.items \in Seq(Items)
  /\ Len(z.items) = IF speech THEN 1 ELSE 2
  /\ z.items[1].kind = "predictors"
  /\ ~speech => z.items[2].kind = "mid only" /\ z.items[2].set = absent
  /\ z.enc.ch[0].mem = e.ch[0].mem
  /\ ~absent => z.enc.ch[1].mem = IF e.midOnly THEN 0 ELSE e.ch[1].mem

(* The stereo items are written.                                           *)
LEMMA StereoHeadWritten ==
  ASSUME NEW e \in Encoders, NEW s, Resembles(s.enc, e), SameMemory(s.enc, e), s.items = <<>>, NEW pick,
         NEW speech \in BOOLEAN, speech <=> (pick.side # "absent" /\ pick.side # "inactive"),
         NEW absent \in BOOLEAN, absent <=> pick.side = "absent"
  PROVE  StereoHead(WriteStereo(s, pick), e, speech, absent)
<1> DEFINE midOnly == pick.side = "absent"
           vad == ~midOnly /\ pick.side # "inactive"
           x == IF ~midOnly /\ s.enc.midOnly THEN SideReset(s.enc) ELSE s.enc
           pred == [kind |-> "predictors"]
           only == [kind |-> "mid only", set |-> absent]
           head == Append(s.items, pred)
           items == IF speech THEN head ELSE Append(head, only)
           z == WriteStereo(s, pick)
<1>1. midOnly = absent /\ (vad <=> speech)
  OBVIOUS
<1>11. x = IF ~absent /\ s.enc.midOnly THEN SideReset(s.enc) ELSE s.enc
  BY <1>1
<1>2. z = [enc |-> x, items |-> IF vad THEN head ELSE Append(head, [kind |-> "mid only", set |-> midOnly])]
  BY DEF WriteStereo
<1>3. (IF vad THEN head ELSE Append(head, [kind |-> "mid only", set |-> midOnly])) = items
  <2> HIDE DEF midOnly, vad, head
  <2>1. QED
    BY <1>1, Zenon
<1> HIDE DEF midOnly, vad, x, head, items, z
<1>4. z.enc = x /\ z.items = items
  <2>1. z = [enc |-> x, items |-> items]
    BY <1>2, <1>3, Zenon
  <2>2. QED
    BY <2>1, SMT
<1>5. pred \in Items /\ only \in Items
  <2>1. pred \in StereoItems /\ only \in StereoItems
    BY Zenon DEF StereoItems
  <2>2. QED
    BY <2>1, Zenon DEF Items
<1>6. pred.kind = "predictors" /\ only.kind = "mid only" /\ only.set = absent
  BY Zenon
<1> HIDE DEF pred, only
<1>7. /\ items \in Seq(Items) /\ Len(items) = (IF speech THEN 1 ELSE 2)
      /\ items[1] = pred /\ (~speech => items[2] = only)
  <2>1. head \in Seq(Items) /\ Len(head) = 1 /\ head[1] = pred
    BY <1>5, SMT DEF head
  <2>2. Append(head, only) \in Seq(Items) /\ Len(Append(head, only)) = 2
        /\ Append(head, only)[1] = pred /\ Append(head, only)[2] = only
    <3>1. Append(head, only) \in Seq(Items)
      BY <1>5, <2>1, SMT
    <3>2. Len(Append(head, only)) = Len(head) + 1 /\ Append(head, only)[Len(head) + 1] = only
          /\ \A i \in 1..Len(head) : Append(head, only)[i] = head[i]
      <4>1. head \in Seq(Items) /\ only \in Items
        BY <1>5, <2>1
      <4>2. QED
        BY ONLY <4>1, SMT
    <3>3. Len(head) + 1 = 2 /\ 1 \in 1..Len(head)
      BY <2>1, SMT
    <3>4. QED
      BY <2>1, <3>1, <3>2, <3>3, Zenon
  <2>3. QED
    BY <2>1, <2>2, Zenon DEF items
<1>8. /\ Resembles(x, e) /\ x.ch[0].mem = e.ch[0].mem
      /\ ~absent => x.ch[1].mem = IF e.midOnly THEN 0 ELSE e.ch[1].mem
  <2> DEFINE old == s.enc.ch[1]
             ch == [old EXCEPT !.mem = 0, !.fresh = TRUE]
             w == With(s.enc, 1, ch)
  <2>1. s.enc \in Encoders /\ s.enc.chans = e.chans /\ s.enc.ms = e.ms /\ Silent(s.enc)
        /\ \A c \in {0, 1} : s.enc.ch[c].fs = e.ch[c].fs
    BY Zenon DEF Resembles
  <2>2. old \in EncChannels /\ TRUE \in BOOLEAN /\ 0 \in Nat
    BY <2>1, SMT DEF Encoders
  <2>3. 0 \in {0, 1} /\ 1 \in {0, 1} /\ 0 # 1 /\ \A c \in {0, 1} : c = 0 \/ c = 1
    BY SMT
  <2>4. SideReset(s.enc) = w
    BY Zenon DEF SideReset, Side
  <2> HIDE DEF old
  <2>5. ch \in EncChannels
    BY <2>2, Zenon DEF EncChannels
  <2>6. ch.lbrr = old.lbrr /\ ch.fs = old.fs /\ ch.mem = 0
    BY <2>2, Zenon DEF EncChannels
  <2> HIDE DEF ch
  <2>7. /\ w \in Encoders /\ w.chans = s.enc.chans /\ w.ms = s.enc.ms
        /\ w.ch[1] = ch /\ w.ch[0] = s.enc.ch[0]
    BY <2>1, <2>3, <2>5, EncoderWith, ZenonT(60)
  <2> HIDE DEF w
  <2>8. \A c \in {0, 1} : w.ch[c].lbrr = s.enc.ch[c].lbrr /\ w.ch[c].fs = s.enc.ch[c].fs
    BY <2>3, <2>6, <2>7, Zenon DEF old
  <2>9. Resembles(w, e)
    BY <2>1, <2>7, <2>8, Zenon DEF Resembles, Silent
  <2>11. s.enc.ch[0].mem = e.ch[0].mem /\ s.enc.ch[1].mem = e.ch[1].mem /\ s.enc.midOnly = e.midOnly
    BY <2>3, Zenon DEF SameMemory
  <2>12. w.ch[1].mem = 0 /\ w.ch[0].mem = e.ch[0].mem
    BY <2>6, <2>7, <2>11, Zenon
  <2>10. CASE ~absent /\ s.enc.midOnly
    <3>1. x = w
      BY <1>11, <2>4, <2>10, Zenon
    <3>2. QED
      BY <2>9, <2>10, <2>11, <2>12, <3>1, Zenon
  <2>13. CASE ~(~absent /\ s.enc.midOnly)
    <3>1. x = s.enc
      BY <1>11, <2>13, Zenon
    <3>2. QED
      BY <2>11, <2>13, <3>1, Zenon
  <2>14. QED
    BY <2>10, <2>13
<1>9. StereoHead(z, e, speech, absent)
  BY <1>4, <1>6, <1>7, <1>8, Zenon DEF StereoHead
<1>10. QED
  BY <1>9 DEF z

(* The same with the mid channel, and then the side channel, of the frame. *)
LEMMA FrameAddedResembles ==
  ASSUME NEW s, NEW z, NEW c \in {0, 1}, NEW speech, NEW shape, NEW e,
         Resembles(s.enc, e), FrameAdded(s, z, c, speech, shape)
  PROVE  Resembles(z.enc, e)
<1>1. /\ z.enc \in Encoders /\ z.enc.chans = s.enc.chans /\ z.enc.ms = s.enc.ms
      /\ z.enc.ch[c].fs = s.enc.ch[c].fs /\ z.enc.ch[c].lbrr = s.enc.ch[c].lbrr
      /\ \A k \in {0, 1} : k # c => z.enc.ch[k] = s.enc.ch[k]
  BY Zenon DEF FrameAdded
<1>2. \A k \in {0, 1} : z.enc.ch[k].fs = s.enc.ch[k].fs /\ z.enc.ch[k].lbrr = s.enc.ch[k].lbrr
  BY <1>1, Zenon
<1>3. /\ s.enc.chans = e.chans /\ s.enc.ms = e.ms
      /\ \A k \in {0, 1} : s.enc.ch[k].lbrr = {}
      /\ \A k \in {0, 1} : s.enc.ch[k].fs = e.ch[k].fs
  BY Zenon DEF Resembles, Silent
<1>4. \A k \in {0, 1} : z.enc.ch[k].lbrr = {} /\ z.enc.ch[k].fs = e.ch[k].fs
  BY <1>2, <1>3, SMT
<1>5. QED
  BY <1>1, <1>3, <1>4, Zenon DEF Resembles, Silent

(* The encoder and the packet after a stereo call.                         *)
StereoOutcome(z, ms, fs, number) ==
  LET p == z.packet
  IN  /\ z.enc \in Encoders /\ Silent(z.enc)
      /\ p \in Packets /\ p.number = number + 1 /\ p.chans = 2 /\ p.ms = ms /\ p.fs = fs
      /\ StereoPacket(p)

(* What a call of silk_encode finds in channel c, and in the side channel  *)
(* if it codes that.                                                       *)
StartMem(e, chans, c, fs) ==
  IF (c = 1 /\ chans > e.chans) \/ e.ch[c].fs # fs THEN 0 ELSE e.ch[c].mem

(* The same of the side channel, which starts over after mid-only frames.  *)
StartSide(e, fs) == IF e.midOnly THEN 0 ELSE StartMem(e, 2, 1, fs)

(* The frames of the stereo packet p are predicted from mem and side, and  *)
(* the encoder x is left with what they leave for the next.                *)
FirstItem(p) == IF 0 \in p.vad[1] THEN 0 ELSE 1

(* The stereo packet has no side frame.                                    *)
MidAlone(p) == FirstItem(p) = 1 /\ p.items[2].set

(* The frames of a stereo packet are predicted from mem and side, and the  *)
(* encoder is left with the packet's own.                                  *)
StereoPredicted(x, p, mem, side) ==
  LET one == FirstItem(p)
  IN  /\ x.chans = 2 /\ (x.midOnly <=> MidAlone(p))
      /\ p.items[one + 2].mem = mem
      /\ x.ch[0].mem = p.items[one + 2].name /\ x.ch[0].fs = p.fs
      /\ ~MidAlone(p) => /\ p.items[one + 3].mem = side
                         /\ x.ch[1].mem = p.items[one + 3].name /\ x.ch[1].fs = p.fs

(* What a stereo frame is made of.                                         *)
StereoItemsStand(items, speech0, speech1, absent, shape) ==
  LET one == IF speech1 THEN 0 ELSE 1
  IN  /\ items \in Seq(Items)
      /\ Len(items) = one + (IF absent THEN 2 ELSE 3)
      /\ items[1].kind = "predictors"
      /\ one = 1 => items[2].kind = "mid only" /\ items[2].set = absent
      /\ StereoFrame(items[one + 2], 0, speech0, shape)
      /\ ~absent => StereoFrame(items[one + 3], 1, speech1, shape)

(* What each frame is predicted from, the encoder e before them, x after.  *)
StereoMemory(x, items, e, fs, one, absent) ==
  /\ x.midOnly = absent /\ x.chans = 2
  /\ items[one + 2].mem = e.ch[0].mem
  /\ x.ch[0].mem = items[one + 2].name /\ x.ch[0].fs = fs
  /\ ~absent => /\ items[one + 3].mem = IF e.midOnly THEN 0 ELSE e.ch[1].mem
                /\ x.ch[1].mem = items[one + 3].name /\ x.ch[1].fs = fs

(* What writing the one frame of a stereo packet leaves.                   *)
SlotOutcome(z, e, fs, speech0, speech1, absent, shape) ==
  /\ z.enc \in Encoders /\ Silent(z.enc)
  /\ StereoItemsStand(z.items, speech0, speech1, absent, shape)
  /\ StereoMemory(z.enc, z.items, e, fs, IF speech1 THEN 0 ELSE 1, absent)

(* What it begins from.                                                    *)
SlotReady(e, fs, s, pick, speech0, speech1, absent, shape) ==
  /\ e \in Encoders /\ e.chans = 2 /\ e.ms \in {10, 20} /\ fs \in Rates
  /\ e.ch[0].fs = fs /\ e.ch[1].fs = fs
  /\ Resembles(s.enc, e) /\ SameMemory(s.enc, e) /\ s.items = <<>> /\ pick.mid \in Kinds
  /\ pick.side \in Kinds \cup {"absent"}
  /\ speech0 \in BOOLEAN /\ (speech0 <=> pick.mid # "inactive")
  /\ speech1 \in BOOLEAN /\ (speech1 <=> (pick.side # "absent" /\ pick.side # "inactive"))
  /\ absent \in BOOLEAN /\ (absent <=> pick.side = "absent")
  /\ shape = <<Subframes(e.ms), fs>>

(* The items of the one frame are those of a stereo packet.                *)
LEMMA StereoSlotWritten ==
  ASSUME NEW e, NEW fs, NEW s, NEW pick, NEW number \in Nat, NEW speech0, NEW speech1, NEW absent,
         NEW shape, SlotReady(e, fs, s, pick, speech0, speech1, absent, shape)
  PROVE  SlotOutcome(WriteSlot(s, 0, pick, 2, FALSE, number), e, fs, speech0, speech1, absent, shape)
<1> DEFINE s1 == WriteStereo(s, pick)
           s2 == WriteFrame(s1, 0, 0, pick, FALSE, NameOf(number, 0, 0))
           s3 == WriteFrame(s2, 0, 1, pick, FALSE, NameOf(number, 0, 1))
           w == [s3.enc EXCEPT !.midOnly = absent]
           one == IF speech1 THEN 0 ELSE 1
           z == WriteSlot(s, 0, pick, 2, FALSE, number)
<1> HIDE DEF s1, s2, s3, w, one, z
<1>0. /\ e \in Encoders /\ e.chans = 2 /\ e.ms \in {10, 20} /\ fs \in Rates
      /\ e.ch[0].fs = fs /\ e.ch[1].fs = fs
      /\ Resembles(s.enc, e) /\ SameMemory(s.enc, e) /\ s.items = <<>> /\ pick.mid \in Kinds
      /\ pick.side \in Kinds \cup {"absent"}
      /\ speech0 \in BOOLEAN /\ (speech0 <=> pick.mid # "inactive")
      /\ speech1 \in BOOLEAN /\ (speech1 <=> (pick.side # "absent" /\ pick.side # "inactive"))
      /\ absent \in BOOLEAN /\ (absent <=> pick.side = "absent")
      /\ shape = <<Subframes(e.ms), fs>>
  BY Zenon DEF SlotReady
<1> SUFFICES ASSUME e \in Encoders, e.chans = 2, e.ms \in {10, 20}, fs \in Rates,
                    e.ch[0].fs = fs, e.ch[1].fs = fs,
                    Resembles(s.enc, e), SameMemory(s.enc, e), s.items = <<>>, pick.mid \in Kinds,
                    pick.side \in Kinds \cup {"absent"},
                    speech0 \in BOOLEAN, speech0 <=> pick.mid # "inactive",
                    speech1 \in BOOLEAN, speech1 <=> (pick.side # "absent" /\ pick.side # "inactive"),
                    absent \in BOOLEAN, absent <=> pick.side = "absent",
                    shape = <<Subframes(e.ms), fs>>
             PROVE  SlotOutcome(WriteSlot(s, 0, pick, 2, FALSE, number), e, fs, speech0, speech1, absent, shape)
  BY <1>0
<1> USE DEF s1, s2, s3, w, one, z
<1>1. /\ TypeOf(pick, 0) = pick.mid /\ TypeOf(pick, 1) = pick.side
      /\ 0 \in {0, 1} /\ 1 \in {0, 1} /\ 0 # 1
      /\ NameOf(number, 0, 0) \in Nat /\ NameOf(number, 0, 1) \in Nat
  BY SMT DEF TypeOf, Side, NameOf
<1>2. shape \in Shapes
  <2>1. Subframes(e.ms) \in {2, 4}
    BY SMT DEF Subframes
  <2>2. QED
    BY <2>1, SMT DEF Shapes, Rates
<1>3. z = [s3 EXCEPT !.enc = w]
  <2> DEFINE stereo == IF 2 = 2 THEN WriteStereo(s, pick) ELSE s
             both == EachChannel(LAMBDA a, c : WriteFrame(a, 0, c, pick, FALSE, NameOf(number, 0, c)),
                                 stereo, 2)
  <2>1. both = s3
    BY Zenon DEF EachChannel
  <2>2. z = IF 2 = 2 THEN [both EXCEPT !.enc = [@ EXCEPT !.midOnly = pick.side = "absent"]] ELSE both
    BY DEF WriteSlot
  <2> DEFINE gone == pick.side = "absent"
  <2>3. gone = absent
    OBVIOUS
  <2>4. z = [both EXCEPT !.enc = [@ EXCEPT !.midOnly = gone]]
    BY <2>2, Zenon
  <2> HIDE DEF gone, both, s3, z
  <2>5. QED
    BY <2>1, <2>3, <2>4, Zenon
<1>4. StereoHead(s1, e, speech1, absent)
  BY StereoHeadWritten, Zenon
<1> HIDE DEF s1, s2, s3, z
<1>5. Resembles(s1.enc, e) /\ s1.enc \in Encoders /\ s1.items \in Seq(Items)
      /\ Len(s1.items) = (IF speech1 THEN 1 ELSE 2)
      /\ s1.items[1].kind = "predictors"
      /\ (~speech1 => s1.items[2].kind = "mid only" /\ s1.items[2].set = absent)
  BY <1>4, Zenon DEF StereoHead, Resembles
<1>15. /\ s1.enc.ch[0].mem = e.ch[0].mem
       /\ ~absent => s1.enc.ch[1].mem = IF e.midOnly THEN 0 ELSE e.ch[1].mem
  BY <1>4, Zenon DEF StereoHead
<1>6. EncShape(s1.enc, 0) = shape
  BY <1>1, <1>5, Zenon DEF Resembles, EncShape
<1>7. FrameAdded(s1, s2, 0, speech0, shape)
  BY <1>1, <1>2, <1>5, <1>6, StereoFrameWritten, ZenonT(60) DEF s2
<1>8. Resembles(s2.enc, e)
  BY <1>1, <1>5, <1>7, FrameAddedResembles, Zenon
<1>9. /\ s2.enc \in Encoders /\ s2.items \in Seq(Items) /\ Len(s2.items) = Len(s1.items) + 1
      /\ Longer(s1.items, s2.items)
      /\ StereoFrame(s2.items[Len(s1.items) + 1], 0, speech0, shape)
  BY <1>7, Zenon DEF FrameAdded
<1>16. /\ s2.items[Len(s1.items) + 1].mem = e.ch[0].mem
       /\ s2.enc.ch[0].mem = s2.items[Len(s1.items) + 1].name
       /\ s2.enc.ch[1] = s1.enc.ch[1]
  <2>1. 1 \in {0, 1} /\ 1 # 0
    BY SMT
  <2>2. QED
    BY <1>7, <1>15, <2>1, Zenon DEF FrameAdded
<1>10. Len(s1.items) = one + 1 /\ one \in {0, 1} /\ one + 1 + 1 = one + 2 /\ one + 2 + 1 = one + 3
       /\ 1 \in 1..Len(s1.items) /\ (~speech1 => one = 1 /\ 2 \in 1..Len(s1.items))
       /\ (one = 1 => ~speech1)
  <2>1. Len(s1.items) = (IF speech1 THEN 1 ELSE 2)
    BY <1>5
  <2>2. QED
    BY ONLY <2>1, SMT
<1>11. /\ s2.items[1].kind = "predictors"
       /\ (~speech1 => s2.items[2].kind = "mid only" /\ s2.items[2].set = absent)
       /\ StereoFrame(s2.items[one + 2], 0, speech0, shape)
       /\ Len(s2.items) = one + 2
  <2>1. s2.items[1] = s1.items[1] /\ (~speech1 => s2.items[2] = s1.items[2])
    BY <1>9, <1>10, Zenon DEF Longer
  <2> HIDE DEF one
  <2>2. QED
    BY <1>5, <1>9, <1>10, <2>1, Zenon
<1>17. s2.items[one + 2].mem = e.ch[0].mem /\ s2.enc.ch[0].mem = s2.items[one + 2].name
       /\ one = IF speech1 THEN 0 ELSE 1
  <2>1. one = IF speech1 THEN 0 ELSE 1
    OBVIOUS
  <2> HIDE DEF one
  <2>2. Len(s1.items) + 1 = one + 2
    BY <1>10
  <2>3. QED
    BY <1>16, <2>1, <2>2
<1> HIDE DEF one
<1>12. CASE absent
  <2>1. s3 = s2
    BY <1>1, <1>12, Zenon DEF s3, WriteFrame
  <2>2. StereoItemsStand(s3.items, speech0, speech1, absent, shape)
    BY <1>9, <1>10, <1>11, <1>12, <2>1, Zenon DEF StereoItemsStand, one
  <2>3. Resembles(s3.enc, e)
    BY <1>8, <2>1
  <2>4. QED
    <3>1. /\ w \in Encoders /\ w.ch = s3.enc.ch /\ Silent(s3.enc)
          /\ w.midOnly = absent /\ w.chans = s3.enc.chans
      <4>1. s3.enc \in Encoders /\ Silent(s3.enc)
        BY <2>3, Zenon DEF Resembles
      <4>2. w \in Encoders
        BY <4>1, Zenon DEF Encoders
      <4>3. QED
        BY <4>1, <4>2, Zenon DEF Encoders
    <3> HIDE DEF w
    <3>2. Silent(w)
      BY <3>1, Zenon DEF Silent
    <3>3. z.enc = w /\ z.items = s3.items
      <4>1. s3 = [enc |-> s3.enc, items |-> s3.items]
        BY <1>7, <2>1, Zenon DEF FrameAdded
      <4>2. QED
        BY <1>3, <4>1, Zenon
    <3>5. StereoMemory(w, s3.items, e, fs, one, absent)
      <4>1. s3.enc.chans = 2 /\ s3.enc.ch[0].fs = fs
        BY <1>1, <2>3, Zenon DEF Resembles
      <4>2. QED
        BY <1>12, <1>17, <2>1, <3>1, <4>1, Zenon DEF StereoMemory
    <3>4. QED
      BY <1>17, <2>2, <3>1, <3>2, <3>3, <3>5 DEF z, SlotOutcome
<1>13. CASE ~absent
  <2>1. EncShape(s2.enc, 1) = shape
    BY <1>1, <1>8, Zenon DEF Resembles, EncShape
  <2>2. TypeOf(pick, 1) \in Kinds /\ (speech1 <=> TypeOf(pick, 1) # "inactive")
    BY <1>1, <1>13, Zenon
  <2>3. FrameAdded(s2, s3, 1, speech1, shape)
    BY <1>1, <1>2, <1>9, <2>1, <2>2, StereoFrameWritten, Zenon DEF s3
  <2>4. Resembles(s3.enc, e)
    BY <1>1, <1>8, <2>3, FrameAddedResembles, Zenon
  <2>5. /\ s3.enc \in Encoders /\ s3.items \in Seq(Items) /\ Len(s3.items) = Len(s2.items) + 1
        /\ Longer(s2.items, s3.items)
        /\ StereoFrame(s3.items[Len(s2.items) + 1], 1, speech1, shape)
    BY <2>3, Zenon DEF FrameAdded
  <2>6. 1 \in 1..Len(s2.items) /\ 2 \in 1..Len(s2.items) /\ one + 2 \in 1..Len(s2.items)
    <3>1. Len(s2.items) = one + 2 /\ one \in {0, 1}
      BY <1>10, <1>11
    <3>2. QED
      BY ONLY <3>1, SMT
  <2>7. s3.items[1] = s2.items[1] /\ s3.items[2] = s2.items[2] /\ s3.items[one + 2] = s2.items[one + 2]
    BY <2>5, <2>6, Zenon DEF Longer
  <2>8. Len(s3.items) = one + 3
    BY <1>10, <1>11, <2>5, Zenon
  <2>9. StereoItemsStand(s3.items, speech0, speech1, absent, shape)
    <3>1. StereoFrame(s3.items[one + 3], 1, speech1, shape)
      BY <1>10, <1>11, <2>5, Zenon
    <3>2. QED
      BY <1>10, <1>11, <1>13, <2>5, <2>7, <2>8, <3>1, Zenon DEF StereoItemsStand, one
  <2>10. QED
    <3>1. /\ w \in Encoders /\ w.ch = s3.enc.ch /\ Silent(s3.enc)
          /\ w.midOnly = absent /\ w.chans = s3.enc.chans
      <4>1. s3.enc \in Encoders /\ Silent(s3.enc)
        BY <2>4, Zenon DEF Resembles
      <4>2. w \in Encoders
        BY <4>1, Zenon DEF Encoders
      <4>3. QED
        BY <4>1, <4>2, Zenon DEF Encoders
    <3> HIDE DEF w
    <3>2. Silent(w)
      BY <3>1, Zenon DEF Silent
    <3>3. z.enc = w /\ z.items = s3.items
      <4>1. s3 = [enc |-> s3.enc, items |-> s3.items]
        BY <2>3, Zenon DEF FrameAdded
      <4>2. QED
        BY <1>3, <4>1, Zenon
    <3>5. StereoMemory(w, s3.items, e, fs, one, absent)
      <4>1. s3.enc.chans = 2 /\ s3.enc.ch[0].fs = fs /\ s3.enc.ch[1].fs = fs
        BY <1>1, <2>4, Zenon DEF Resembles
      <4>2. /\ s3.items[Len(s2.items) + 1].mem = s2.enc.ch[1].mem
            /\ s3.enc.ch[1].mem = s3.items[Len(s2.items) + 1].name
            /\ s3.enc.ch[0] = s2.enc.ch[0]
        BY <1>1, <2>3, Zenon DEF FrameAdded
      <4>3. Len(s2.items) + 1 = one + 3
        BY <1>10, <1>11
      <4>4. s3.items[one + 3].mem = (IF e.midOnly THEN 0 ELSE e.ch[1].mem)
            /\ s3.enc.ch[1].mem = s3.items[one + 3].name
        BY <1>13, <1>15, <1>16, <4>2, <4>3, Zenon
      <4>5. s3.items[one + 2].mem = e.ch[0].mem /\ s3.enc.ch[0].mem = s3.items[one + 2].name
        BY <1>17, <2>7, <4>2, Zenon
      <4>6. QED
        BY <3>1, <4>1, <4>4, <4>5, Zenon DEF StereoMemory
    <3>4. QED
      BY <1>17, <2>9, <3>1, <3>2, <3>3, <3>5 DEF z, SlotOutcome
<1>14. QED
  BY <1>12, <1>13

(* A whole stereo packet.                                                  *)
LEMMA EncodedStereo ==
  ASSUME NEW e \in Encoders, Silent(e), NEW ms \in {10, 20}, NEW fs \in Rates, NEW number \in Nat,
         NEW picks, picks[1].mid \in Kinds, picks[1].side \in Kinds \cup {"absent"}
  PROVE  /\ StereoOutcome(Encoded(e, 2, ms, fs, picks, FALSE, number + 1), ms, fs, number)
         /\ StereoPredicted(Encoded(e, 2, ms, fs, picks, FALSE, number + 1).enc,
                            Encoded(e, 2, ms, fs, picks, FALSE, number + 1).packet,
                            StartMem(e, 2, 0, fs), StartSide(e, fs))
<1> DEFINE v == Widened(e, 2)
           r == Controlled(v, 2, ms, fs)
           F == FramesPerPacket(ms)
           pick == picks[1]
           vad == [c \in {0, 1} |-> {f \in 0..(F - 1) :
                     /\ c < 2
                     /\ TypeOf(picks[f + 1], c) \notin {"inactive", "absent"}}]
           lbrr == [c \in {0, 1} |-> c < 2 /\ r.ch[c].lbrr # {}]
           s0 == WriteLbrr(r, 2, F)
           s == WriteSlot(s0, 0, pick, 2, FALSE, number + 1)
           z == Encoded(e, 2, ms, fs, picks, FALSE, number + 1)
           p == [chans |-> 2, ms |-> ms, fs |-> fs, number |-> number + 1, items |-> s.items,
                 vad |-> vad, lbrr |-> lbrr]
           shape == <<Subframes(ms), fs>>
           speech0 == 0 \in vad[0]
           speech1 == 0 \in vad[1]
           absent == pick.side = "absent"
<1>1. F = 1 /\ ms \in Lengths
  BY SMT DEF FramesPerPacket, Lengths
<1>2. z = [enc |-> s.enc, packet |-> p]
  <2> DEFINE x == EachFrame(LAMBDA a, f : WriteSlot(a, f, picks[f + 1], 2, FALSE, number + 1), s0, F)
  <2>1. z = [enc |-> x.enc,
             packet |-> [chans |-> 2, ms |-> ms, fs |-> fs, number |-> number + 1, items |-> x.items,
                         vad |-> vad, lbrr |-> lbrr]]
    BY DEF Encoded
  <2>2. x = WriteSlot(s0, 0, picks[0 + 1], 2, FALSE, number + 1)
    <3> HIDE DEF F, s0
    <3>1. QED
      BY <1>1, Zenon DEF EachFrame
  <2>3. 0 + 1 = 1
    BY SMT
  <2>4. x = s
    BY <2>2, <2>3
  <2> HIDE DEF z, x, vad, lbrr, s
  <2>5. QED
    BY <2>1, <2>4, Zenon
<1>3. /\ v \in Encoders /\ Silent(v) /\ v.ch[0] = e.ch[0]
      /\ 2 > e.chans => v.ch[1] = EncChannelFresh
      /\ ~(2 > e.chans) => v = e
  <2>1. 2 \in {1, 2}
    BY SMT
  <2>2. QED
    BY <2>1, WidenedLemma, Zenon
<1>21. 2 > e.chans => v.midOnly = FALSE
  <2> DEFINE u == With(e, 1, EncChannelFresh)
             t == [u EXCEPT !.midOnly = FALSE]
  <2>1. 1 \in {0, 1}
    BY SMT
  <2>2. u \in Encoders
    BY <2>1, FreshEncChannel, EncoderWith, Zenon
  <2>3. 2 > e.chans => v = t
    BY Zenon DEF Widened, Side
  <2> HIDE DEF u, v
  <2>4. t.midOnly = FALSE
    BY <2>2, Zenon DEF Encoders
  <2>5. QED
    BY <2>3, <2>4
<1> HIDE DEF v, s0, s, z
<1>4. /\ r \in Encoders /\ r.chans = 2 /\ r.ms = ms
      /\ \A c \in {0, 1} : r.ch[c].fs = fs /\ r.ch[c].lbrr = {}
      /\ r.midOnly = v.midOnly
      /\ \A c \in {0, 1} : r.ch[c].mem = IF v.ch[c].fs = fs THEN v.ch[c].mem ELSE 0
  <2>1. 2 \in {1, 2} /\ \A c \in {0, 1} : c < 2
    BY SMT
  <2> HIDE DEF r
  <2>2. ReadyEncoder(v, r, 2, ms, fs)
    BY <1>1, <1>3, <2>1, ControlledLemma, Zenon DEF r
  <2>3. \A c \in {0, 1} : ReadyChannel(v.ch[c], r.ch[c], fs, ms # v.ms \/ 2 # v.chans)
    BY <2>1, <2>2, Zenon DEF ReadyEncoder
  <2>4. \A c \in {0, 1} : r.ch[c].fs = fs /\ r.ch[c].lbrr \subseteq v.ch[c].lbrr
                          /\ r.ch[c].mem = IF v.ch[c].fs = fs THEN v.ch[c].mem ELSE 0
    BY <2>3, Zenon DEF ReadyChannel
  <2>5. \A c \in {0, 1} : v.ch[c].lbrr = {}
    BY <1>3, Zenon DEF Silent
  <2>6. \A c \in {0, 1} : r.ch[c].lbrr = {}
    BY <2>4, <2>5, Zenon
  <2>7. QED
    BY <2>2, <2>4, <2>6, Zenon DEF ReadyEncoder
<1> HIDE DEF r
<1>22. r.ch[0].mem = StartMem(e, 2, 0, fs)
  <2>1. 0 \in {0, 1} /\ 0 # 1
    BY SMT
  <2>2. r.ch[0].mem = IF e.ch[0].fs = fs THEN e.ch[0].mem ELSE 0
    BY <1>3, <1>4, <2>1, Zenon
  <2>3. QED
    BY <2>1, <2>2, Zenon DEF StartMem
<1>23. (IF r.midOnly THEN 0 ELSE r.ch[1].mem) = StartSide(e, fs)
  <2>1. 1 \in {0, 1} /\ 1 = 1
    BY SMT
  <2>2. r.ch[1].mem = IF v.ch[1].fs = fs THEN v.ch[1].mem ELSE 0
    BY <1>4, <2>1, Zenon
  <2>3. CASE 2 > e.chans
    <3>1. EncChannelFresh.mem = 0
      BY Zenon DEF EncChannelFresh
    <3>2. r.ch[1].mem = 0
      BY <1>3, <2>2, <2>3, <3>1, Zenon
    <3>3. QED
      BY <2>3, <3>2, Zenon DEF StartSide, StartMem
  <2>4. CASE ~(2 > e.chans)
    BY <1>3, <1>4, <2>2, <2>4, Zenon DEF StartSide, StartMem
  <2>5. QED
    BY <2>3, <2>4
<1>5. Resembles(s0.enc, r) /\ SameMemory(s0.enc, r) /\ s0.items = <<>>
  <2>1. Silent(r)
    BY <1>4, Zenon DEF Silent
  <2>2. Resembles(WriteLbrr(r, 2, 1).enc, r) /\ SameMemory(WriteLbrr(r, 2, 1).enc, r) /\ WriteLbrr(r, 2, 1).items = <<>>
    BY <1>4, <2>1, NoLbrrWritten, Zenon
  <2>3. QED
    BY <1>1, <2>2 DEF s0
<1>6. TypeOf(pick, 0) = pick.mid /\ TypeOf(pick, 1) = pick.side /\ pick.mid # "absent"
      /\ 0 + 1 = 1 /\ 0 < 2 /\ 1 < 2 /\ 0 \in {0, 1} /\ 1 \in {0, 1} /\ 0..(1 - 1) = {0}
  BY SMT DEF TypeOf, Side, Kinds
<1>7. \A c \in {0, 1} : (0 \in vad[c]) <=> TypeOf(pick, c) \notin {"inactive", "absent"}
  <2> TAKE c \in {0, 1}
  <2>1. c < 2
    BY SMT
  <2>2. vad[c] = {f \in 0..(F - 1) : c < 2 /\ TypeOf(picks[f + 1], c) \notin {"inactive", "absent"}}
    BY Zenon
  <2> HIDE DEF vad, F
  <2>3. 0 \in 0..(F - 1)
    BY <1>1, SMT
  <2>4. QED
    BY <1>6, <2>1, <2>2, <2>3, Zenon
<1>8. \A c \in {0, 1} : vad[c] \in SUBSET (0..2)
  <2> TAKE c \in {0, 1}
  <2>1. vad[c] \subseteq 0..(F - 1)
    BY Zenon
  <2> HIDE DEF vad, F
  <2>2. 0..(F - 1) \subseteq 0..2
    BY <1>1, SMT
  <2>3. QED
    BY <2>1, <2>2, Zenon
<1>9. vad \in [{0, 1} -> SUBSET (0..2)]
  <2>1. vad = [c \in {0, 1} |-> vad[c]]
    BY Zenon
  <2> HIDE DEF vad
  <2>2. QED
    BY <1>8, <2>1, SMT
<1>10. lbrr = [c \in {0, 1} |-> FALSE] /\ lbrr \in [{0, 1} -> BOOLEAN]
  <2> DEFINE f(c) == c < 2 /\ r.ch[c].lbrr # {}
  <2>1. \A c \in {0, 1} : f(c) = FALSE
    BY <1>4, Zenon
  <2>2. lbrr = [c \in {0, 1} |-> f(c)]
    OBVIOUS
  <2> HIDE DEF f, lbrr
  <2>3. lbrr = [c \in {0, 1} |-> FALSE]
    BY <2>1, <2>2, Zenon
  <2>4. [c \in {0, 1} |-> FALSE] \in [{0, 1} -> BOOLEAN]
    BY SMT
  <2>5. QED
    BY <2>3, <2>4
<1>11. /\ speech0 \in BOOLEAN /\ (speech0 <=> pick.mid # "inactive")
       /\ speech1 \in BOOLEAN /\ (speech1 <=> (pick.side # "absent" /\ pick.side # "inactive"))
       /\ absent \in BOOLEAN /\ (absent <=> pick.side = "absent")
  <2>1. speech0 \in BOOLEAN /\ speech1 \in BOOLEAN /\ absent \in BOOLEAN
    <3> HIDE DEF vad, pick
    <3>1. QED
      BY SMT
  <2>2. speech0 <=> TypeOf(pick, 0) \notin {"inactive", "absent"}
    BY <1>6, <1>7, Zenon
  <2>3. speech1 <=> TypeOf(pick, 1) \notin {"inactive", "absent"}
    BY <1>6, <1>7, Zenon
  <2> HIDE DEF vad, speech0, speech1
  <2>4. QED
    BY <1>6, <2>1, <2>2, <2>3, Zenon
<1> HIDE DEF F, pick, lbrr, shape, speech0, speech1, absent
<1>12. /\ s.enc \in Encoders /\ Silent(s.enc)
       /\ StereoItemsStand(s.items, speech0, speech1, absent, shape)
       /\ StereoMemory(s.enc, s.items, r, fs, IF speech1 THEN 0 ELSE 1, absent)
  <2>1. /\ r.ch[0].fs = fs /\ r.ch[1].fs = fs /\ r.ms \in {10, 20}
        /\ number + 1 \in Nat /\ shape = <<Subframes(r.ms), fs>>
        /\ pick.mid \in Kinds /\ pick.side \in Kinds \cup {"absent"}
    BY <1>4, <1>6, SMT DEF shape, pick
  <2>2. r.chans = 2
    BY <1>4
  <2>3. SlotOutcome(WriteSlot(s0, 0, pick, 2, FALSE, number + 1), r, fs, speech0, speech1, absent, shape)
    <3>1. r \in Encoders /\ fs \in Rates
      BY <1>4
    <3>2. QED
      <4>1. SlotReady(r, fs, s0, pick, speech0, speech1, absent, shape)
        BY ONLY <1>5, <1>11, <2>1, <2>2, <3>1, Zenon DEF SlotReady
      <4>2. number + 1 \in Nat
        BY <2>1
      <4>3. QED
        BY <4>1, <4>2, StereoSlotWritten, Zenon
  <2>4. QED
    BY <2>3 DEF s, SlotOutcome
<1> HIDE DEF vad
<1>13. s.items \in Seq(Items)
  BY <1>12, Zenon DEF StereoItemsStand
<1>14. p \in Packets /\ p.number = number + 1 /\ p.chans = 2 /\ p.ms = ms /\ p.fs = fs
       /\ p.items = s.items /\ p.vad = vad /\ p.lbrr = lbrr
  <2>1. 2 \in {0, 1, 2} /\ number + 1 \in Nat
    BY SMT
  <2>2. p \in Packets
    BY <1>1, <1>9, <1>10, <1>13, <2>1, Zenon DEF Packets
  <2>3. QED
    BY <2>2, Zenon
<1> HIDE DEF p
<1> DEFINE one == IF speech1 THEN 0 ELSE 1
           only == one = 1 /\ p.items[2].set
<1>15. /\ Len(s.items) = one + (IF absent THEN 2 ELSE 3)
       /\ s.items[1].kind = "predictors"
       /\ (one = 1 => s.items[2].kind = "mid only" /\ s.items[2].set = absent)
       /\ StereoFrame(s.items[one + 2], 0, speech0, shape)
       /\ (~absent => StereoFrame(s.items[one + 3], 1, speech1, shape))
  BY <1>12, Zenon DEF StereoItemsStand
<1>16. only <=> absent
  <2>1. 0 # 1 /\ (absent => ~speech1)
    BY <1>11, SMT
  <2>2. one = 1 <=> ~speech1
    BY <2>1, Zenon
  <2> HIDE DEF one
  <2>3. QED
    BY <1>14, <1>15, <2>1, <2>2, Zenon
<1>24. /\ s.enc.midOnly = absent /\ s.enc.chans = 2
       /\ s.items[one + 2].mem = r.ch[0].mem
       /\ s.enc.ch[0].mem = s.items[one + 2].name /\ s.enc.ch[0].fs = fs
       /\ ~absent => /\ s.items[one + 3].mem = IF r.midOnly THEN 0 ELSE r.ch[1].mem
                     /\ s.enc.ch[1].mem = s.items[one + 3].name /\ s.enc.ch[1].fs = fs
  BY <1>12, Zenon DEF StereoMemory
<1> HIDE DEF one, only
<1>25. FirstItem(p) = one /\ MidAlone(p) = only
  <2>1. FirstItem(p) = one
    BY <1>14, Zenon DEF FirstItem, one, speech1
  <2>2. QED
    BY <2>1 DEF MidAlone, only
<1>26. StereoPredicted(s.enc, p, StartMem(e, 2, 0, fs), StartSide(e, fs))
  <2>1. /\ s.enc.midOnly <=> only
        /\ p.items[one + 2].mem = StartMem(e, 2, 0, fs)
        /\ ~only => p.items[one + 3].mem = StartSide(e, fs)
    BY <1>14, <1>16, <1>22, <1>23, <1>24, Zenon
  <2>2. QED
    BY <1>14, <1>16, <1>24, <1>25, <2>1, Zenon DEF StereoPredicted
<1>17. StereoPacket(p)
  <2>1. (IF only THEN 2 ELSE 3) = (IF absent THEN 2 ELSE 3)
    BY <1>16, Zenon
  <2>2. /\ p.ms \in {10, 20}
        /\ p.lbrr = [c \in {0, 1} |-> FALSE]
        /\ Len(p.items) = one + (IF only THEN 2 ELSE 3)
        /\ p.items[1].kind = "predictors"
        /\ (one = 1 => p.items[2].kind = "mid only")
        /\ StereoFrame(p.items[one + 2], 0, speech0, shape)
        /\ (~only => StereoFrame(p.items[one + 3], 1, speech1, shape))
    BY <1>10, <1>14, <1>15, <1>16, <2>1, Zenon
  <2>3. QED
    BY <1>14, <2>2, Zenon DEF StereoPacket, one, only, speech0, speech1, shape
<1>18. z.enc = s.enc /\ z.packet = p
  BY <1>2, Zenon DEF p
<1>19. StereoOutcome(z, ms, fs, number)
  BY <1>12, <1>14, <1>17, <1>18, Zenon DEF StereoOutcome
<1>20. QED
  BY <1>18, <1>19, <1>26 DEF z

(* Channels with frames of one size, and as many to a packet.              *)
SameSize(a, b) == a.frames = b.frames /\ a.sub = b.sub /\ a.fs = b.fs

(* The channels of a stereo decoder stand at one frame, of one size.       *)
Together(d) == d.chans = 2 => SameSize(d.ch[0], d.ch[1]) /\ d.ch[0].n = d.ch[1].n

(* The read x is r with channel c one frame on.                            *)
MovedOn(r, x, c) ==
  /\ x \in Reads /\ x.ok = r.ok /\ x.pos = r.pos /\ x.heard = r.heard
  /\ x.dec.chans = r.dec.chans /\ x.dec.midOnly = r.dec.midOnly
  /\ x.dec.ch[c].n = r.dec.ch[c].n + 1 /\ SameSize(x.dec.ch[c], r.dec.ch[c])
  /\ \A k \in {0, 1} : k # c => x.dec.ch[k] = r.dec.ch[k]

(* Another state of one channel moves the reader on by a frame of it.      *)
LEMMA ChannelMoved ==
  ASSUME NEW r \in Reads, NEW c \in {0, 1}, NEW ch \in DecChannels, ch.n = r.dec.ch[c].n + 1,
         SameSize(ch, r.dec.ch[c])
  PROVE  MovedOn(r, [r EXCEPT !.dec = With(r.dec, c, ch)], c)
<1> DEFINE w == With(r.dec, c, ch)
           x == [r EXCEPT !.dec = w]
<1>1. r.dec \in Decoders
  BY Zenon DEF Reads
<1>2. /\ w \in Decoders /\ w.chans = r.dec.chans /\ w.midOnly = r.dec.midOnly /\ w.ch[c] = ch
      /\ \A k \in {0, 1} : k # c => w.ch[k] = r.dec.ch[k]
  BY <1>1, DecoderWith, SMT
<1> HIDE DEF w
<1>3. x \in Reads
  BY <1>2, Zenon DEF Reads
<1>4. x.dec = w /\ x.ok = r.ok /\ x.pos = r.pos /\ x.heard = r.heard
  BY Zenon DEF Reads
<1> HIDE DEF x
<1>5. MovedOn(r, x, c)
  BY <1>2, <1>3, <1>4, Zenon DEF MovedOn
<1>6. QED
  BY <1>5 DEF x, w

(* Two channels that were together are so when both have moved on.         *)
LEMMA BothMoved ==
  ASSUME NEW r, NEW m, NEW x, MovedOn(r, m, 0), MovedOn(m, x, 1), Together(r.dec)
  PROVE  Together(x.dec)
<1>1. 0 \in {0, 1} /\ 1 \in {0, 1} /\ 0 # 1 /\ 1 # 0
  BY SMT
<1>2. /\ x.dec.chans = r.dec.chans
      /\ x.dec.ch[0].n = r.dec.ch[0].n + 1 /\ SameSize(x.dec.ch[0], r.dec.ch[0])
      /\ x.dec.ch[1].n = r.dec.ch[1].n + 1 /\ SameSize(x.dec.ch[1], r.dec.ch[1])
  BY <1>1, Zenon DEF MovedOn
<1>3. QED
  BY <1>2, Zenon DEF Together, SameSize

(* A concealed frame does.                                                 *)
LEMMA ConcealsChannel ==
  ASSUME NEW r \in Reads, NEW c \in {0, 1}, r.dec.ch[c].n \in 0..2
  PROVE  MovedOn(r, ConcealChannel(r, c), c)
<1> DEFINE old == r.dec.ch[c]
           ch == [old EXCEPT !.n = old.n + 1, !.mem = Concealed, !.lost = TRUE]
<1>1. old \in DecChannels
  BY SMT DEF Reads, Decoders
<1>2. old.n + 1 \in 0..3 /\ Concealed \in Nat /\ TRUE \in BOOLEAN
  BY SMT DEF Concealed
<1>3. ConcealChannel(r, c) = [r EXCEPT !.dec = With(r.dec, c, ch)]
  BY Zenon DEF ConcealChannel
<1> HIDE DEF old
<1>4. ch \in DecChannels
  BY <1>1, <1>2, Zenon DEF DecChannels
<1>5. ch.n = old.n + 1 /\ SameSize(ch, old)
  BY <1>1, Zenon DEF DecChannels, SameSize
<1> HIDE DEF ch
<1>6. MovedOn(r, [r EXCEPT !.dec = With(r.dec, c, ch)], c)
  BY <1>4, <1>5, ChannelMoved, Zenon DEF old
<1>7. QED
  BY <1>3, <1>6

(* A side frame that is left out does.                                     *)
LEMMA PassesSide ==
  ASSUME NEW r \in Reads, r.dec.ch[1].n \in 0..2
  PROVE  MovedOn(r, PassSide(r), 1)
<1> DEFINE old == r.dec.ch[1]
           ch == [old EXCEPT !.n = old.n + 1]
<1>1. old \in DecChannels
  BY SMT DEF Reads, Decoders
<1>2. old.n + 1 \in 0..3 /\ 1 \in {0, 1}
  BY SMT
<1>3. PassSide(r) = [r EXCEPT !.dec = With(r.dec, 1, ch)]
  BY Zenon DEF PassSide, Side
<1> HIDE DEF old
<1>4. ch \in DecChannels
  BY <1>1, <1>2, Zenon DEF DecChannels
<1>5. ch.n = old.n + 1 /\ SameSize(ch, old)
  BY <1>1, Zenon DEF DecChannels, SameSize
<1> HIDE DEF ch
<1>6. MovedOn(r, [r EXCEPT !.dec = With(r.dec, 1, ch)], 1)
  BY <1>2, <1>4, <1>5, ChannelMoved, Zenon DEF old
<1>7. QED
  BY <1>3, <1>6

(* The decoder before the first frame of a packet, its flags read.         *)
BeforeFrame(r, d, chans) ==
  /\ r \in Reads /\ r.ok /\ r.heard = {}
  /\ r.dec.chans = chans /\ r.dec.midOnly = d.midOnly /\ Together(r.dec)
  /\ \A c \in {0, 1} : c < chans => r.dec.ch[c].n = 0

(* One call of silk_decode, from the decoder r1 before its first frame.    *)
CallFrom(d, fl, p, r1) ==
  LET stereo == ReadStereo(r1, p, fl)
      back == p.chans = 2 /\ ~stereo.only /\ d.midOnly
      side == [stereo.r.dec.ch[Side] EXCEPT !.mem = 0, !.type = "inactive"]
      r2 == IF back THEN [stereo.r EXCEPT !.dec = With(@, Side, side)] ELSE stereo.r
      mid == DecodeChannel(r2, p, fl, 0)
      both == IF p.chans = 1 \/ ~mid.ok THEN mid
              ELSE IF HasSide(r2, fl, p.chans, stereo.only)
                THEN DecodeChannel(mid, p, fl, Side)
              ELSE PassSide(mid)
  IN  IF fl = "loss" THEN both ELSE [both EXCEPT !.dec = [@ EXCEPT !.midOnly = stereo.only]]

(* A call, by the reader that begins it.                                   *)
LEMMA DecodedIs ==
  ASSUME NEW d, NEW fl, NEW new, NEW p, NEW at, NEW ready, NEW r1,
         ready = DecPrepared(d, new, p.chans, p.ms, p.fs),
         r1 = IF fl # "loss" /\ ready.ch[0].n = 0
                THEN ReadHeader([dec |-> ready, pos |-> at, ok |-> TRUE, heard |-> {}], p, fl)
                ELSE [dec |-> ready, pos |-> at, ok |-> TRUE, heard |-> {}]
  PROVE  Decoded(d, fl, new, p, at) = CallFrom(d, fl, p, r1)
<1>1. Decoded(d, fl, new, p, at)
        = CallFrom(d, fl, p, LET rdy == DecPrepared(d, new, p.chans, p.ms, p.fs)
                                 r0 == [dec |-> rdy, pos |-> at, ok |-> TRUE, heard |-> {}]
                             IN  IF fl # "loss" /\ rdy.ch[0].n = 0 THEN ReadHeader(r0, p, fl) ELSE r0)
  BY Zenon DEF Decoded, CallFrom
<1>2. QED
  BY <1>1, Zenon

(* The read x is r, nothing of the packet read or heard.                   *)
Unheard(x, r) ==
  x \in Reads /\ x.ok /\ x.heard = {} /\ x.pos = r.pos /\ Together(x.dec)

(* Another midOnly is all that changes then.                               *)
LEMMA MidOnlySet ==
  ASSUME NEW r \in Reads, NEW b \in BOOLEAN
  PROVE  LET x == [r EXCEPT !.dec = [@ EXCEPT !.midOnly = b]]
         IN  /\ x \in Reads /\ x.ok = r.ok /\ x.heard = r.heard /\ x.pos = r.pos
             /\ x.dec.ch = r.dec.ch /\ x.dec.chans = r.dec.chans /\ x.dec.midOnly = b
<1> DEFINE w == [r.dec EXCEPT !.midOnly = b]
           x == [r EXCEPT !.dec = w]
<1>1. r.dec \in Decoders
  BY Zenon DEF Reads
<1>2. w \in Decoders /\ w.ch = r.dec.ch /\ w.chans = r.dec.chans /\ w.midOnly = b
  <2>1. w \in Decoders
    BY <1>1, Zenon DEF Decoders
  <2>2. QED
    BY <1>1, <2>1, Zenon DEF Decoders
<1> HIDE DEF w
<1>3. x \in Reads
  BY <1>2, Zenon DEF Reads
<1>4. x.dec = w /\ x.ok = r.ok /\ x.heard = r.heard /\ x.pos = r.pos
  BY Zenon DEF Reads
<1> HIDE DEF x
<1>5. /\ x \in Reads /\ x.ok = r.ok /\ x.heard = r.heard /\ x.pos = r.pos
      /\ x.dec.ch = r.dec.ch /\ x.dec.chans = r.dec.chans /\ x.dec.midOnly = b
  BY <1>2, <1>3, <1>4, Zenon
<1>6. QED
  BY <1>5, Zenon DEF x, w

(* A channel of which nothing is coded is concealed.                       *)
NotCoded(r, fl, c) == fl = "loss" \/ (fl = "lbrr" /\ r.dec.ch[c].n \notin r.dec.ch[c].lbrr)

(* Nothing is coded of any channel of the packet.                          *)
NoneCoded(r, fl, chans) == \A c \in {0, 1} : c < chans => NotCoded(r, fl, c)

(* Such a channel is concealed, whatever the packet.                       *)
LEMMA ConcealedAlone ==
  ASSUME NEW r \in Reads, r.ok, NEW p, NEW fl, NEW c \in {0, 1}, NotCoded(r, fl, c)
  PROVE  DecodeChannel(r, p, fl, c) = ConcealChannel(r, c)
<1> DEFINE n == r.dec.ch[c].n
           lbrr == r.dec.ch[c].lbrr
           coded == fl = "normal" \/ (fl = "lbrr" /\ n \in lbrr)
<1>1. ~coded
  <2>1. fl = "loss" => fl # "lbrr" /\ fl # "normal"
    BY SMT
  <2>2. fl = "lbrr" => fl # "normal"
    BY SMT
  <2>3. QED
    BY <2>1, <2>2, Zenon DEF NotCoded
<1>2. QED
  BY <1>1, DecodeChannelIs, ZenonT(60)

(* A call of which nothing is coded conceals all channels and hears        *)
(* nothing.                                                                *)
LEMMA NotCodedCall ==
  ASSUME NEW d, NEW fl \in {"loss", "lbrr"}, NEW p, p.chans \in {1, 2}, NEW r1,
         BeforeFrame(r1, d, p.chans), NoneCoded(r1, fl, p.chans)
  PROVE  Unheard(CallFrom(d, fl, p, r1), r1)
<1> DEFINE stereo == ReadStereo(r1, p, fl)
           back == p.chans = 2 /\ ~stereo.only /\ d.midOnly
           side == [stereo.r.dec.ch[Side] EXCEPT !.mem = 0, !.type = "inactive"]
           r2 == IF back THEN [stereo.r EXCEPT !.dec = With(@, Side, side)] ELSE stereo.r
           mid == DecodeChannel(r2, p, fl, 0)
           both == IF p.chans = 1 \/ ~mid.ok THEN mid
                   ELSE IF HasSide(r2, fl, p.chans, stereo.only)
                     THEN DecodeChannel(mid, p, fl, Side)
                   ELSE PassSide(mid)
           x == CallFrom(d, fl, p, r1)
<1>1. x = IF fl = "loss" THEN both ELSE [both EXCEPT !.dec = [@ EXCEPT !.midOnly = stereo.only]]
  BY Zenon DEF CallFrom
<1>2. /\ r1 \in Reads /\ r1.ok /\ r1.heard = {}
      /\ r1.dec.chans = p.chans /\ r1.dec.midOnly = d.midOnly /\ Together(r1.dec)
      /\ \A c \in {0, 1} : c < p.chans => r1.dec.ch[c].n = 0
  BY Zenon DEF BeforeFrame
<1>0. \A c \in {0, 1} : c < p.chans => NotCoded(r1, fl, c)
  BY Zenon DEF NoneCoded
<1>3. /\ 0 \in {0, 1} /\ 1 \in {0, 1} /\ 0 < p.chans /\ (p.chans # 1 => 1 < p.chans)
      /\ 0 \in 0..2 /\ (p.chans = 1 => p.chans # 2) /\ 1 # 0 /\ Side = 1
  BY SMT DEF Side
<1>4. r1.dec \in Decoders /\ r1.dec.midOnly \in BOOLEAN
  <2>1. r1.dec \in Decoders
    BY <1>2, Zenon DEF Reads
  <2>2. QED
    BY <2>1, SMT DEF Decoders
<1>5. stereo = IF p.chans = 1 THEN [r |-> r1, only |-> FALSE] ELSE [r |-> r1, only |-> r1.dec.midOnly]
  <2>1. NotCoded(r1, fl, 0)
    BY <1>0, <1>3
  <2> DEFINE coded == fl = "normal" \/ (fl = "lbrr" /\ r1.dec.ch[0].n \in r1.dec.ch[0].lbrr)
  <2>2. ~coded
    <3>1. fl = "loss" => fl # "lbrr" /\ fl # "normal"
      BY SMT
    <3>2. fl = "lbrr" => fl # "normal"
      BY SMT
    <3>3. QED
      BY <2>1, <3>1, <3>2, Zenon DEF NotCoded
  <2>3. QED
    BY <1>2, <2>2, Zenon DEF ReadStereo
<1> HIDE DEF stereo
<1>6. stereo.r = r1 /\ stereo.only \in BOOLEAN /\ ~back
  <2>1. CASE p.chans = 1
    <3>1. stereo = [r |-> r1, only |-> FALSE]
      BY <1>5, <2>1
    <3>2. stereo.r = r1 /\ stereo.only = FALSE
      BY <3>1, SMT
    <3>3. QED
      BY <1>3, <2>1, <3>2, Zenon
  <2>2. CASE p.chans # 1
    <3>1. stereo = [r |-> r1, only |-> r1.dec.midOnly]
      BY <1>5, <2>2
    <3>2. stereo.r = r1 /\ stereo.only = r1.dec.midOnly
      BY <3>1, SMT
    <3>3. QED
      BY <1>2, <1>4, <3>2, Zenon
  <2>3. QED
    BY <2>1, <2>2
<1> HIDE DEF x, side
<1>7. r2 = r1
  BY <1>6, Zenon
<1> HIDE DEF back, r2
<1>8. mid = ConcealChannel(r1, 0)
  <2>1. NotCoded(r1, fl, 0)
    BY <1>0, <1>3
  <2>2. DecodeChannel(r1, p, fl, 0) = ConcealChannel(r1, 0)
    BY <1>2, <1>3, <2>1, ConcealedAlone, Zenon
  <2>3. QED
    BY <1>7, <2>2
<1>9. MovedOn(r1, mid, 0)
  <2>1. r1.dec.ch[0].n \in 0..2
    BY <1>2, <1>3, Zenon
  <2>2. MovedOn(r1, ConcealChannel(r1, 0), 0)
    BY <1>2, <1>3, <2>1, ConcealsChannel, Zenon
  <2>3. QED
    BY <1>8, <2>2
<1> HIDE DEF mid
<1>10. mid \in Reads /\ mid.ok /\ mid.heard = {} /\ mid.pos = r1.pos /\ mid.dec.ch[1] = r1.dec.ch[1]
       /\ mid.dec.chans = p.chans
  BY <1>2, <1>3, <1>9, Zenon DEF MovedOn
<1>11. Unheard(both, r1)
  <2>1. CASE p.chans = 1
    <3>1. both = mid
      BY <2>1, Zenon
    <3> HIDE DEF both
    <3>2. Together(mid.dec)
      BY <1>3, <1>10, <2>1, Zenon DEF Together
    <3>3. QED
      BY <1>10, <3>1, <3>2, Zenon DEF Unheard
  <2>2. CASE p.chans # 1
    <3>1. mid.dec.ch[1].n = 0 /\ mid.dec.ch[1].n \in 0..2
      BY <1>2, <1>3, <1>10, <2>2, Zenon
    <3>2. NotCoded(mid, fl, 1)
      <4>1. NotCoded(r1, fl, 1)
        BY <1>0, <1>3, <2>2
      <4>2. QED
        BY <1>10, <4>1, Zenon DEF NotCoded
    <3>3. DecodeChannel(mid, p, fl, 1) = ConcealChannel(mid, 1)
      BY <1>3, <1>10, <3>2, ConcealedAlone, Zenon
    <3>4. both = ConcealChannel(mid, 1) \/ both = PassSide(mid)
      BY <1>3, <1>10, <2>2, <3>3, Zenon
    <3>5. MovedOn(mid, ConcealChannel(mid, 1), 1)
      BY <1>3, <1>10, <3>1, ConcealsChannel, Zenon
    <3>6. MovedOn(mid, PassSide(mid), 1)
      BY <1>10, <3>1, PassesSide, Zenon
    <3> HIDE DEF both
    <3>7. MovedOn(mid, both, 1)
      BY <3>4, <3>5, <3>6
    <3>8. Together(both.dec)
      BY <1>2, <1>9, <3>7, BothMoved, Zenon
    <3>9. QED
      BY <1>10, <3>7, <3>8, Zenon DEF MovedOn, Unheard
  <2>3. QED
    BY <2>1, <2>2
<1> HIDE DEF both
<1>12. Unheard(x, r1)
  <2>1. CASE fl = "loss"
    BY <1>1, <1>11, <2>1
  <2>2. CASE fl # "loss"
    <3> DEFINE y == [both EXCEPT !.dec = [@ EXCEPT !.midOnly = stereo.only]]
    <3>1. x = y
      BY <1>1, <2>2
    <3>2. both \in Reads
      BY <1>11, Zenon DEF Unheard
    <3>3. /\ y \in Reads /\ y.ok = both.ok /\ y.heard = both.heard /\ y.pos = both.pos
          /\ y.dec.ch = both.dec.ch /\ y.dec.chans = both.dec.chans
      BY <1>6, <3>2, MidOnlySet, Zenon
    <3> HIDE DEF y
    <3>4. Together(y.dec)
      BY <1>11, <3>3, Zenon DEF Unheard, Together
    <3>5. QED
      BY <1>11, <3>1, <3>3, <3>4, Zenon DEF Unheard
  <2>3. QED
    BY <2>1, <2>2
<1>13. QED
  BY <1>12 DEF x

(* A stereo packet that has been sent.                                     *)
StereoFacts(p) ==
  /\ p \in Packets /\ p.chans = 2 /\ p.ms \in {10, 20} /\ p.fs \in Rates /\ StereoPacket(p)

(* A channel of the decoder ready for its frame of the stereo packet p.    *)
ChannelSized(ch, p) ==
  ch.n = 0 /\ ch.frames = FramesPerPacket(p.ms) /\ ch.sub = Subframes(p.ms) /\ ch.fs = p.fs

(* The same with its flags read.                                           *)
ChannelFlagged(ch, p, c) == ChannelSized(ch, p) /\ ch.vad = p.vad[c] /\ ch.lbrr = {}

(* The flags of channel c of the stereo packet p are read.                 *)
FlagsRead(x, r, p, c) ==
  /\ x \in Reads /\ x.ok /\ x.pos = r.pos /\ x.heard = r.heard
  /\ x.dec.chans = r.dec.chans /\ x.dec.midOnly = r.dec.midOnly
  /\ \A k \in {0, 1} : k # c => x.dec.ch[k] = r.dec.ch[k]
  /\ ChannelFlagged(x.dec.ch[c], p, c) /\ x.dec.ch[c].mem = r.dec.ch[c].mem

(* A channel's flags are read, and there are no copies.                    *)
LEMMA ReadFlagsStereo ==
  ASSUME NEW p, StereoFacts(p), NEW r \in Reads, r.ok, NEW c \in {0, 1}, ChannelSized(r.dec.ch[c], p)
  PROVE  FlagsRead(ReadLbrrFlags(r, p, c), r, p, c)
<1> DEFINE none == {}
           ch == r.dec.ch[c]
           vad == p.vad[c]
           ch1 == [ch EXCEPT !.lbrr = none, !.vad = vad]
           w == With(r.dec, c, ch1)
           x == ReadLbrrFlags(r, p, c)
<1>1. p.vad[c] \in SUBSET (0..2) /\ ~p.lbrr[c] /\ none \in SUBSET (0..2)
  <2>1. p.vad \in [{0, 1} -> SUBSET (0..2)]
    BY Zenon DEF StereoFacts, Packets
  <2>2. p.lbrr = [k \in {0, 1} |-> FALSE]
    BY Zenon DEF StereoFacts, StereoPacket
  <2>3. QED
    BY ONLY <2>1, <2>2, c \in {0, 1}, SMT
<1>2. x = [r EXCEPT !.pos = r.pos, !.dec = w]
  BY <1>1, Zenon DEF ReadLbrrFlags
<1>3. r.dec \in Decoders /\ ch \in DecChannels /\ r.pos \in Nat
  <2>1. r.dec \in Decoders /\ r.pos \in Nat
    BY Zenon DEF Reads
  <2>2. QED
    BY <2>1, SMT DEF Decoders
<1> HIDE DEF none, x, vad
<1>4. ch1 \in DecChannels /\ ch1.lbrr = none /\ ch1.vad = vad /\ ch1.n = ch.n /\ ch1.sub = ch.sub
      /\ ch1.fs = ch.fs /\ ch1.frames = ch.frames /\ ch1.mem = ch.mem
  <2> HIDE DEF ch
  <2>1. ch1 \in DecChannels
    BY <1>1, <1>3, Zenon DEF DecChannels, vad
  <2>2. QED
    BY <1>3, <2>1, Zenon DEF DecChannels
<1>5. ChannelFlagged(ch1, p, c)
  <2> HIDE DEF ch1
  <2>1. QED
    BY <1>4, Zenon DEF ChannelFlagged, ChannelSized, none, vad, ch
<1>12. ch1.mem = ch.mem
  BY <1>4
<1> HIDE DEF ch1
<1>6. /\ w \in Decoders /\ w.chans = r.dec.chans /\ w.midOnly = r.dec.midOnly /\ w.ch[c] = ch1
      /\ \A k \in {0, 1} : k # c => w.ch[k] = r.dec.ch[k]
  <2>1. r.dec \in Decoders /\ ch1 \in DecChannels
    BY <1>3, <1>4
  <2>2. QED
    BY ONLY <2>1, c \in {0, 1}, DecoderWith, SMT
<1> HIDE DEF w
<1>7. x \in Reads
  BY <1>2, <1>3, <1>6, Zenon DEF Reads
<1>8. x.dec = w /\ x.ok = r.ok /\ x.pos = r.pos /\ x.heard = r.heard
  BY <1>2, Zenon DEF Reads
<1>11. x.dec.ch[c].mem = r.dec.ch[c].mem
  BY <1>6, <1>8, <1>12 DEF ch
<1>9. FlagsRead(x, r, p, c)
  BY <1>5, <1>6, <1>7, <1>8, <1>11, Zenon DEF FlagsRead
<1>10. QED
  BY <1>9 DEF x

(* The reader stands before the first item of a stereo packet.             *)
BeforeStereo(x, d, p) ==
  /\ x \in Reads /\ x.ok /\ x.heard = {} /\ x.pos = 1
  /\ x.dec.chans = 2 /\ x.dec.midOnly = d.midOnly
  /\ ChannelFlagged(x.dec.ch[0], p, 0) /\ ChannelFlagged(x.dec.ch[1], p, 1)

(* The channels of the decoder predict from mem and side.                  *)
StereoMems(d, mem, side) == d.ch[0].mem = mem /\ d.ch[1].mem = side

(* The header of a stereo packet is read for both channels.                *)
LEMMA HeaderStereo ==
  ASSUME NEW p, StereoFacts(p), NEW fl \in {"normal", "lbrr"}, NEW d \in Decoders, d.chans = 2,
         ChannelSized(d.ch[0], p), ChannelSized(d.ch[1], p)
  PROVE  /\ BeforeStereo(ReadHeader([dec |-> d, pos |-> 1, ok |-> TRUE, heard |-> {}], p, fl), d, p)
         /\ StereoMems(ReadHeader([dec |-> d, pos |-> 1, ok |-> TRUE, heard |-> {}], p, fl).dec,
                       d.ch[0].mem, d.ch[1].mem)
<1> DEFINE none == {}
           r == [dec |-> d, pos |-> 1, ok |-> TRUE, heard |-> none]
           x0 == ReadLbrrFlags(r, p, 0)
           x1 == ReadLbrrFlags(x0, p, 1)
           z == ReadHeader(r, p, fl)
<1>1. /\ 0 \in {0, 1} /\ 1 \in {0, 1} /\ 0 # 1 /\ 1 \in Nat
      /\ p.chans = 2 /\ FramesPerPacket(p.ms) = 1
  BY SMT DEF StereoFacts, FramesPerPacket
<1>2. r \in Reads /\ r.dec = d /\ r.ok = TRUE /\ r.pos = 1 /\ r.heard = none
  <2>1. TRUE \in BOOLEAN /\ none \in SUBSET Heards
    BY SMT
  <2> HIDE DEF none
  <2>2. r \in Reads
    BY <1>1, <2>1, Zenon DEF Reads
  <2>3. QED
    BY <2>2, SMT
<1> HIDE DEF r
<1>3. FlagsRead(x0, r, p, 0)
  BY <1>1, <1>2, ReadFlagsStereo, Zenon
<1> HIDE DEF x0
<1>4. x0 \in Reads /\ x0.ok /\ x0.pos = 1 /\ x0.heard = none /\ x0.dec.chans = 2
      /\ x0.dec.midOnly = d.midOnly /\ x0.dec.ch[1] = d.ch[1] /\ ChannelFlagged(x0.dec.ch[0], p, 0)
      /\ x0.dec.ch[0].mem = d.ch[0].mem
  BY <1>1, <1>2, <1>3, Zenon DEF FlagsRead
<1>5. FlagsRead(x1, x0, p, 1)
  BY <1>1, <1>4, ReadFlagsStereo, Zenon
<1> HIDE DEF x1
<1>6. x1 \in Reads /\ x1.ok /\ x1.pos = 1 /\ x1.heard = none /\ x1.dec.chans = 2
      /\ x1.dec.midOnly = d.midOnly /\ ChannelFlagged(x1.dec.ch[0], p, 0)
      /\ ChannelFlagged(x1.dec.ch[1], p, 1)
      /\ x1.dec.ch[0].mem = d.ch[0].mem /\ x1.dec.ch[1].mem = d.ch[1].mem
  BY <1>1, <1>4, <1>5, Zenon DEF FlagsRead
<1>7. z = x1
  <2> DEFINE flags == EachChannel(LAMBDA a, c : IF a.ok THEN ReadLbrrFlags(a, p, c) ELSE a, r, p.chans)
             Copies(acc, frame) == EachChannel(LAMBDA a, c : SkipCopy(a, p, frame, c), acc, p.chans)
             F == FramesPerPacket(p.ms)
  <2>1. flags = x1
    <3>1. flags = IF x0.ok THEN ReadLbrrFlags(x0, p, 1) ELSE x0
      <4>1. x0 = IF r.ok THEN ReadLbrrFlags(r, p, 0) ELSE r
        BY <1>2, Zenon DEF x0
      <4>2. QED
        BY <1>1, <4>1, Zenon DEF EachChannel
    <3>2. QED
      BY <1>4, <3>1, Zenon DEF x1
  <2>2. z = IF fl # "normal" THEN flags ELSE EachFrame(Copies, flags, F)
    BY Zenon DEF ReadHeader
  <2>3. Copies(x1, 0) = x1
    <3>1. 0 \notin x1.dec.ch[0].lbrr /\ 0 \notin x1.dec.ch[1].lbrr
      BY <1>6, Zenon DEF ChannelFlagged
    <3>2. SkipCopy(x1, p, 0, 0) = x1 /\ SkipCopy(x1, p, 0, 1) = x1
      BY <3>1, Zenon DEF SkipCopy
    <3>3. Copies(x1, 0) = SkipCopy(SkipCopy(x1, p, 0, 0), p, 0, 1)
      BY <1>1, Zenon DEF EachChannel
    <3>4. QED
      BY <3>2, <3>3
  <2>4. EachFrame(Copies, flags, F) = Copies(flags, 0)
    BY <1>1, Zenon DEF EachFrame
  <2> HIDE DEF flags, Copies, F, z
  <2>5. QED
    BY <2>1, <2>2, <2>3, <2>4, Zenon
<1> HIDE DEF z
<1>8. BeforeStereo(z, d, p) /\ StereoMems(z.dec, d.ch[0].mem, d.ch[1].mem)
  BY <1>6, <1>7 DEF BeforeStereo, StereoMems, none
<1>9. QED
  BY <1>8 DEF z, r, none

(* The read x is r with one more coded frame heard in channel c: item.     *)
HeardOne(x, r, c, item) ==
  /\ x \in Reads /\ x.ok /\ x.pos = r.pos + 1
  /\ x.dec.chans = r.dec.chans /\ x.dec.midOnly = r.dec.midOnly
  /\ \A k \in {0, 1} : k # c => x.dec.ch[k] = r.dec.ch[k]
  /\ x.dec.ch[c].n = r.dec.ch[c].n + 1 /\ SameSize(x.dec.ch[c], r.dec.ch[c])
  /\ x.dec.ch[c].mem = item.name
  /\ \A h \in x.heard :
       h \in r.heard \/ (h.channel = c /\ h.before = r.dec.ch[c].mem /\ h.meant = item.mem)
  /\ (\A h \in r.heard : h.flag = "normal") => (\A h \in x.heard : h.flag = "normal")

(* The reader stands before the frame of channel c in a stereo packet.     *)
AtFrame(r, p, c) ==
  LET ch == r.dec.ch[c]
  IN  /\ r \in Reads /\ r.ok /\ c \in {0, 1} /\ r.pos \in 1..Len(p.items)
      /\ p.items \in Seq(Items)
      /\ ch.n = 0 /\ r.dec.ch[0].n \in Nat /\ r.dec.ch[0].n - c <= 0
      /\ ch.sub = Subframes(p.ms) /\ ch.fs = p.fs /\ ch.vad = p.vad[c]
      /\ StereoFrame(p.items[r.pos], c, 0 \in p.vad[c], <<Subframes(p.ms), p.fs>>)

(* A frame that depends on no other is read and heard.                     *)
LEMMA DecodeChannelAlone ==
  ASSUME NEW p, NEW r, NEW c, AtFrame(r, p, c)
  PROVE  HeardOne(DecodeChannel(r, p, "normal", c), r, c, p.items[r.pos])
<1> DEFINE ch == r.dec.ch[c]
           shape == <<Subframes(p.ms), p.fs>>
           flagged == 0 \in p.vad[c]
           coding == "independent"
           read == ReadFrame(r, p.items, c, flagged, coding)
           item == p.items[r.pos]
           done == [read.dec.ch[c] EXCEPT !.n = @ + 1, !.mem = item.name, !.type = item.type,
                                          !.lost = FALSE]
           sound == [flag |-> "normal", channel |-> c, frame |-> ch.n, name |-> item.name,
                     before |-> ch.mem, meant |-> item.mem, fits |-> item.made = <<ch.sub, ch.fs>>]
           x == DecodeChannel(r, p, "normal", c)
<1>1. /\ r \in Reads /\ r.ok /\ c \in {0, 1} /\ r.pos \in 1..Len(p.items)
      /\ p.items \in Seq(Items)
      /\ ch.n = 0 /\ r.dec.ch[0].n \in Nat /\ r.dec.ch[0].n - c <= 0
      /\ ch.sub = Subframes(p.ms) /\ ch.fs = p.fs /\ ch.vad = p.vad[c]
      /\ StereoFrame(item, c, flagged, shape)
  BY Zenon DEF AtFrame
<1>2. r.dec \in Decoders /\ ch \in DecChannels /\ r.pos \in Nat
  <2>1. r.dec \in Decoders /\ r.pos \in Nat
    BY <1>1, Zenon DEF Reads
  <2>2. QED
    BY <1>1, <2>1, SMT DEF Decoders
<1>3. /\ item \in Items /\ item.kind = "frame" /\ item.channel = c /\ item.made = shape
      /\ item.layout = Layout(coding, flagged, item.type, EcFresh, shape)
  <2>1. item \in Items
    <3>1. p.items \in Seq(Items) /\ r.pos \in 1..Len(p.items)
      BY <1>1
    <3>2. QED
      BY ONLY <3>1, SMT
  <2> HIDE DEF item
  <2>2. QED
    BY <1>1, <2>1, Zenon DEF StereoFrame
<1>4. item.type \in Kinds /\ item.name \in Nat /\ item.mem \in Nat
  <2> HIDE DEF item
  <2>1. QED
    BY <1>3, FrameItemLemma, Zenon
<1>5. x = IF ~read.ok THEN read ELSE HearChannel(r, read, "normal", c, item)
  <2> DEFINE fl == "normal"
             rd == ReadFrame(r, p.items, c, fl = "lbrr" \/ ch.n \in ch.vad,
                             DecCoding(r.dec, fl, r.dec.ch[0].n - c, c))
  <2>1. x = IF ~rd.ok THEN rd ELSE HearChannel(r, rd, fl, c, item)
    <3> DEFINE in == fl = "normal" \/ (fl = "lbrr" /\ ch.n \in ch.lbrr)
    <3>1. fl = "normal" /\ x = DecodeChannel(r, p, fl, c) /\ r.ok /\ in
      BY <1>1
    <3> HIDE DEF fl
    <3>2. DecodeChannel(r, p, fl, c)
            = IF ~in THEN ConcealChannel(r, c)
              ELSE IF ~rd.ok THEN rd ELSE HearChannel(r, rd, fl, c, p.items[r.pos])
      BY <3>1, DecodeChannelIs, Zenon
    <3> HIDE DEF rd, in, x, ch
    <3>3. QED
      BY <3>1, <3>2, Zenon
  <2>2. DecCoding(r.dec, "normal", r.dec.ch[0].n - c, c) = coding
    BY <1>1, Zenon DEF DecCoding
  <2>3. ("normal" = "lbrr" \/ ch.n \in ch.vad) = flagged
    <3>1. "normal" # "lbrr"
      BY SMT
    <3>2. (ch.n \in ch.vad) = (0 \in p.vad[c])
      BY <1>1
    <3>3. ((ch.n \in ch.vad) \in BOOLEAN)
      BY SMT
    <3> HIDE DEF ch, flagged
    <3>4. ("normal" = "lbrr" \/ ch.n \in ch.vad) = (ch.n \in ch.vad)
      BY <3>1, <3>3, SMT
    <3>5. QED
      BY <3>2, <3>4 DEF flagged
  <2>4. rd = read
    BY <2>2, <2>3
  <2> HIDE DEF rd, read, x, item
  <2>5. QED
    BY <2>1, <2>4, Zenon
<1>6. FrameRead(r, read, c, item)
  <2>1. shape = <<r.dec.ch[c].sub, r.dec.ch[c].fs>>
    BY <1>1
  <2>2. flagged \in BOOLEAN
    BY SMT
  <2>3. /\ p.items[r.pos].kind = "frame" /\ p.items[r.pos].channel = c
        /\ p.items[r.pos].layout = Layout(coding, flagged, p.items[r.pos].type, EcFresh, <<r.dec.ch[c].sub, r.dec.ch[c].fs>>)
    BY <1>3, <2>1
  <2> DEFINE ctx == EcFresh
  <2>4. coding = "conditional" => Alike(r.dec.ch[c].ec, ctx)
    <3>1. coding # "conditional"
      BY SMT
    <3> HIDE DEF coding
    <3>2. QED
      BY <3>1
  <2> HIDE DEF coding, flagged
  <2>5. FrameRead(r, ReadFrame(r, p.items, c, flagged, coding), c, p.items[r.pos])
    <3>1. /\ r \in Reads /\ r.ok /\ c \in {0, 1} /\ p.items \in Seq(Items)
          /\ r.pos \in 1..Len(p.items)
      BY <1>1
    <3> HIDE DEF ctx
    <3>2. /\ p.items[r.pos].kind = "frame" /\ p.items[r.pos].channel = c
          /\ p.items[r.pos].layout = Layout(coding, flagged, p.items[r.pos].type, ctx,
                                            <<r.dec.ch[c].sub, r.dec.ch[c].fs>>)
      BY <2>3 DEF ctx
    <3>3. QED
      BY ONLY <2>2, <2>4, <3>1, <3>2, ReadsFrame, ZenonT(60)
  <2>6. QED
    BY <2>5
<1> HIDE DEF shape, flagged, coding, x
<1> DEFINE old == read.dec.ch[c]
           w == With(read.dec, c, done)
<1>7. HearChannel(r, read, "normal", c, item)
        = [read EXCEPT !.dec = w, !.heard = read.heard \cup {sound}]
  <2> HIDE DEF read, item
  <2>1. QED
    BY Zenon DEF HearChannel
<1> HIDE DEF read
<1>8. /\ read \in Reads /\ read.ok /\ read.pos = r.pos + 1 /\ read.heard = r.heard
      /\ read.dec.chans = r.dec.chans /\ read.dec.midOnly = r.dec.midOnly
      /\ SameChannel(old, ch)
      /\ \A k \in {0, 1} : k # c => read.dec.ch[k] = r.dec.ch[k]
  BY <1>6, Zenon DEF FrameRead
<1>9. read.dec \in Decoders /\ old \in DecChannels
  <2>1. read.dec \in Decoders
    BY <1>8, Zenon DEF Reads
  <2>2. QED
    BY <1>1, <2>1, SMT DEF Decoders
<1>10. done \in DecChannels /\ done.n = ch.n + 1 /\ done.mem = item.name /\ SameSize(done, ch)
  <2> HIDE DEF ch, item, old
  <2>1. old.n = 0 /\ ch.n = 0
    BY <1>1, <1>8, Zenon DEF SameChannel
  <2>2. FALSE \in BOOLEAN /\ 0 + 1 = 1 /\ 1 \in 0..3
    BY SMT
  <2>3. done = [old EXCEPT !.n = 1, !.mem = item.name, !.type = item.type, !.lost = FALSE]
    BY <2>1, <2>2, Zenon DEF old
  <2>4. done \in DecChannels
    BY <1>4, <1>9, <2>2, <2>3, Zenon DEF DecChannels
  <2>5. done.n = 1 /\ done.mem = item.name /\ SameSize(done, old)
    BY <1>9, <2>3, Zenon DEF DecChannels, SameSize
  <2>6. SameSize(done, ch)
    BY <1>8, <2>5, Zenon DEF SameSize, SameChannel
  <2>7. QED
    BY <2>1, <2>2, <2>4, <2>5, <2>6
<1> HIDE DEF done
<1>11. /\ w \in Decoders /\ w.chans = read.dec.chans /\ w.midOnly = read.dec.midOnly /\ w.ch[c] = done
       /\ \A k \in {0, 1} : k # c => w.ch[k] = read.dec.ch[k]
  <2>1. read.dec \in Decoders /\ done \in DecChannels /\ c \in {0, 1}
    BY <1>1, <1>9, <1>10
  <2>2. QED
    BY ONLY <2>1, DecoderWith, SMT
<1>12. sound \in Heards /\ sound.flag = "normal" /\ sound.before = ch.mem /\ sound.meant = item.mem
       /\ sound.channel = c
  <2> DEFINE fits == item.made = <<ch.sub, ch.fs>>
  <2>1. "normal" \in {"normal", "lbrr"} /\ fits \in BOOLEAN /\ 0 \in 0..3
    BY SMT
  <2>2. ch.mem \in Nat /\ ch.n \in 0..3
    <3>1. ch.mem \in Nat
      BY <1>2, Zenon DEF DecChannels
    <3>2. QED
      BY <1>1, <2>1, <3>1
  <2>3. sound = [flag |-> "normal", channel |-> c, frame |-> ch.n, name |-> item.name,
                 before |-> ch.mem, meant |-> item.mem, fits |-> fits]
    OBVIOUS
  <2> HIDE DEF fits, item, ch, sound
  <2>4. sound \in Heards
    BY <1>1, <1>4, <2>1, <2>2, <2>3, Zenon DEF Heards
  <2>5. QED
    BY <2>3, <2>4, SMT
<1> HIDE DEF w, sound
<1>13. x = [read EXCEPT !.dec = w, !.heard = read.heard \cup {sound}]
  BY <1>5, <1>7, <1>8, Zenon
<1>14. read.heard \cup {sound} \in SUBSET Heards
  <2>1. read.heard \in SUBSET Heards
    BY <1>8, Zenon DEF Reads
  <2>2. QED
    BY <1>12, <2>1, Zenon
<1> DEFINE all == read.heard \cup {sound}
<1> HIDE DEF all
<1>15. x = [read EXCEPT !.dec = w, !.heard = all] /\ all \in SUBSET Heards
  BY <1>13, <1>14 DEF all
<1>16. x \in Reads
  BY <1>8, <1>11, <1>15, Zenon DEF Reads
<1>17. x.dec = w /\ x.ok = read.ok /\ x.pos = read.pos /\ x.heard = all
  BY <1>8, <1>15, Zenon DEF Reads
<1>18. (\A h \in r.heard : h.flag = "normal") => (\A h \in x.heard : h.flag = "normal")
  BY <1>8, <1>12, <1>17, Zenon DEF all
<1>19. \A k \in {0, 1} : k # c => x.dec.ch[k] = r.dec.ch[k]
  BY <1>8, <1>11, <1>17, Zenon
<1>20. x.dec.ch[c].n = r.dec.ch[c].n + 1
  BY <1>10, <1>11, <1>17
<1>21. x.dec.chans = r.dec.chans /\ x.dec.midOnly = r.dec.midOnly /\ x.ok /\ x.pos = r.pos + 1
  BY <1>8, <1>11, <1>17
<1>24. x.dec.ch[c].mem = item.name /\ SameSize(x.dec.ch[c], r.dec.ch[c])
  BY <1>10, <1>11, <1>17
<1>25. \A h \in x.heard :
         h \in r.heard \/ (h.channel = c /\ h.before = r.dec.ch[c].mem /\ h.meant = item.mem)
  <2> HIDE DEF item, ch
  <2>1. sound.channel = c /\ sound.before = r.dec.ch[c].mem /\ sound.meant = item.mem
    BY <1>12 DEF ch
  <2>2. x.heard = read.heard \cup {sound} /\ read.heard = r.heard
    BY <1>8, <1>17 DEF all
  <2>3. QED
    BY ONLY <2>1, <2>2, Zenon
<1>22. HeardOne(x, r, c, item)
  BY <1>16, <1>18, <1>19, <1>20, <1>21, <1>24, <1>25, Zenon DEF HeardOne
<1>23. QED
  BY <1>22 DEF x

(* The read x is r one item on.                                            *)
OneOn(x, r) ==
  /\ x \in Reads /\ x.ok = r.ok /\ x.pos = r.pos + 1 /\ x.dec = r.dec /\ x.heard = r.heard

(* An item of the kind expected is taken.                                  *)
LEMMA TakesOne ==
  ASSUME NEW r \in Reads, NEW items, NEW kind, r.pos <= Len(items), items[r.pos].kind = kind
  PROVE  OneOn(Take(r, items, kind), r)
<1> DEFINE x == Take(r, items, kind)
<1>1. r.pos \in Nat
  BY Zenon DEF Reads
<1>2. r.pos + 1 \in Nat
  BY <1>1, SMT
<1>3. x = [r EXCEPT !.pos = r.pos + 1]
  BY Zenon DEF Take, Coming
<1> HIDE DEF x
<1>4. x \in Reads
  BY <1>2, <1>3, Zenon DEF Reads
<1>5. x.ok = r.ok /\ x.pos = r.pos + 1 /\ x.dec = r.dec /\ x.heard = r.heard
  BY <1>3, Zenon DEF Reads
<1>6. OneOn(x, r)
  BY <1>4, <1>5, Zenon DEF OneOn
<1>7. QED
  BY <1>6 DEF x

(* Items of a stereo packet: one more if its side is not speech.           *)
StereoNumbers(p, one, only) ==
  /\ one \in {0, 1} /\ (one = 1 <=> 0 \notin p.vad[1])
  /\ only \in BOOLEAN /\ (only <=> (one = 1 /\ p.items[2].set)) /\ (only => one = 1)
  /\ p.items \in Seq(Items) /\ Len(p.items) = one + (IF only THEN 2 ELSE 3)
  /\ p.items[1].kind = "predictors"
  /\ one = 1 => p.items[2].kind = "mid only"
  /\ StereoFrame(p.items[one + 2], 0, 0 \in p.vad[0], <<Subframes(p.ms), p.fs>>)
  /\ ~only => StereoFrame(p.items[one + 3], 1, 0 \in p.vad[1], <<Subframes(p.ms), p.fs>>)

(* What the item of that kind carries.                                     *)
LEMMA MidOnlyItem ==
  ASSUME NEW item \in Items, item.kind = "mid only"
  PROVE  item.set \in BOOLEAN
<1>1. item \notin FrameItems
  <2>1. item \in FrameItems => item.kind = "frame"
    BY Zenon DEF FrameItems
  <2>2. "frame" # "mid only"
    BY ONLY TRUE, SMT
  <2>3. QED
    BY <2>1, <2>2
<1>2. item \notin FlagItems
  <2>1. item \in FlagItems => item.kind = "lbrr flags"
    BY Zenon DEF FlagItems
  <2>2. "lbrr flags" # "mid only"
    BY ONLY TRUE, SMT
  <2>3. QED
    BY <2>1, <2>2
<1>3. item \notin [kind : {"predictors"}]
  <2>1. item \in [kind : {"predictors"}] => item.kind = "predictors"
    BY Zenon
  <2>2. "predictors" # "mid only"
    BY ONLY TRUE, SMT
  <2>3. QED
    BY <2>1, <2>2
<1>4. item \in [kind : {"mid only"}, set : BOOLEAN]
  BY <1>1, <1>2, <1>3, Zenon DEF Items, StereoItems
<1>5. QED
  BY <1>4, Zenon

(* A stereo packet has such numbers.                                       *)
LEMMA StereoCounted ==
  ASSUME NEW p, StereoFacts(p)
  PROVE  \E one, only : StereoNumbers(p, one, only)
<1> DEFINE one == IF 0 \in p.vad[1] THEN 0 ELSE 1
           gone == p.items[2].set
           only == one = 1 /\ gone
           shape == <<Subframes(p.ms), p.fs>>
<1>1. /\ Len(p.items) = one + (IF only THEN 2 ELSE 3)
      /\ p.items[1].kind = "predictors"
      /\ one = 1 => p.items[2].kind = "mid only"
      /\ StereoFrame(p.items[one + 2], 0, 0 \in p.vad[0], shape)
      /\ ~only => StereoFrame(p.items[one + 3], 1, 0 \in p.vad[1], shape)
  BY Zenon DEF StereoFacts, StereoPacket
<1>2. p.items \in Seq(Items)
  BY Zenon DEF StereoFacts, Packets
<1>3. one \in {0, 1} /\ (one = 1 <=> 0 \notin p.vad[1])
  BY SMT
<1>4. only \in BOOLEAN
  <2>1. CASE one = 1
    <3>1. p.items[2] \in Items
      <4>1. Len(p.items) = one + (IF only THEN 2 ELSE 3)
        BY <1>1
      <4> HIDE DEF only, one
      <4>2. Len(p.items) \in Nat /\ Len(p.items) >= 2
        BY <2>1, <4>1, SMT
      <4>3. QED
        BY ONLY <1>2, <4>2, SMT
    <3>2. gone \in BOOLEAN
      BY <1>1, <2>1, <3>1, MidOnlyItem, Zenon
    <3> HIDE DEF one, gone
    <3>3. QED
      BY <3>2, <2>1, Zenon
  <2>2. CASE one # 1
    <3>1. only = FALSE
      <4> HIDE DEF one
      <4>1. QED
        BY <2>2, SMT
    <3>2. QED
      BY <3>1
  <2>3. QED
    BY <2>1, <2>2
<1>5. (only <=> (one = 1 /\ p.items[2].set)) /\ (only => one = 1)
  BY Zenon
<1> HIDE DEF one, only
<1>6. StereoNumbers(p, one, only)
  BY <1>1, <1>2, <1>3, <1>4, <1>5, Zenon DEF StereoNumbers
<1>7. QED
  BY <1>6, Zenon

(* The predictors and the mid-only flag are read.                          *)
StereoRead(st, r, one, only) ==
  /\ st.r \in Reads /\ st.r.ok /\ st.r.pos = one + 2 /\ st.r.dec = r.dec /\ st.r.heard = {}
  /\ st.only \in BOOLEAN /\ (st.only <=> only)

(* The stereo items are read as they were written.                         *)
LEMMA ReadsStereo ==
  ASSUME NEW p, NEW one, NEW only, StereoNumbers(p, one, only), NEW d, NEW r, BeforeStereo(r, d, p)
  PROVE  StereoRead(ReadStereo(r, p, "normal"), r, one, only)
<1> DEFINE pred == Take(r, p.items, "predictors")
           flagged == Take(pred, p.items, "mid only")
           st == ReadStereo(r, p, "normal")
<1> HIDE DEF pred, flagged, st
<1>1. /\ one \in {0, 1} /\ (one = 1 <=> 0 \notin p.vad[1])
      /\ only \in BOOLEAN /\ (only <=> (one = 1 /\ p.items[2].set)) /\ (only => one = 1)
      /\ p.items \in Seq(Items) /\ Len(p.items) = one + (IF only THEN 2 ELSE 3)
      /\ p.items[1].kind = "predictors"
      /\ one = 1 => p.items[2].kind = "mid only"
  BY Zenon DEF StereoNumbers
<1>2. /\ r \in Reads /\ r.ok /\ r.heard = {} /\ r.pos = 1 /\ r.dec.chans = 2
      /\ r.dec.ch[0].n = 0 /\ r.dec.ch[1].vad = p.vad[1]
  BY Zenon DEF BeforeStereo, ChannelFlagged, ChannelSized
<1>3. 1 <= Len(p.items) /\ 2 <= Len(p.items) /\ 1 + 1 = 2 /\ 2 + 1 = 3 /\ 2 # 1 /\ Side = 1
      /\ 1 + 2 = 3 /\ 0 + 2 = 2
  <2>1. Len(p.items) = one + (IF only THEN 2 ELSE 3) /\ one \in {0, 1}
    BY <1>1
  <2>2. QED
    BY ONLY <2>1, SMT DEF Side
<1>4. OneOn(pred, r)
  BY <1>1, <1>2, <1>3, TakesOne, Zenon DEF pred
<1>5. pred \in Reads /\ pred.ok /\ pred.pos = 2 /\ pred.dec = r.dec /\ pred.heard = {}
  BY <1>2, <1>3, <1>4, Zenon DEF OneOn
<1>6. st = IF ~SilentSide(r.dec.ch[1], "normal", 0) THEN [r |-> pred, only |-> FALSE]
           ELSE [r |-> flagged, only |-> flagged.ok /\ p.items[pred.pos].set]
  BY <1>2, <1>3, Zenon DEF ReadStereo, st, pred, flagged
<1>7. SilentSide(r.dec.ch[1], "normal", 0) <=> 0 \notin p.vad[1]
  BY <1>2, Zenon DEF SilentSide
<1>8. CASE one = 1
  <2>1. OneOn(flagged, pred)
    BY <1>1, <1>3, <1>5, <1>8, TakesOne, Zenon DEF flagged
  <2>2. flagged \in Reads /\ flagged.ok /\ flagged.pos = 3 /\ flagged.dec = r.dec /\ flagged.heard = {}
    BY <1>3, <1>5, <2>1, Zenon DEF OneOn
  <2> DEFINE gone == flagged.ok /\ p.items[pred.pos].set
  <2>3. gone <=> only
    BY <1>1, <1>5, <1>8, <2>2, Zenon
  <2>4. gone \in BOOLEAN
    BY SMT
  <2>5. st = [r |-> flagged, only |-> gone]
    BY <1>1, <1>6, <1>7, <1>8, Zenon
  <2> HIDE DEF gone
  <2>6. st.r = flagged /\ st.only = gone
    BY <2>5, SMT
  <2>7. QED
    BY <1>3, <1>8, <2>2, <2>3, <2>4, <2>6, Zenon DEF StereoRead, st
<1>9. CASE one # 1
  <2>1. one = 0 /\ ~only
    <3>1. one \in {0, 1}
      BY <1>1
    <3>2. one = 0
      BY <1>9, <3>1, SMT
    <3>3. QED
      BY <1>1, <1>9, <3>2
  <2>2. st = [r |-> pred, only |-> FALSE]
    BY <1>1, <1>6, <1>7, <1>9, Zenon
  <2>3. st.r = pred /\ st.only = FALSE
    BY <2>2, SMT
  <2>4. StereoRead(st, r, one, only)
    BY <1>3, <1>5, <2>1, <2>3, Zenon DEF StereoRead
  <2>5. QED
    BY <2>4 DEF st
<1>10. QED
  BY <1>8, <1>9

(* The reader stands before the frames of a stereo packet.                 *)
AtFrames(r, p, one) ==
  /\ r \in Reads /\ r.ok /\ r.heard = {} /\ r.pos = one + 2 /\ r.dec.chans = 2
  /\ ChannelFlagged(r.dec.ch[0], p, 0) /\ ChannelFlagged(r.dec.ch[1], p, 1)

(* A side channel that comes back starts over, and reads the same.         *)
LEMMA SideStartsOver ==
  ASSUME NEW r, NEW p, NEW one, AtFrames(r, p, one), NEW mem, NEW side, StereoMems(r.dec, mem, side)
  PROVE  LET x == [r EXCEPT !.dec = With(@, Side, [r.dec.ch[Side] EXCEPT !.mem = 0, !.type = "inactive"])]
         IN  AtFrames(x, p, one) /\ StereoMems(x.dec, mem, 0)
<1> DEFINE ch == r.dec.ch[1]
           ch1 == [ch EXCEPT !.mem = 0, !.type = "inactive"]
           w == With(r.dec, 1, ch1)
           x == [r EXCEPT !.dec = w]
<1>1. /\ r \in Reads /\ r.ok /\ r.heard = {} /\ r.pos = one + 2 /\ r.dec.chans = 2
      /\ ChannelFlagged(r.dec.ch[0], p, 0) /\ ChannelFlagged(ch, p, 1)
  BY Zenon DEF AtFrames
<1>2. r.dec \in Decoders /\ ch \in DecChannels
  <2>1. r.dec \in Decoders
    BY <1>1, Zenon DEF Reads
  <2>2. QED
    BY <2>1, SMT DEF Decoders
<1>3. 0 \in Nat /\ "inactive" \in Kinds /\ 0 \in {0, 1} /\ 1 \in {0, 1} /\ 0 # 1
  BY SMT DEF Kinds
<1> HIDE DEF ch
<1>4. ch1 \in DecChannels
  BY <1>2, <1>3, Zenon DEF DecChannels
<1>5. ch1.n = ch.n /\ ch1.sub = ch.sub /\ ch1.fs = ch.fs /\ ch1.vad = ch.vad /\ ch1.lbrr = ch.lbrr
      /\ ch1.frames = ch.frames /\ ch1.mem = 0
  BY <1>2, Zenon DEF DecChannels
<1> HIDE DEF ch1
<1>12. ch1.mem = 0
  BY <1>5
<1>6. ChannelFlagged(ch1, p, 1)
  BY <1>1, <1>5, Zenon DEF ChannelFlagged, ChannelSized
<1>7. w \in Decoders /\ w.ch[1] = ch1 /\ w.ch[0] = r.dec.ch[0] /\ w.chans = r.dec.chans
  BY <1>2, <1>3, <1>4, DecoderWith, Zenon
<1> HIDE DEF w
<1>8. x \in Reads
  BY <1>1, <1>7, Zenon DEF Reads
<1>9. x.dec = w /\ x.ok = r.ok /\ x.heard = r.heard /\ x.pos = r.pos
  BY <1>1, Zenon DEF Reads
<1> HIDE DEF x
<1>10. AtFrames(x, p, one)
  BY <1>1, <1>6, <1>7, <1>8, <1>9, Zenon DEF AtFrames
<1>13. StereoMems(x.dec, mem, 0)
  BY <1>7, <1>9, <1>12, Zenon DEF StereoMems
<1>11. QED
  BY <1>10, <1>13 DEF x, w, ch1, ch, Side

(* A stereo packet is decoded to its end.                                  *)
HeardStereo(x, p) ==
  x \in Reads /\ x.ok /\ x.pos = Len(p.items) + 1 /\ \A h \in x.heard : h.flag = "normal"

(* The channels went on from mem and side, and heard what was meant.       *)
StereoLearnt(x, p, one, only, mem, side) ==
  /\ x.dec.chans = 2 /\ Together(x.dec)
  /\ x.dec.ch[0].mem = p.items[one + 2].name /\ x.dec.ch[0].fs = p.fs
  /\ ~only => x.dec.ch[1].mem = p.items[one + 3].name /\ x.dec.ch[1].fs = p.fs
  /\ \A h \in x.heard : \/ h.before = mem /\ h.meant = p.items[one + 2].mem
                        \/ ~only /\ h.before = side /\ h.meant = p.items[one + 3].mem

(* What a call does with the frames: mid, and the side unless it is left   *)
(* out.                                                                    *)
FramesHeard(mid, r2, both, p, one, only) ==
  /\ mid = DecodeChannel(r2, p, "normal", 0)
  /\ both = IF only THEN PassSide(mid) ELSE DecodeChannel(mid, p, "normal", 1)

(* Then it has read all of the packet.                                     *)
LEMMA HearsStereo ==
  ASSUME NEW p, NEW one, NEW only, StereoNumbers(p, one, only), NEW r2, AtFrames(r2, p, one),
         NEW mid, NEW both, FramesHeard(mid, r2, both, p, one, only),
         NEW mem, NEW side, StereoMems(r2.dec, mem, side)
  PROVE  HeardStereo(both, p) /\ mid.ok /\ StereoLearnt(both, p, one, only, mem, side)
<1>1. /\ one \in {0, 1} /\ only \in BOOLEAN
      /\ p.items \in Seq(Items) /\ Len(p.items) = one + (IF only THEN 2 ELSE 3)
      /\ StereoFrame(p.items[one + 2], 0, 0 \in p.vad[0], <<Subframes(p.ms), p.fs>>)
      /\ ~only => StereoFrame(p.items[one + 3], 1, 0 \in p.vad[1], <<Subframes(p.ms), p.fs>>)
  BY Zenon DEF StereoNumbers
<1>2. /\ r2 \in Reads /\ r2.ok /\ r2.heard = {} /\ r2.pos = one + 2
      /\ r2.dec.ch[0].n = 0 /\ r2.dec.ch[0].sub = Subframes(p.ms) /\ r2.dec.ch[0].fs = p.fs
      /\ r2.dec.ch[0].vad = p.vad[0]
      /\ r2.dec.ch[1].n = 0 /\ r2.dec.ch[1].sub = Subframes(p.ms) /\ r2.dec.ch[1].fs = p.fs
      /\ r2.dec.ch[1].vad = p.vad[1] /\ r2.dec.chans = 2
      /\ r2.dec.ch[0].frames = r2.dec.ch[1].frames
  BY Zenon DEF AtFrames, ChannelFlagged, ChannelSized
<1>3. mid = DecodeChannel(r2, p, "normal", 0)
  BY Zenon DEF FramesHeard
<1>4. both = IF only THEN PassSide(mid) ELSE DecodeChannel(mid, p, "normal", 1)
  BY Zenon DEF FramesHeard
<1>5. /\ 0 \in {0, 1} /\ 1 \in {0, 1} /\ 0 # 1 /\ 0 \in Nat /\ 0 - 0 <= 0 /\ 0 + 1 = 1 /\ 1 \in Nat
      /\ 1 - 1 <= 0 /\ 0 \in 0..2
  BY SMT
<1>6. /\ one + 2 \in 1..Len(p.items) /\ one + 2 + 1 = one + 3
      /\ (only => one + 3 = Len(p.items) + 1)
      /\ (~only => one + 3 \in 1..Len(p.items) /\ one + 3 + 1 = Len(p.items) + 1)
  <2>1. one \in {0, 1} /\ only \in BOOLEAN /\ Len(p.items) = one + (IF only THEN 2 ELSE 3)
    BY <1>1
  <2>2. QED
    BY ONLY <2>1, SMT
<1>7. AtFrame(r2, p, 0)
  BY <1>1, <1>2, <1>5, <1>6, Zenon DEF AtFrame
<1>8. HeardOne(mid, r2, 0, p.items[one + 2])
  <2>1. HeardOne(DecodeChannel(r2, p, "normal", 0), r2, 0, p.items[r2.pos])
    BY <1>7, DecodeChannelAlone, Zenon
  <2>2. QED
    BY <1>2, <1>3, <2>1
<1>9. /\ mid \in Reads /\ mid.ok /\ mid.pos = one + 3 /\ mid.dec.ch[1] = r2.dec.ch[1]
      /\ mid.dec.ch[0].n = 1 /\ \A h \in mid.heard : h.flag = "normal"
  BY <1>2, <1>5, <1>6, <1>8, Zenon DEF HeardOne
<1>13. Together(r2.dec)
  BY <1>2, Zenon DEF Together, SameSize
<1>14. /\ mid.dec.chans = 2 /\ mid.dec.ch[0].mem = p.items[one + 2].name
       /\ mid.dec.ch[0].n = r2.dec.ch[0].n + 1 /\ SameSize(mid.dec.ch[0], r2.dec.ch[0])
       /\ mid.dec.ch[0].fs = p.fs
       /\ \A h \in mid.heard : h.before = mem /\ h.meant = p.items[one + 2].mem
  BY <1>2, <1>8, Zenon DEF HeardOne, StereoMems, SameSize
<1>15. \A x : (/\ x.dec.chans = 2 /\ x.dec.ch[0] = mid.dec.ch[0]
              /\ x.dec.ch[1].n = r2.dec.ch[1].n + 1 /\ SameSize(x.dec.ch[1], r2.dec.ch[1]))
             => Together(x.dec)
  BY <1>13, <1>14, <1>2, ZenonT(60) DEF Together, SameSize
<1>10. CASE only
  <2>1. mid.dec.ch[1].n \in 0..2
    BY <1>2, <1>5, <1>9, Zenon
  <2>2. MovedOn(mid, PassSide(mid), 1)
    BY <1>9, <2>1, PassesSide, Zenon
  <2>3. both = PassSide(mid)
    BY <1>4, <1>10
  <2>4. MovedOn(mid, both, 1)
    BY <2>2, <2>3
  <2>5. HeardStereo(both, p)
    BY <1>6, <1>9, <1>10, <2>4, Zenon DEF MovedOn, HeardStereo
  <2>6. /\ both.dec.chans = 2 /\ both.dec.ch[0] = mid.dec.ch[0] /\ both.heard = mid.heard
        /\ both.dec.ch[1].n = r2.dec.ch[1].n + 1 /\ SameSize(both.dec.ch[1], r2.dec.ch[1])
    BY <1>5, <1>9, <1>14, <2>4, Zenon DEF MovedOn
  <2>7. Together(both.dec)
    BY <1>15, <2>6, Zenon
  <2>8. StereoLearnt(both, p, one, only, mem, side)
    BY <1>10, <1>14, <2>6, <2>7, Zenon DEF StereoLearnt
  <2>9. QED
    BY <1>9, <2>5, <2>8
<1>11. CASE ~only
  <2>1. AtFrame(mid, p, 1)
    BY <1>1, <1>2, <1>5, <1>6, <1>9, <1>11, Zenon DEF AtFrame
  <2>2. HeardOne(DecodeChannel(mid, p, "normal", 1), mid, 1, p.items[mid.pos])
    BY <2>1, DecodeChannelAlone, Zenon
  <2>3. HeardOne(both, mid, 1, p.items[one + 3])
    BY <1>4, <1>9, <1>11, <2>2
  <2>4. HeardStereo(both, p)
    BY <1>6, <1>9, <1>11, <2>3, Zenon DEF HeardOne, HeardStereo
  <2>5. /\ both.dec.chans = 2 /\ both.dec.ch[0] = mid.dec.ch[0]
        /\ both.dec.ch[1].n = r2.dec.ch[1].n + 1 /\ SameSize(both.dec.ch[1], r2.dec.ch[1])
        /\ both.dec.ch[1].mem = p.items[one + 3].name
    BY <1>5, <1>9, <1>14, <2>3, Zenon DEF HeardOne
  <2>6. \A h \in both.heard :
          h \in mid.heard \/ (h.before = side /\ h.meant = p.items[one + 3].mem)
    BY <1>9, <2>3, Zenon DEF HeardOne, StereoMems
  <2>7. Together(both.dec)
    BY <1>15, <2>5, Zenon
  <2>8. both.dec.ch[1].fs = p.fs
    BY <1>2, <2>5, Zenon DEF SameSize
  <2>9. StereoLearnt(both, p, one, only, mem, side)
    BY <1>11, <1>14, <2>5, <2>6, <2>7, <2>8, Zenon DEF StereoLearnt
  <2>10. QED
    BY <1>9, <2>4, <2>9
<1>12. QED
  BY <1>10, <1>11

(* A call past the header of a stereo packet reads the rest of it.         *)
LEMMA StereoCall ==
  ASSUME NEW p, StereoFacts(p), NEW d, NEW r1, BeforeStereo(r1, d, p),
         NEW mem, NEW was, StereoMems(r1.dec, mem, was)
  PROVE  LET x == CallFrom(d, "normal", p, r1)
         IN  /\ HeardStereo(x, p) /\ (x.dec.midOnly <=> MidAlone(p))
             /\ StereoLearnt(x, p, FirstItem(p), MidAlone(p), mem, IF d.midOnly THEN 0 ELSE was)
<1>1. PICK one, only : StereoNumbers(p, one, only)
  BY StereoCounted, Zenon
<1> DEFINE stereo == ReadStereo(r1, p, "normal")
           back == p.chans = 2 /\ ~stereo.only /\ d.midOnly
           side == [stereo.r.dec.ch[Side] EXCEPT !.mem = 0, !.type = "inactive"]
           r2 == IF back THEN [stereo.r EXCEPT !.dec = With(@, Side, side)] ELSE stereo.r
           mid == DecodeChannel(r2, p, "normal", 0)
           both == IF p.chans = 1 \/ ~mid.ok THEN mid
                   ELSE IF HasSide(r2, "normal", p.chans, stereo.only)
                     THEN DecodeChannel(mid, p, "normal", Side)
                   ELSE PassSide(mid)
           x == CallFrom(d, "normal", p, r1)
<1>2. x = [both EXCEPT !.dec = [@ EXCEPT !.midOnly = stereo.only]]
  <2>1. "normal" # "loss"
    BY SMT
  <2>2. x = IF "normal" = "loss" THEN both ELSE [both EXCEPT !.dec = [@ EXCEPT !.midOnly = stereo.only]]
    BY Zenon DEF CallFrom
  <2> HIDE DEF x, both, stereo
  <2>3. QED
    BY <2>1, <2>2, Zenon
<1>3. StereoRead(stereo, r1, one, only)
  BY <1>1, ReadsStereo, Zenon
<1> HIDE DEF stereo, x
<1>4. /\ stereo.r \in Reads /\ stereo.r.ok /\ stereo.r.pos = one + 2 /\ stereo.r.dec = r1.dec
      /\ stereo.r.heard = {} /\ stereo.only \in BOOLEAN /\ (stereo.only <=> only)
  BY <1>3, Zenon DEF StereoRead
<1>5. AtFrames(stereo.r, p, one) /\ StereoMems(stereo.r.dec, mem, was)
  BY <1>4, Zenon DEF AtFrames, BeforeStereo
<1> DEFINE s == IF back THEN 0 ELSE was
<1>6. AtFrames(r2, p, one) /\ StereoMems(r2.dec, mem, s)
  <2> DEFINE over == [stereo.r EXCEPT !.dec = With(@, Side, side)]
  <2>1. AtFrames(over, p, one) /\ StereoMems(over.dec, mem, 0)
    BY <1>5, SideStartsOver, Zenon
  <2> HIDE DEF side, back, over
  <2>2. CASE back
    <3>1. r2 = over /\ s = 0
      BY <2>2, Zenon DEF over
    <3> HIDE DEF r2, s
    <3>2. QED
      BY <2>1, <3>1
  <2>3. CASE ~back
    <3>1. r2 = stereo.r /\ s = was
      BY <2>3, Zenon
    <3> HIDE DEF r2, s
    <3>2. QED
      BY <1>5, <3>1
  <2>4. QED
    BY <2>2, <2>3
<1>17. p.chans = 2 /\ (stereo.only <=> only)
  BY <1>4, SMT DEF StereoFacts
<1>18. ~only => s = IF d.midOnly THEN 0 ELSE was
  BY <1>17, Zenon
<1> HIDE DEF s
<1> HIDE DEF r2, mid
<1>7. p.chans = 2 /\ p.chans # 1 /\ Side = 1
  BY SMT DEF StereoFacts, Side
<1> DEFINE other == IF only THEN PassSide(mid) ELSE DecodeChannel(mid, p, "normal", 1)
<1>8. FramesHeard(mid, r2, other, p, one, only)
  BY Zenon DEF FramesHeard, mid
<1>9. HeardStereo(other, p) /\ mid.ok /\ StereoLearnt(other, p, one, only, mem, s)
  BY <1>1, <1>6, <1>8, HearsStereo, Zenon
<1>10. HasSide(r2, "normal", p.chans, stereo.only) <=> ~only
  <2>1. HasSide(r2, "normal", p.chans, stereo.only) = ~stereo.only
    <3> DEFINE a == ~stereo.only
               b == ~r2.dec.midOnly
               c == ~r2.dec.midOnly \/ (p.chans = 2 /\ r2.dec.ch[Side].n \in r2.dec.ch[Side].lbrr)
    <3>1. HasSide(r2, "normal", p.chans, stereo.only)
            = CASE "normal" = "normal" -> a [] "normal" = "loss" -> b [] "normal" = "lbrr" -> c
      BY DEF HasSide
    <3>2. "normal" # "loss" /\ "normal" # "lbrr"
      BY SMT
    <3> HIDE DEF a, b, c
    <3>3. HasSide(r2, "normal", p.chans, stereo.only) = a
      BY <3>1, <3>2, Zenon
    <3>4. QED
      BY <3>3 DEF a
  <2>2. QED
    BY <1>4, <2>1
<1>11. both = other
  <2>1. both = IF HasSide(r2, "normal", p.chans, stereo.only) THEN DecodeChannel(mid, p, "normal", 1)
               ELSE PassSide(mid)
    BY <1>7, <1>9, Zenon
  <2> HIDE DEF both
  <2>2. QED
    BY <1>10, <2>1, Zenon
<1> HIDE DEF both, other
<1>12. both \in Reads /\ both.ok /\ both.pos = Len(p.items) + 1 /\ \A h \in both.heard : h.flag = "normal"
  BY <1>9, <1>11, Zenon DEF HeardStereo
<1> DEFINE y == [both EXCEPT !.dec = [@ EXCEPT !.midOnly = stereo.only]]
<1>13. /\ y \in Reads /\ y.ok = both.ok /\ y.heard = both.heard /\ y.pos = both.pos
       /\ y.dec.ch = both.dec.ch /\ y.dec.chans = both.dec.chans /\ y.dec.midOnly = stereo.only
  BY <1>4, <1>12, MidOnlySet, Zenon
<1>19. StereoLearnt(both, p, one, only, mem, s)
  BY <1>9, <1>11
<1>20. StereoLearnt(y, p, one, only, mem, s)
  <2> HIDE DEF y
  <2>1. QED
    BY <1>13, <1>19, Zenon DEF StereoLearnt, Together
<1>21. FirstItem(p) = one /\ (MidAlone(p) <=> only)
  <2>1. /\ one \in {0, 1} /\ (one = 1 <=> 0 \notin p.vad[1])
        /\ (only <=> (one = 1 /\ p.items[2].set))
    BY <1>1, Zenon DEF StereoNumbers
  <2>2. FirstItem(p) = one
    BY ONLY <2>1, SMT DEF FirstItem
  <2>3. QED
    BY <2>1, <2>2, Zenon DEF MidAlone
<1>14. x = y
  BY <1>2
<1> HIDE DEF y
<1>15. HeardStereo(x, p)
  BY <1>12, <1>13, <1>14, Zenon DEF HeardStereo
<1>22. StereoLearnt(x, p, one, only, mem, s) /\ x.dec.midOnly = stereo.only
  BY <1>13, <1>14, <1>20
<1>23. StereoLearnt(x, p, FirstItem(p), MidAlone(p), mem, IF d.midOnly THEN 0 ELSE was)
  <2> DEFINE t == IF d.midOnly THEN 0 ELSE was
  <2> HIDE DEF t
  <2>1. ~only => s = t
    BY <1>18 DEF t
  <2>2. StereoLearnt(x, p, one, MidAlone(p), mem, t)
    BY <1>21, <1>22, <2>1, Zenon DEF StereoLearnt
  <2>3. QED
    BY <1>21, <2>2 DEF t
<1>24. x.dec.midOnly <=> MidAlone(p)
  BY <1>17, <1>21, <1>22
<1>16. QED
  BY <1>15, <1>23, <1>24 DEF x

(* What a call of silk_decode finds in channel c, and in the side channel  *)
(* if it decodes that.                                                     *)
DecMem(d, chans, c, fs) == IF chans > d.chans \/ d.ch[c].fs # fs THEN 0 ELSE d.ch[c].mem

(* The same of the side channel, which starts over after mid-only frames.  *)
DecSide(d, fs) == IF d.midOnly THEN 0 ELSE DecMem(d, 2, 1, fs)

(* A stereo packet is heard from there, and leaves its own.                *)
StereoKept(x, d, p) ==
  /\ x.dec.midOnly <=> MidAlone(p)
  /\ StereoLearnt(x, p, FirstItem(p), MidAlone(p), DecMem(d, 2, 0, p.fs), DecSide(d, p.fs))

(* What one call for a stereo packet comes to: there is only one.          *)
StereoDone(x, d, p, fl) ==
  /\ x.dec \in Decoders /\ x.ok /\ x.pos \in 1..Len(p.items) + 1 /\ Together(x.dec)
  /\ fl = "normal" => x.pos = Len(p.items) + 1 /\ StereoKept(x, d, p)
  /\ \A h \in x.heard : h.flag = "normal"

(* A reader of a packet's first item is one.                               *)
LEMMA FirstReader ==
  ASSUME NEW d \in Decoders, NEW at \in Nat
  PROVE  LET r == [dec |-> d, pos |-> at, ok |-> TRUE, heard |-> {}]
         IN  r \in Reads /\ r.dec = d /\ r.ok /\ r.pos = at /\ r.heard = {}
<1> DEFINE none == {}
           yes == TRUE
           r == [dec |-> d, pos |-> at, ok |-> yes, heard |-> none]
<1>1. none \in SUBSET Heards /\ yes \in BOOLEAN
  BY SMT
<1> HIDE DEF none, yes
<1>2. r \in Reads
  BY <1>1, Zenon DEF Reads
<1>3. r.dec = d /\ r.ok = yes /\ r.pos = at /\ r.heard = none
  BY <1>2, SMT
<1> HIDE DEF r
<1>4. r \in Reads /\ r.dec = d /\ r.ok = TRUE /\ r.pos = at /\ r.heard = {}
  BY <1>2, <1>3 DEF yes, none
<1>5. QED
  BY <1>4, Zenon DEF r, yes, none

(* A whole call for a stereo packet.                                       *)
LEMMA DecodedStereo ==
  ASSUME NEW p, StereoFacts(p), NEW fl \in {"normal", "lbrr"}, NEW d \in Decoders
  PROVE  StereoDone(Decoded(d, fl, TRUE, p, 1), d, p, fl)
<1> DEFINE ready == DecPrepared(d, TRUE, 2, p.ms, p.fs)
           r0 == [dec |-> ready, pos |-> 1, ok |-> TRUE, heard |-> {}]
           r1 == ReadHeader(r0, p, fl)
           x == Decoded(d, fl, TRUE, p, 1)
<1>1. /\ p.chans = 2 /\ p.ms \in {10, 20} /\ p.ms \in Lengths /\ p.fs \in Rates
      /\ 2 \in {1, 2} /\ 1 \in Nat /\ fl # "loss"
      /\ 0 \in {0, 1} /\ 1 \in {0, 1} /\ 0 < 2 /\ 1 < 2
  BY SMT DEF StereoFacts, Lengths
<1>2. ReadyDecoder(d, ready, 2, p.ms, p.fs)
  BY <1>1, PreparedNew, Zenon
<1>3. x = CallFrom(d, fl, p, r1)
  <2>1. ready.ch[0].n = 0
    <3> HIDE DEF ready
    <3>1. QED
      BY <1>1, <1>2, Zenon DEF ReadyDecoder, ReadyToRead
  <2>2. ready = DecPrepared(d, TRUE, p.chans, p.ms, p.fs)
    BY <1>1
  <2> HIDE DEF ready, x
  <2>3. r1 = IF fl # "loss" /\ ready.ch[0].n = 0
               THEN ReadHeader([dec |-> ready, pos |-> 1, ok |-> TRUE, heard |-> {}], p, fl)
               ELSE [dec |-> ready, pos |-> 1, ok |-> TRUE, heard |-> {}]
    BY <1>1, <2>1, Zenon
  <2> HIDE DEF r1
  <2>4. Decoded(d, fl, TRUE, p, 1) = CallFrom(d, fl, p, r1)
    <3> DEFINE new == TRUE
    <3>1. ready = DecPrepared(d, new, p.chans, p.ms, p.fs)
      BY <2>2
    <3> HIDE DEF new
    <3>2. Decoded(d, fl, new, p, 1) = CallFrom(d, fl, p, r1)
      BY <2>3, <3>1, DecodedIs, SMT
    <3>3. QED
      BY <3>2 DEF new
  <2>5. QED
    BY <2>4 DEF x
<1> HIDE DEF ready, x
<1>4. ready \in Decoders /\ ready.chans = 2 /\ ready.midOnly = d.midOnly
      /\ ChannelSized(ready.ch[0], p) /\ ChannelSized(ready.ch[1], p)
  BY <1>1, <1>2, Zenon DEF ReadyDecoder, ReadyToRead, ChannelSized
<1>10. ready.ch[0].mem = DecMem(d, 2, 0, p.fs) /\ ready.ch[1].mem = DecMem(d, 2, 1, p.fs)
  BY <1>1, <1>2, Zenon DEF ReadyDecoder, ReadyToRead, DecMem
<1>5. BeforeStereo(r1, ready, p) /\ StereoMems(r1.dec, ready.ch[0].mem, ready.ch[1].mem)
  BY <1>4, HeaderStereo, Zenon
<1>6. BeforeStereo(r1, d, p) /\ StereoMems(r1.dec, DecMem(d, 2, 0, p.fs), DecMem(d, 2, 1, p.fs))
  <2> HIDE DEF r1
  <2>1. QED
    BY <1>4, <1>5, <1>10, Zenon DEF BeforeStereo
<1>11. Len(p.items) \in Nat
  <2>1. p.items \in Seq(Items)
    BY Zenon DEF StereoFacts, Packets
  <2>2. QED
    BY ONLY <2>1, SMT
<1>12. Len(p.items) + 1 \in 1..Len(p.items) + 1 /\ 1 \in 1..Len(p.items) + 1
  BY ONLY <1>11, SMT
<1> HIDE DEF r1
<1>7. CASE fl = "normal"
  <2> DEFINE y == CallFrom(d, "normal", p, r1)
  <2>1. /\ HeardStereo(y, p) /\ (y.dec.midOnly <=> MidAlone(p))
        /\ StereoLearnt(y, p, FirstItem(p), MidAlone(p), DecMem(d, 2, 0, p.fs),
                        IF d.midOnly THEN 0 ELSE DecMem(d, 2, 1, p.fs))
    BY <1>6, StereoCall, Zenon
  <2> HIDE DEF y
  <2>2. HeardStereo(y, p) /\ StereoKept(y, d, p)
    BY <2>1, Zenon DEF StereoKept, DecSide
  <2>5. x = y
    BY <1>3, <1>7 DEF y
  <2>6. HeardStereo(x, p) /\ StereoKept(x, d, p)
    BY <2>2, <2>5
  <2>3. StereoDone(x, d, p, fl)
    BY <1>12, <2>6, Zenon DEF HeardStereo, StereoDone, StereoKept, StereoLearnt, Reads
  <2>4. QED
    BY <2>3 DEF x
<1>8. CASE fl # "normal"
  <2>1. fl = "lbrr" /\ fl \in {"loss", "lbrr"}
    BY <1>8, SMT
  <2>2. /\ r1 \in Reads /\ r1.ok /\ r1.heard = {} /\ r1.dec.chans = 2 /\ r1.dec.midOnly = d.midOnly
        /\ r1.pos = 1 /\ SameSize(r1.dec.ch[0], r1.dec.ch[1])
        /\ r1.dec.ch[0].n = 0 /\ r1.dec.ch[0].lbrr = {} /\ r1.dec.ch[1].n = 0 /\ r1.dec.ch[1].lbrr = {}
    BY <1>6, Zenon DEF BeforeStereo, ChannelFlagged, ChannelSized, SameSize
  <2>3. \A c \in {0, 1} : r1.dec.ch[c].n = 0 /\ r1.dec.ch[c].lbrr = {}
    BY <2>2, Zenon
  <2>4. BeforeFrame(r1, d, p.chans) /\ p.chans \in {1, 2}
    BY <1>1, <2>2, <2>3, Zenon DEF BeforeFrame, Together
  <2>5. NoneCoded(r1, fl, p.chans)
    BY <2>1, <2>3, Zenon DEF NotCoded, NoneCoded
  <2>6. Unheard(CallFrom(d, fl, p, r1), r1)
    BY <2>1, <2>4, <2>5, NotCodedCall, SMT
  <2>7. Unheard(x, r1)
    BY <1>3, <2>6
  <2>8. StereoDone(x, d, p, fl)
    BY <1>8, <1>12, <2>2, <2>7, Zenon DEF Unheard, StereoDone, Reads
  <2>9. QED
    BY <2>8 DEF x
<1>9. QED
  BY <1>7, <1>8

(* A packet that never arrived, and what concealing it comes to.           *)
NeverArrived(p) == p.chans \in {1, 2} /\ p.ms \in Lengths /\ p.fs \in Rates

(* And what a call for it has to leave.                                    *)
ConcealDone(d, p) ==
  LET x == Decoded(d, "loss", TRUE, p, 1) IN x.dec \in Decoders /\ Together(x.dec)

(* A call for a packet that never arrived leaves a decoder.                *)
LEMMA ConcealedCall ==
  ASSUME NEW p, NeverArrived(p), NEW d \in Decoders
  PROVE  ConcealDone(d, p)
<1>0. p.chans \in {1, 2} /\ p.ms \in Lengths /\ p.fs \in Rates
  BY Zenon DEF NeverArrived
<1> SUFFICES ASSUME p.chans \in {1, 2}, p.ms \in Lengths, p.fs \in Rates
             PROVE  /\ Decoded(d, "loss", TRUE, p, 1).dec \in Decoders
                    /\ Together(Decoded(d, "loss", TRUE, p, 1).dec)
  BY <1>0 DEF ConcealDone
<1> DEFINE fl == "loss"
           ready == DecPrepared(d, TRUE, p.chans, p.ms, p.fs)
           r1 == [dec |-> ready, pos |-> 1, ok |-> TRUE, heard |-> {}]
           x == Decoded(d, fl, TRUE, p, 1)
<1>1. fl \in {"loss", "lbrr"} /\ ~(fl # "loss") /\ 1 \in Nat
  BY SMT
<1>2. ReadyDecoder(d, ready, p.chans, p.ms, p.fs)
  BY PreparedNew, Zenon
<1>3. x = CallFrom(d, fl, p, r1)
  <2> HIDE DEF fl, ready
  <2>1. r1 = IF fl # "loss" /\ ready.ch[0].n = 0
               THEN ReadHeader([dec |-> ready, pos |-> 1, ok |-> TRUE, heard |-> {}], p, fl)
               ELSE [dec |-> ready, pos |-> 1, ok |-> TRUE, heard |-> {}]
    BY <1>1, Zenon
  <2>2. ready = DecPrepared(d, TRUE, p.chans, p.ms, p.fs)
    BY DEF ready
  <2> HIDE DEF r1
  <2>3. Decoded(d, fl, TRUE, p, 1) = CallFrom(d, fl, p, r1)
    <3> DEFINE new == TRUE
    <3>1. ready = DecPrepared(d, new, p.chans, p.ms, p.fs)
      BY <2>2
    <3> HIDE DEF new
    <3>2. Decoded(d, fl, new, p, 1) = CallFrom(d, fl, p, r1)
      BY <2>1, <3>1, DecodedIs, SMT
    <3>3. QED
      BY <3>2 DEF new
  <2>4. QED
    BY <2>3
<1> HIDE DEF ready, x
<1>4. ready \in Decoders /\ ready.chans = p.chans /\ ready.midOnly = d.midOnly
      /\ \A c \in {0, 1} : c < p.chans => ready.ch[c].n = 0
  BY <1>2, Zenon DEF ReadyDecoder, ReadyToRead
<1>11. Together(ready)
  <2> HIDE DEF ready
  <2>1. ASSUME p.chans = 2
        PROVE  SameSize(ready.ch[0], ready.ch[1]) /\ ready.ch[0].n = ready.ch[1].n
    <3>1. 0 \in {0, 1} /\ 1 \in {0, 1} /\ 0 < p.chans /\ 1 < p.chans
      BY ONLY <2>1, SMT
    <3>2. QED
      BY <1>2, <3>1, Zenon DEF ReadyDecoder, ReadyToRead, SameSize
  <2>2. QED
    BY <1>4, <2>1, Zenon DEF Together
<1>5. r1 \in Reads /\ r1.dec = ready /\ r1.ok /\ r1.heard = {}
  BY <1>1, <1>4, FirstReader, Zenon
<1> HIDE DEF r1, fl
<1>6. BeforeFrame(r1, d, p.chans)
  BY <1>4, <1>5, <1>11, Zenon DEF BeforeFrame
<1>7. NoneCoded(r1, fl, p.chans)
  BY <1>1, Zenon DEF NotCoded, NoneCoded, fl
<1>8. Unheard(CallFrom(d, fl, p, r1), r1)
  BY <1>1, <1>6, <1>7, NotCodedCall, SMT
<1>9. x.dec \in Decoders /\ Together(x.dec)
  BY <1>3, <1>8, Zenon DEF Unheard, Reads
<1>10. QED
  BY <1>9 DEF x, fl

(* An encoder that has started over with a prefill.                        *)
StartedOver(x, e, chans) ==
  /\ x \in Encoders /\ x.ch[0].lbrr = {} /\ (chans = 2 \/ Silent(e) => Silent(x))
  /\ x.chans = chans /\ \A c \in {0, 1} : c < chans => x.ch[c].mem = 0

(* A prefill makes the channels new, without copies.                       *)
LEMMA PrefilledLemma ==
  ASSUME NEW e \in Encoders, NEW chans \in {1, 2}, NEW fs \in Rates, NEW mid \in BOOLEAN
  PROVE  StartedOver(Prefilled(e, chans, fs, mid), e, chans)
<1> DEFINE wide == Widened(e, chans)
           g == [c \in {0, 1} |-> IF c < chans THEN EncChannelFresh ELSE wide.ch[c]]
           blank == [wide EXCEPT !.ch = g]
           r == Controlled(blank, chans, 10, fs)
           m == IF chans = 2 THEN mid ELSE r.midOnly
           x == Prefilled(e, chans, fs, mid)
<1>1. x = [r EXCEPT !.midOnly = m]
  BY Zenon DEF Prefilled
<1>2. /\ 10 \in Lengths /\ 0 \in {0, 1} /\ 1 \in {0, 1} /\ 0 < chans /\ (chans = 2 => 1 < chans)
      /\ \A c \in {0, 1} : c = 0 \/ c = 1
  BY SMT DEF Lengths
<1>3. wide \in Encoders /\ (Silent(e) => Silent(wide))
  BY WidenedLemma, Zenon
<1> HIDE DEF wide
<1>4. \A c \in {0, 1} : wide.ch[c] \in EncChannels
  BY <1>3, SMT DEF Encoders
<1>5. \A c \in {0, 1} : g[c] \in EncChannels
                        /\ (c < chans => g[c].lbrr = {} /\ g[c].mem = 0)
                        /\ (Silent(e) => g[c].lbrr = {})
  <2> TAKE c \in {0, 1}
  <2>1. CASE c < chans
    <3>1. g[c] = EncChannelFresh
      BY <2>1, Zenon
    <3>3. EncChannelFresh.mem = 0
      BY Zenon DEF EncChannelFresh
    <3> HIDE DEF g
    <3>2. QED
      BY <3>1, <3>3, <2>1, FreshEncChannel, Zenon
  <2>2. CASE ~(c < chans)
    <3>1. g[c] = wide.ch[c]
      BY <2>2, Zenon
    <3> HIDE DEF g
    <3>2. QED
      BY <1>3, <1>4, <2>2, <3>1, Zenon DEF Silent
  <2>3. QED
    BY <2>1, <2>2
<1>6. g \in [{0, 1} -> EncChannels]
  <2>1. g = [c \in {0, 1} |-> g[c]]
    BY Zenon
  <2> HIDE DEF g
  <2>2. QED
    BY <1>5, <2>1, SMT
<1> HIDE DEF g
<1>7. blank \in Encoders /\ blank.ch = g
  <2>1. blank \in Encoders
    BY <1>3, <1>6, Zenon DEF Encoders
  <2>2. QED
    BY <1>3, <2>1, Zenon DEF Encoders
<1> HIDE DEF blank
<1>8. ReadyEncoder(blank, r, chans, 10, fs)
  BY <1>2, <1>7, ControlledLemma, Zenon
<1> HIDE DEF r
<1>9. /\ r \in Encoders
      /\ r.chans = chans
      /\ \A c \in {0, 1} : (c < chans => /\ r.ch[c].lbrr \subseteq g[c].lbrr
                                        /\ r.ch[c].mem = IF g[c].fs = fs THEN g[c].mem ELSE 0)
                           /\ (~(c < chans) => r.ch[c] = g[c])
  BY <1>7, <1>8, Zenon DEF ReadyEncoder, ReadyChannel
<1>10. \A c \in {0, 1} : (c < chans \/ Silent(e)) => r.ch[c].lbrr = {}
  BY <1>5, <1>9, Zenon
<1>16. \A c \in {0, 1} : c < chans => r.ch[c].mem = 0
  BY <1>5, <1>9, Zenon
<1>11. m \in BOOLEAN
  <2>1. r.midOnly \in BOOLEAN
    BY <1>9, Zenon DEF Encoders
  <2>2. QED
    BY <2>1, Zenon
<1> HIDE DEF m, x
<1>12. x \in Encoders
  BY <1>1, <1>9, <1>11, Zenon DEF Encoders
<1>13. x.ch = r.ch /\ x.chans = r.chans
  BY <1>1, <1>9, Zenon DEF Encoders
<1>14. StartedOver(x, e, chans)
  BY <1>2, <1>9, <1>10, <1>12, <1>13, <1>16, Zenon DEF StartedOver, Silent
<1>15. QED
  BY <1>14 DEF x

(* Signals the analysis finds.                                             *)
PicksFit(picks, frames) ==
  \A f \in 0..(frames - 1) : picks[f + 1].mid \in Kinds /\ picks[f + 1].side \in Kinds \cup {"absent"}

(* The frames of the packet p are predicted from mem, or from mem and      *)
(* side, and then each from the one before it; the encoder x is left with  *)
(* the last of each channel.                                               *)
MonoPredicted(x, p, mem) ==
  LET frames == FramesPerPacket(p.ms)
  IN  /\ x.ch[0].fs = p.fs /\ x.ch[0].mem = p.items[Len(p.items)].name
      /\ MemoriesChain(p.items, CopySet(p), frames, frames, mem)

(* The same of a packet of either kind.                                    *)
Predicted(x, p, mem, side) ==
  /\ p.chans = 1 => MonoPredicted(x, p, mem)
  /\ p.chans = 2 => StereoPredicted(x, p, mem, side)

(* The packet is for chans channels, predicted from what e holds.          *)
PredictedFrom(e, z, chans) ==
  LET p == z.packet
  IN  p.chans = chans /\ Predicted(z.enc, p, StartMem(e, chans, 0, p.fs), StartSide(e, p.fs))

(* What every packet is that the encoder makes.                            *)
EncodeHolds(z, number, fec) ==
  LET p == z.packet
  IN  /\ z.enc \in Encoders /\ CopiesKept(z.enc, number + 1) /\ (~fec => Silent(z.enc))
      /\ p \in Packets /\ p.number = number + 1 /\ p.chans \in {1, 2} /\ p.ms \in Lengths
      /\ p.fs \in Rates
      /\ p.chans = 1 => MonoPacket(p)
      /\ p.chans = 2 => StereoPacket(p)

(* A packet of either kind is one that PacketHolds admits, and the copies  *)
(* are of it.                                                              *)
LEMMA EncodedHolds ==
  ASSUME NEW e \in Encoders, NEW number \in Nat, CopiesKept(e, number), NEW fec \in BOOLEAN,
         ~fec => Silent(e), NEW chans \in {1, 2}, NEW ms \in Lengths, NEW fs \in Rates,
         chans = 2 => ~fec /\ ms \in {10, 20}, NEW picks, PicksFit(picks, FramesPerPacket(ms))
  PROVE  LET z == Encoded(e, chans, ms, fs, picks, fec, number + 1)
         IN  EncodeHolds(z, number, fec) /\ PredictedFrom(e, z, chans)
<1> DEFINE z == Encoded(e, chans, ms, fs, picks, fec, number + 1)
<1>1. CASE chans = 1
  <2>1. \A f \in 0..(FramesPerPacket(ms) - 1) : picks[f + 1].mid \in Kinds
    BY Zenon DEF PicksFit
  <2>2. MonoOutcome(e, Encoded(e, 1, ms, fs, picks, fec, number + 1), ms, fs, number, fec)
    BY <2>1, EncodedMono, Zenon
  <2>3. MonoOutcome(e, z, ms, fs, number, fec)
    BY <1>1, <2>2
  <2> HIDE DEF z
  <2>4. /\ z.enc \in Encoders /\ z.enc.ch[1] = e.ch[1]
        /\ z.packet \in Packets /\ z.packet.number = number + 1 /\ z.packet.chans = 1
        /\ z.packet.ms = ms /\ z.packet.fs = fs /\ MonoPacket(z.packet)
        /\ CopiesKept(z.enc, number + 1) /\ (fec \/ z.enc.ch[0].lbrr = {})
    BY <2>3, Zenon DEF MonoOutcome
  <2>9. MonoPredicted(z.enc, z.packet, StartMem(e, 1, 0, fs))
    <3> DEFINE mem == IF e.ch[0].fs = fs THEN e.ch[0].mem ELSE 0
    <3>1. 0 # 1
      BY SMT
    <3>2. mem = StartMem(e, 1, 0, fs)
      BY <3>1, Zenon DEF StartMem
    <3>3. /\ z.packet.ms = ms /\ z.packet.fs = fs /\ z.enc.ch[0].fs = fs
          /\ z.enc.ch[0].mem = z.packet.items[Len(z.packet.items)].name
          /\ MemoriesChain(z.packet.items, CopySet(z.packet), FramesPerPacket(ms), FramesPerPacket(ms), mem)
      BY <2>3, Zenon DEF MonoOutcome
    <3> HIDE DEF mem
    <3>4. QED
      BY <3>2, <3>3, Zenon DEF MonoPredicted
  <2>5. ~fec => Silent(z.enc)
    <3>1. 1 \in {0, 1} /\ \A c \in {0, 1} : c = 0 \/ c = 1
      BY SMT
    <3>2. QED
      BY <2>4, <3>1, Zenon DEF Silent
  <2>6. 1 \in {1, 2} /\ 1 # 2
    BY SMT
  <2>7. EncodeHolds(z, number, fec)
    BY <2>4, <2>5, <2>6, Zenon DEF EncodeHolds
  <2>10. PredictedFrom(e, z, 1)
    BY <2>4, <2>6, <2>9, Zenon DEF PredictedFrom, Predicted
  <2>8. QED
    BY <1>1, <2>7, <2>10 DEF z
<1>2. CASE chans = 2
  <2>1. fec = FALSE /\ ms \in {10, 20} /\ Silent(e)
    BY <1>2
  <2>2. picks[1].mid \in Kinds /\ picks[1].side \in Kinds \cup {"absent"}
    <3>1. 0 \in 0..(FramesPerPacket(ms) - 1) /\ 0 + 1 = 1
      BY <2>1, SMT DEF FramesPerPacket
    <3>2. QED
      BY <3>1, Zenon DEF PicksFit
  <2> DEFINE two == Encoded(e, 2, ms, fs, picks, FALSE, number + 1)
  <2>3. /\ StereoOutcome(two, ms, fs, number)
        /\ StereoPredicted(two.enc, two.packet, StartMem(e, 2, 0, fs), StartSide(e, fs))
    BY <2>1, <2>2, EncodedStereo, Zenon
  <2>10. z = two
    BY <1>2, <2>1
  <2> HIDE DEF two
  <2>4. /\ StereoOutcome(z, ms, fs, number)
        /\ StereoPredicted(z.enc, z.packet, StartMem(e, 2, 0, fs), StartSide(e, fs))
    BY <2>3, <2>10
  <2> HIDE DEF z
  <2>5. /\ z.enc \in Encoders /\ Silent(z.enc)
        /\ z.packet \in Packets /\ z.packet.number = number + 1 /\ z.packet.chans = 2
        /\ z.packet.ms = ms /\ z.packet.fs = fs /\ StereoPacket(z.packet)
    BY <2>4, Zenon DEF StereoOutcome
  <2>6. CopiesKept(z.enc, number + 1)
    <3>1. z.enc.ch[0].lbrr = {}
      BY <2>5, SMT DEF Silent
    <3>2. QED
      BY <3>1, Zenon DEF CopiesKept
  <2>7. 2 \in {1, 2} /\ 1 # 2
    BY SMT
  <2>8. EncodeHolds(z, number, fec)
    BY <2>5, <2>6, <2>7, Zenon DEF EncodeHolds
  <2>11. PredictedFrom(e, z, 2)
    BY <2>4, <2>5, <2>7, Zenon DEF PredictedFrom, Predicted
  <2>9. QED
    BY <1>2, <2>8, <2>11 DEF z
<1>3. QED
  BY <1>1, <1>2

(* A new encoder.                                                          *)
LEMMA FreshEncoder == EncFresh \in Encoders /\ Silent(EncFresh)
<1> DEFINE g == [c \in {0, 1} |-> EncChannelFresh]
<1>1. g \in [{0, 1} -> EncChannels] /\ \A c \in {0, 1} : g[c].lbrr = {}
  BY FreshEncChannel, SMT
<1>2. EncFresh = [chans |-> 1, ms |-> 0, midOnly |-> FALSE, ch |-> g]
  BY Zenon DEF EncFresh
<1> HIDE DEF g
<1>3. 1 \in {1, 2} /\ 0 \in {0} \cup Lengths /\ FALSE \in BOOLEAN
  BY SMT
<1>4. EncFresh \in Encoders
  BY <1>1, <1>2, <1>3, Zenon DEF Encoders
<1>5. EncFresh.ch = g
  BY <1>2, SMT
<1>6. QED
  BY <1>1, <1>4, <1>5, Zenon DEF Silent

(* A new decoder, or one reset.                                            *)
LEMMA FreshDecoder ==
  /\ DecFresh \in Decoders
  /\ \A d \in Decoders : DecReset(d) \in Decoders
<1> DEFINE g == [c \in {0, 1} |-> DecChannelFresh]
<1>1. g \in [{0, 1} -> DecChannels]
  BY FreshChannel, SMT
<1>2. DecFresh = [chans |-> 1, midOnly |-> FALSE, ch |-> g]
  BY Zenon DEF DecFresh
<1> HIDE DEF g
<1>3. 1 \in {1, 2} /\ FALSE \in BOOLEAN
  BY SMT
<1>4. DecFresh \in Decoders
  BY <1>1, <1>2, <1>3, Zenon DEF Decoders
<1>5. ASSUME NEW d \in Decoders
      PROVE  DecReset(d) \in Decoders
  <2>1. d.chans \in {1, 2}
    BY Zenon DEF Decoders
  <2>2. QED
    BY <1>4, <2>1, Zenon DEF DecReset, Decoders
<1>6. QED
  BY <1>4, <1>5

(* What stands for the packet before the first.                            *)
LEMMA NoPacketYet == NoPacket \in Packets /\ NoPacket.chans = 0 /\ NoPacket.number = 0
<1> DEFINE none == {}
           items == <<>>
           vad == [c \in {0, 1} |-> none]
           lbrr == [c \in {0, 1} |-> FALSE]
<1>1. /\ 0 \in {0, 1, 2} /\ 0 \in {0} \cup Lengths /\ 0 \in {0} \cup Rates /\ 0 \in Nat
      /\ items \in Seq(Items)
      /\ vad \in [{0, 1} -> SUBSET (0..2)] /\ lbrr \in [{0, 1} -> BOOLEAN]
  <2>1. items \in Seq(Items)
    BY SMT
  <2>2. vad \in [{0, 1} -> SUBSET (0..2)]
    BY SMT
  <2>3. lbrr \in [{0, 1} -> BOOLEAN]
    BY SMT
  <2>4. 0 \in {0, 1, 2} /\ 0 \in {0} \cup Lengths /\ 0 \in {0} \cup Rates /\ 0 \in Nat
    BY SMT
  <2>5. QED
    BY <2>1, <2>2, <2>3, <2>4
<1>2. NoPacket = [chans |-> 0, ms |-> 0, fs |-> 0, number |-> 0, items |-> items, vad |-> vad, lbrr |-> lbrr]
  BY Zenon DEF NoPacket
<1> HIDE DEF items, vad, lbrr
<1>3. NoPacket \in Packets
  BY <1>1, <1>2, Zenon DEF Packets
<1>4. QED
  BY <1>2, <1>3, SMT

(* Without copies there is nothing to be said of them.                     *)
LEMMA SilentKeepsNone ==
  ASSUME NEW e, Silent(e), NEW number
  PROVE  CopiesKept(e, number)
<1>1. e.ch[0].lbrr = {}
  BY SMT DEF Silent
<1>2. QED
  BY <1>1, Zenon DEF CopiesKept

(* The invariant holds at first.                                           *)
LEMMA Initial ==
  ASSUME Init
  PROVE  LinkInv
<1>1. /\ setup \in DOMAIN Setups /\ enc = EncFresh /\ dec = DecFresh /\ packet = NoPacket
      /\ phase = "idle" /\ flag = "normal" /\ pos = 1 /\ calls = 0
      /\ control = [chans |-> 0, fs |-> 0] /\ celt = FALSE /\ heard = {}
  BY Zenon DEF Init, Start
<1>2. /\ phase \in {"idle", "sent", "decoding"} /\ flag \in {"normal", "lbrr"}
      /\ pos \in Nat /\ calls \in Nat /\ celt \in BOOLEAN
      /\ control \in [chans : {0, 1, 2}, fs : {0} \cup Rates] /\ ~(control.chans > 0)
  <2>1. "idle" \in {"idle", "sent", "decoding"} /\ "normal" \in {"normal", "lbrr"}
        /\ 1 \in Nat /\ 0 \in Nat /\ FALSE \in BOOLEAN /\ 0 \in {0, 1, 2} /\ 0 \in {0} \cup Rates
        /\ ~(0 > 0)
    BY ONLY TRUE, SMT
  <2>2. control.chans = 0
    BY ONLY <1>1, SMT
  <2>3. control \in [chans : {0, 1, 2}, fs : {0} \cup Rates]
    BY <1>1, <2>1, Zenon
  <2>4. QED
    BY <1>1, <2>1, <2>2, <2>3
<1>3. TypeHolds
  BY <1>1, <1>2, FreshEncoder, FreshDecoder, NoPacketYet, Zenon DEF TypeHolds
<1>4. CopiesKept(enc, packet.number)
  BY <1>1, FreshEncoder, SilentKeepsNone, Zenon
<1>5. NoneKept
  BY <1>1, FreshEncoder, Zenon DEF NoneKept, Silent
<1>6. PacketHolds
  <2>1. packet.chans = 0
    BY <1>1, NoPacketYet
  <2>2. packet.chans \notin {1, 2} /\ packet.chans # 1 /\ packet.chans # 2
    BY ONLY <2>1, SMT
  <2>3. phase \notin {"sent", "decoding"}
    BY ONLY <1>1, SMT
  <2>4. QED
    BY <2>2, <2>3, Zenon DEF PacketHolds
<1>7. ReaderHolds
  <2>1. phase # "decoding"
    BY ONLY <1>1, SMT
  <2>2. QED
    BY <2>1, Zenon DEF ReaderHolds
<1>8. QED
  BY <1>3, <1>4, <1>5, <1>6, <1>7 DEF LinkInv

(* What the next actions leave alone keeps what is said of it.             *)
LEMMA Untouched ==
  ASSUME LinkInv, UNCHANGED <<setup, enc, packet>>, phase' \in {"idle", "sent"},
         phase' = "sent" => phase \in {"sent", "decoding"},
         TypeHolds'
  PROVE  LinkInv'
<1>1. CopiesKept(enc', packet'.number)
  BY Zenon DEF LinkInv
<1>2. NoneKept'
  BY Zenon DEF LinkInv, NoneKept, Fec
<1>3. phase' # "decoding" /\ (phase' \in {"sent", "decoding"} => phase \in {"sent", "decoding"})
  <2>1. phase' # "decoding"
    BY SMT
  <2>2. QED
    BY <2>1, Zenon
<1>4. PacketHolds'
  BY <1>3, Zenon DEF LinkInv, PacketHolds
<1>5. ReaderHolds'
  BY <1>3, Zenon DEF ReaderHolds
<1>6. QED
  BY <1>1, <1>2, <1>4, <1>5 DEF LinkInv

(* A lost packet keeps it.                                                 *)
LEMMA LoseStep ==
  ASSUME LinkInv, Lose
  PROVE  LinkInv'
<1>1. phase' = "idle" /\ UNCHANGED <<setup, enc, dec, packet, flag, pos, calls, control, celt, heard>>
  BY Zenon DEF Lose
<1>2. phase' \in {"idle", "sent", "decoding"} /\ phase' \in {"idle", "sent"} /\ phase' # "sent"
  BY ONLY <1>1, SMT
<1>3. TypeHolds'
  BY <1>1, <1>2, Zenon DEF LinkInv, TypeHolds
<1>4. QED
  BY <1>1, <1>2, <1>3, Untouched, Zenon

(* So does a packet in another mode.                                       *)
LEMMA InterludeStep ==
  ASSUME LinkInv, NEW received \in BOOLEAN, Interlude(received)
  PROVE  LinkInv'
<1>1. /\ phase = "idle" /\ celt' = TRUE /\ heard' = {}
      /\ dec' = (IF received THEN DecReset(dec) ELSE dec)
      /\ control' = (IF received THEN [chans |-> 0, fs |-> 0] ELSE control)
      /\ UNCHANGED <<setup, enc, packet, phase, flag, pos, calls>>
  BY Zenon DEF Interlude
<1>2. phase' \in {"idle", "sent", "decoding"} /\ phase' \in {"idle", "sent"} /\ phase' # "sent"
  BY ONLY <1>1, SMT
<1>3. dec' \in Decoders
  BY <1>1, FreshDecoder, Zenon DEF LinkInv, TypeHolds
<1>4. /\ control' \in [chans : {0, 1, 2}, fs : {0} \cup Rates]
      /\ control'.chans > 0 => control'.fs \in Rates
  <2> DEFINE none == [chans |-> 0, fs |-> 0]
  <2>1. none.chans = 0 /\ 0 \in {0, 1, 2} /\ 0 \in {0} \cup Rates /\ ~(0 > 0)
    BY SMT
  <2>2. none \in [chans : {0, 1, 2}, fs : {0} \cup Rates]
    BY <2>1, Zenon
  <2> HIDE DEF none
  <2>3. control' = none \/ control' = control
    BY <1>1, Zenon DEF none
  <2>4. QED
    BY <2>1, <2>2, <2>3, Zenon DEF LinkInv, TypeHolds
<1>5. TypeHolds'
  BY <1>1, <1>2, <1>3, <1>4, Zenon DEF LinkInv, TypeHolds
<1>6. QED
  BY <1>1, <1>2, <1>5, Untouched, Zenon

(* So does a reset of the receiver.                                        *)
LEMMA ResetStep ==
  ASSUME LinkInv, ResetReceiver
  PROVE  LinkInv'
<1>1. /\ phase = "idle" /\ heard' = {} /\ dec' = DecFresh /\ control' = [chans |-> 0, fs |-> 0]
      /\ UNCHANGED <<setup, enc, packet, phase, flag, pos, calls, celt>>
  BY Zenon DEF ResetReceiver
<1>2. phase' \in {"idle", "sent", "decoding"} /\ phase' \in {"idle", "sent"} /\ phase' # "sent"
  BY ONLY <1>1, SMT
<1>3. /\ control' \in [chans : {0, 1, 2}, fs : {0} \cup Rates]
      /\ ~(control'.chans > 0)
  <2>1. control'.chans = 0 /\ 0 \in {0, 1, 2} /\ 0 \in {0} \cup Rates /\ ~(0 > 0)
    BY ONLY <1>1, SMT
  <2>2. QED
    BY <1>1, <2>1, Zenon
<1>4. TypeHolds'
  BY <1>1, <1>2, <1>3, FreshDecoder, Zenon DEF LinkInv, TypeHolds
<1>5. QED
  BY <1>1, <1>2, <1>4, Untouched, Zenon

(* So does a concealment between packets.                                  *)
LEMMA ConcealStep ==
  ASSUME LinkInv, NEW ms \in {5, 10, 20}, Conceal(ms)
  PROVE  LinkInv'
<1> DEFINE q == [NoPacket EXCEPT !.chans = control.chans, !.fs = control.fs, !.ms = PayloadMs(ms)]
<1>1. /\ phase = "idle" /\ control.chans > 0 /\ heard' = {}
      /\ dec' = Decoded(dec, "loss", TRUE, q, 1).dec
      /\ UNCHANGED <<setup, enc, packet, phase, flag, pos, calls, control, celt>>
  BY Zenon DEF Conceal
<1>2. phase' \in {"idle", "sent", "decoding"} /\ phase' \in {"idle", "sent"} /\ phase' # "sent"
  BY ONLY <1>1, SMT
<1>3. control.chans \in {1, 2} /\ control.fs \in Rates /\ PayloadMs(ms) \in Lengths
  <2>1. control \in [chans : {0, 1, 2}, fs : {0} \cup Rates] /\ control.fs \in Rates
    BY <1>1, Zenon DEF LinkInv, TypeHolds
  <2>2. control.chans \in {0, 1, 2}
    BY <2>1, Zenon
  <2>3. control.chans \in {1, 2}
    BY ONLY <1>1, <2>2, SMT
  <2>4. PayloadMs(ms) \in Lengths
    BY ONLY ms \in {5, 10, 20}, SMT DEF PayloadMs, Lengths
  <2>5. QED
    BY <2>1, <2>3, <2>4
<1>4. q.chans = control.chans /\ q.fs = control.fs /\ q.ms = PayloadMs(ms)
  BY NoPacketYet, Zenon DEF Packets
<1> HIDE DEF q
<1>5. q.chans \in {1, 2} /\ q.ms \in Lengths /\ q.fs \in Rates
  BY <1>3, <1>4
<1>6. dec \in Decoders
  BY Zenon DEF LinkInv, TypeHolds
<1>7. Decoded(dec, "loss", TRUE, q, 1).dec \in Decoders
  <2>1. NeverArrived(q)
    BY <1>5, Zenon DEF NeverArrived
  <2>2. ConcealDone(dec, q)
    BY <1>6, <2>1, ConcealedCall, Zenon
  <2>3. QED
    BY <2>2, Zenon DEF ConcealDone
<1>8. dec' \in Decoders
  BY <1>1, <1>7
<1>9. TypeHolds'
  BY <1>1, <1>2, <1>8, Zenon DEF LinkInv, TypeHolds
<1>10. QED
  BY <1>1, <1>2, <1>9, Untouched, Zenon

(* What a setup allows.                                                    *)
LEMMA SetupAllows ==
  ASSUME Sound, NEW s \in DOMAIN Setups, NEW chans \in Setups[s].chans, NEW ms \in Setups[s].ms,
         NEW fs \in Setups[s].fs
  PROVE  /\ chans \in {1, 2} /\ ms \in Lengths /\ fs \in Rates /\ Setups[s].fec \in BOOLEAN
         /\ chans = 2 => ~Setups[s].fec /\ ms \in {10, 20}
<1> DEFINE t == Setups[s]
<1>1. t \in Setup /\ SoundSetup(s)
  BY ParametersAreSilk, Zenon DEF Sound
<1>2. /\ t.chans \in SUBSET {1, 2} /\ t.ms \in SUBSET {10, 20, 40, 60}
      /\ t.fs \in SUBSET {8, 12, 16} /\ t.fec \in BOOLEAN
  <2> HIDE DEF t
  <2>1. QED
    BY <1>1, Zenon DEF Setup
<1>3. 2 \in t.chans => ~t.fec /\ t.ms \subseteq {10, 20}
  BY <1>1, Zenon DEF SoundSetup
<1>4. chans \in t.chans /\ ms \in t.ms /\ fs \in t.fs
  OBVIOUS
<1> HIDE DEF t
<1>5. chans \in {1, 2} /\ ms \in Lengths /\ fs \in Rates /\ t.fec \in BOOLEAN
  BY <1>2, <1>4, Zenon DEF Lengths, Rates
<1>6. chans = 2 => ~t.fec /\ ms \in {10, 20}
  BY <1>3, <1>4, Zenon
<1>7. QED
  BY <1>5, <1>6 DEF t

(* What is picked for the frames of a packet.                              *)
LEMMA PicksAllowed ==
  ASSUME NEW chans, NEW frames \in {1, 2, 3}, NEW picks \in [1..frames -> Picks(chans)]
  PROVE  PicksFit(picks, frames)
<1>1. Types \subseteq Kinds
  BY ParametersAreSilk, Zenon DEF Kinds
<1>2. ASSUME NEW p \in Picks(chans)
      PROVE  p.mid \in Kinds /\ p.side \in Kinds \cup {"absent"}
  <2> DEFINE sides == (IF chans = 2 THEN Types ELSE {}) \cup {"absent"}
  <2>1. p \in [mid : Types, side : sides, strong : SUBSET Channels(chans)]
    BY <1>2, Zenon DEF Picks
  <2>2. \A x \in sides : x \in Kinds \cup {"absent"}
    BY <1>1, Zenon
  <2> HIDE DEF sides
  <2>3. p.mid \in Types /\ p.side \in sides
    BY <2>1, Zenon
  <2>4. QED
    BY <1>1, <2>2, <2>3, Zenon
<1>3. ASSUME NEW f \in 0..(frames - 1)
      PROVE  picks[f + 1].mid \in Kinds /\ picks[f + 1].side \in Kinds \cup {"absent"}
  <2>1. f + 1 \in 1..frames
    BY <1>3, SMT
  <2>2. picks[f + 1] \in Picks(chans)
    BY <2>1, Zenon
  <2>3. QED
    BY <1>2, <2>2, Zenon
<1>4. QED
  BY <1>3, Zenon DEF PicksFit

(* The packet of z is made by the encoder e, after a prefill if CELT was   *)
(* on: from start.                                                         *)
EncodeMade(e, on, start, chans, z, number, fec) ==
  /\ EncodeHolds(z, number, fec) /\ PredictedFrom(start, z, chans) /\ chans \in {1, 2}
  /\ IF on THEN StartedOver(start, e, chans) ELSE start = e

(* Encode makes such a packet, for channels the setup has.                 *)
LEMMA EncodeMakes ==
  ASSUME Sound, LinkInv, Encode
  PROVE  \E chans \in Setups[setup].chans : \E start, z :
           EncodeMade(enc, celt, start, chans, z, packet.number, Fec) /\ enc' = z.enc /\ packet' = z.packet
<1>1. PICK chans \in Setups[setup].chans, ms \in Setups[setup].ms, fs \in Setups[setup].fs,
           held \in BOOLEAN :
        /\ held => (celt /\ chans = 2)
        /\ \E picks \in [1 .. FramesPerPacket(ms) -> Picks(chans)] :
             \E start \in {IF celt THEN Prefilled(enc, chans, fs, held) ELSE enc} :
               \E done \in {Encoded(start, chans, ms, fs, picks, Fec, packet.number + 1)} :
                 enc' = done.enc /\ packet' = done.packet
  BY Zenon DEF Encode
<1>3. PICK picks \in [1 .. FramesPerPacket(ms) -> Picks(chans)] :
        \E start \in {IF celt THEN Prefilled(enc, chans, fs, held) ELSE enc} :
          \E done \in {Encoded(start, chans, ms, fs, picks, Fec, packet.number + 1)} :
            enc' = done.enc /\ packet' = done.packet
  BY <1>1, Zenon
<1>10. PICK begun \in {IF celt THEN Prefilled(enc, chans, fs, held) ELSE enc} :
        \E done \in {Encoded(begun, chans, ms, fs, picks, Fec, packet.number + 1)} :
          enc' = done.enc /\ packet' = done.packet
  BY <1>3, Zenon
<1>18. /\ begun = (IF celt THEN Prefilled(enc, chans, fs, held) ELSE enc)
       /\ enc' = Encoded(begun, chans, ms, fs, picks, Fec, packet.number + 1).enc
       /\ packet' = Encoded(begun, chans, ms, fs, picks, Fec, packet.number + 1).packet
  BY <1>10, Zenon
<1> DEFINE start == IF celt THEN Prefilled(enc, chans, fs, held) ELSE enc
           done == Encoded(start, chans, ms, fs, picks, Fec, packet.number + 1)
<1>2. enc' = done.enc /\ packet' = done.packet
  BY <1>18, Zenon
<1>4. /\ TypeHolds /\ CopiesKept(enc, packet.number) /\ (~Fec => Silent(enc))
      /\ setup \in DOMAIN Setups /\ enc \in Encoders /\ packet \in Packets
  BY Zenon DEF LinkInv, TypeHolds, NoneKept, Silent
<1>5. /\ chans \in {1, 2} /\ ms \in Lengths /\ fs \in Rates /\ Fec \in BOOLEAN
      /\ chans = 2 => ~Fec /\ ms \in {10, 20}
  BY <1>4, SetupAllows, Zenon DEF Fec
<1>6. packet.number \in Nat
  BY <1>4, Zenon DEF Packets
<1>7. PicksFit(picks, FramesPerPacket(ms))
  <2>1. FramesPerPacket(ms) \in {1, 2, 3}
    BY <1>5, Durations, Zenon
  <2>2. QED
    BY <2>1, PicksAllowed, Zenon
<1>8. /\ start \in Encoders /\ CopiesKept(start, packet.number) /\ (~Fec => Silent(start))
      /\ IF celt THEN StartedOver(start, enc, chans) ELSE start = enc
  <2>1. CASE celt
    <3>1. StartedOver(Prefilled(enc, chans, fs, held), enc, chans)
      BY <1>4, <1>5, PrefilledLemma, Zenon
    <3>2. start = Prefilled(enc, chans, fs, held)
      BY <2>1, Zenon
    <3> HIDE DEF start
    <3>3. start \in Encoders /\ start.ch[0].lbrr = {} /\ (~Fec => Silent(start))
      BY <1>4, <3>1, <3>2, Zenon DEF StartedOver
    <3>4. CopiesKept(start, packet.number)
      BY <3>3, Zenon DEF CopiesKept
    <3>5. QED
      BY <2>1, <3>1, <3>2, <3>3, <3>4, Zenon
  <2>2. CASE ~celt
    <3>1. start = enc
      BY <2>2, Zenon
    <3> HIDE DEF start
    <3>2. QED
      BY <1>4, <2>2, <3>1
  <2>3. QED
    BY <2>1, <2>2
<1> HIDE DEF start
<1>9. EncodeHolds(done, packet.number, Fec) /\ PredictedFrom(start, done, chans)
  <2> DEFINE fec == Fec
             number == packet.number
  <2>1. /\ start \in Encoders /\ CopiesKept(start, number) /\ (~fec => Silent(start))
        /\ fec \in BOOLEAN /\ number \in Nat /\ (chans = 2 => ~fec /\ ms \in {10, 20})
    BY <1>5, <1>6, <1>8
  <2> HIDE DEF fec, number
  <2>2. /\ EncodeHolds(Encoded(start, chans, ms, fs, picks, fec, number + 1), number, fec)
        /\ PredictedFrom(start, Encoded(start, chans, ms, fs, picks, fec, number + 1), chans)
    BY <1>5, <1>7, <2>1, EncodedHolds, Zenon
  <2>3. QED
    BY <2>2 DEF fec, number
<1> HIDE DEF done
<1>19. EncodeMade(enc, celt, start, chans, done, packet.number, Fec)
  BY <1>5, <1>8, <1>9, Zenon DEF EncodeMade
<1>20. QED
  BY <1>2, <1>19, Zenon

(* A packet encoded keeps it.                                              *)
LEMMA EncodeStep ==
  ASSUME Sound, LinkInv, Encode
  PROVE  LinkInv'
<1>1. PICK chans \in Setups[setup].chans : \E start, z :
           EncodeMade(enc, celt, start, chans, z, packet.number, Fec) /\ enc' = z.enc /\ packet' = z.packet
  BY EncodeMakes, Zenon
<1>2. PICK start, z :
           EncodeMade(enc, celt, start, chans, z, packet.number, Fec) /\ enc' = z.enc /\ packet' = z.packet
  BY <1>1, Zenon
<1>3. /\ phase' = "sent" /\ celt' = FALSE /\ heard' = {} /\ pos' = 1 /\ calls' = 0
      /\ UNCHANGED <<setup, dec, flag, control>>
  BY Zenon DEF Encode
<1>4. TypeHolds
  BY Zenon DEF LinkInv
<1>9. EncodeHolds(z, packet.number, Fec)
  BY <1>2, Zenon DEF EncodeMade
<1>10. /\ enc' \in Encoders /\ CopiesKept(enc', packet.number + 1) /\ (~Fec => Silent(enc'))
       /\ packet' \in Packets /\ packet'.number = packet.number + 1 /\ packet'.chans \in {1, 2}
       /\ packet'.ms \in Lengths /\ packet'.fs \in Rates
       /\ packet'.chans = 1 => MonoPacket(packet')
       /\ packet'.chans = 2 => StereoPacket(packet')
  BY <1>2, <1>9, Zenon DEF EncodeHolds
<1>11. /\ phase' \in {"idle", "sent", "decoding"} /\ phase' # "decoding"
       /\ pos' \in Nat /\ calls' \in Nat /\ celt' \in BOOLEAN
  <2>1. phase' = "sent" /\ pos' = 1 /\ calls' = 0
    BY <1>3
  <2>2. phase' \in {"idle", "sent", "decoding"} /\ phase' # "decoding" /\ pos' \in Nat /\ calls' \in Nat
    BY ONLY <2>1, SMT
  <2>3. celt' \in BOOLEAN
    BY <1>3, Zenon
  <2>4. QED
    BY <2>2, <2>3
<1>12. TypeHolds'
  BY <1>3, <1>4, <1>10, <1>11, Zenon DEF TypeHolds
<1>13. CopiesKept(enc', packet'.number)
  BY <1>10
<1>14. NoneKept'
  BY <1>3, <1>10, Zenon DEF NoneKept, Fec, Silent
<1>15. PacketHolds'
  BY <1>10, Zenon DEF PacketHolds
<1>16. ReaderHolds'
  BY <1>11, Zenon DEF ReaderHolds
<1>17. QED
  BY <1>12, <1>13, <1>14, <1>15, <1>16 DEF LinkInv

(* A packet received keeps it.                                             *)
LEMMA ReceiveStep ==
  ASSUME LinkInv, Receive
  PROVE  LinkInv'
<1>1. /\ phase = "sent" /\ phase' = "decoding" /\ pos' = 1 /\ calls' = 0 /\ heard' = {}
      /\ control' = [chans |-> packet.chans, fs |-> packet.fs]
      /\ flag' \in {"normal", "lbrr"}
      /\ UNCHANGED <<setup, enc, dec, packet, celt>>
  <2>1. flag' \in (IF missing THEN {"normal", "lbrr"} ELSE {"normal"})
    BY Zenon DEF Receive
  <2>2. flag' \in {"normal", "lbrr"}
    BY <2>1, Zenon
  <2>3. QED
    BY <2>2, Zenon DEF Receive
<1>2. /\ TypeHolds /\ CopiesKept(enc, packet.number) /\ NoneKept /\ PacketHolds
  BY Zenon DEF LinkInv
<1>3. /\ phase \in {"sent", "decoding"} /\ phase' \in {"idle", "sent", "decoding"}
      /\ pos' \in Nat /\ calls' \in Nat
  BY ONLY <1>1, SMT
<1>4. packet.chans \in {1, 2} /\ packet.ms \in Lengths /\ packet.fs \in Rates
  BY <1>2, <1>3, Zenon DEF PacketHolds
<1>5. /\ control' \in [chans : {0, 1, 2}, fs : {0} \cup Rates]
      /\ control'.fs \in Rates
  <2>1. packet.chans \in {0, 1, 2} /\ packet.fs \in {0} \cup Rates
    BY <1>4, SMT
  <2>2. control' \in [chans : {0, 1, 2}, fs : {0} \cup Rates]
    BY <1>1, <2>1, Zenon
  <2>3. control'.fs = packet.fs
    BY ONLY <1>1, SMT
  <2>4. QED
    BY <1>4, <2>2, <2>3
<1>6. TypeHolds'
  BY <1>1, <1>2, <1>3, <1>5, Zenon DEF TypeHolds
<1>7. CopiesKept(enc', packet'.number)
  BY <1>1, <1>2, Zenon
<1>8. NoneKept'
  BY <1>1, <1>2, Zenon DEF NoneKept, Fec
<1>9. PacketHolds'
  BY <1>1, <1>2, <1>4, Zenon DEF PacketHolds
<1>10. ReaderHolds'
  <2>1. FramesPerPacket(packet.ms) \in {1, 2, 3}
    BY <1>4, Durations, Zenon
  <2>2. 0 < FramesPerPacket(packet.ms)
    BY ONLY <2>1, SMT
  <2>3. QED
    BY <1>1, <2>2, Zenon DEF ReaderHolds
<1>11. QED
  BY <1>6, <1>7, <1>8, <1>9, <1>10 DEF LinkInv

(* A frame of a mono packet is heard from what was before it, and is left. *)
MonoKept(r, d, p, k) ==
  LET set == CopySet(p)
      frames == FramesPerPacket(p.ms)
      item == p.items[HeadSize(set, frames) + Before(set, frames) + k + 1]
      mem == IF k = 0 THEN DecMem(d, 1, 0, p.fs) ELSE d.ch[0].mem
  IN  /\ r.dec.ch[0].mem = item.name /\ r.dec.ch[0].fs = p.fs
      /\ \A h \in r.heard : h.before = mem /\ h.meant = item.mem

(* The same of a packet.                                                   *)
CallKept(r, d, p, k) ==
  /\ p.chans = 1 => MonoKept(r, d, p, k)
  /\ p.chans = 2 => StereoKept(r, d, p)

(* What a call of silk_decode for frame calls of the packet comes to.      *)
CallDone(r, d, p, fl, k) ==
  LET last == k + 1 = FramesPerPacket(p.ms)
  IN  /\ r.dec \in Decoders /\ r.ok /\ r.pos \in 1..Len(p.items) + 1 /\ Together(r.dec)
      /\ fl = "normal" => CallKept(r, d, p, k)
      /\ last /\ fl = "normal" => r.pos = Len(p.items) + 1
      /\ ~last => Reading(r.dec, p, fl, k + 1, r.pos) /\ k + 1 < FramesPerPacket(p.ms)
      /\ \A h \in r.heard : h.flag = "lbrr" => h.name = NameOf(p.number - 1, h.frame, h.channel) /\ h.fits

(* A call for a frame of a mono packet keeps what the decoder is known by. *)
LEMMA MonoCallDone ==
  ASSUME NEW p, MonoFacts(p), NEW fl \in {"normal", "lbrr"}, NEW k \in Nat,
         k < FramesPerPacket(p.ms), NEW d \in Decoders, NEW at, NEW new \in BOOLEAN, new <=> k = 0,
         IF k = 0 THEN at = 1 ELSE Reading(d, p, fl, k, at)
  PROVE  CallDone(Decoded(d, fl, new, p, at), d, p, fl, k)
<1> DEFINE x == Decoded(d, fl, new, p, at)
           L == CopySet(p)
           F == FramesPerPacket(p.ms)
<1>1. F \in {1, 2, 3} /\ HeadSize(L, F) \in {0, 1} /\ Before(L, F) \in Nat
      /\ Len(p.items) = HeadSize(L, F) + Before(L, F) + F
  BY MonoNumbers, Zenon
<1>2. k \in 0..2 /\ (k + 1 # F => k + 1 < F)
  <2>1. k < F /\ F \in {1, 2, 3}
    BY <1>1
  <2> HIDE DEF F
  <2>2. QED
    BY ONLY <2>1, k \in Nat, SMT
<1>3. CallMono(x, d, p, fl, k)
  BY <1>2, DecodedMono, Zenon
<1> HIDE DEF x
<1>4. x \in Reads /\ x.ok /\ Reading(x.dec, p, fl, k + 1, x.pos)
      /\ HeardMono(x, p, fl, k, IF k = 0 /\ d.ch[0].fs # p.fs THEN 0 ELSE d.ch[0].mem)
  BY <1>3, Zenon DEF CallMono
<1>5. x.dec \in Decoders /\ x.pos \in Nat
  BY <1>4, Zenon DEF Reads
<1>10. x.pos \in 1..Len(p.items) + 1
  <2>1. x.pos = HeadSize(L, F) + 1 + IF fl = "lbrr" THEN Before(L, k + 1) ELSE Before(L, F) + (k + 1)
    BY <1>4, Zenon DEF Reading
  <2>2. k + 1 <= F
    <3>1. k < F /\ F \in {1, 2, 3}
      BY <1>1
    <3> HIDE DEF F
    <3>2. QED
      BY ONLY <3>1, k \in Nat, SMT
  <2>3. Before(L, k + 1) \in Nat /\ Before(L, k + 1) <= Before(L, F)
    <3> HIDE DEF L, F
    <3>1. QED
      BY ONLY <1>1, <2>2, k \in Nat, SMT DEF Before
  <2> HIDE DEF L, F
  <2> DEFINE h == HeadSize(L, F)
             a == Before(L, k + 1)
             b == Before(L, F)
  <2>4. /\ x.pos = h + 1 + a \/ x.pos = h + 1 + (b + (k + 1))
        /\ h \in {0, 1} /\ a \in Nat /\ b \in Nat /\ a <= b /\ k + 1 <= F /\ F \in {1, 2, 3}
        /\ Len(p.items) = h + b + F
    BY <1>1, <2>1, <2>2, <2>3, Zenon
  <2> HIDE DEF h, a, b
  <2>5. QED
    BY ONLY <2>4, k \in Nat, SMT
<1>11. Together(x.dec)
  <2>1. x.dec.chans = 1 /\ 1 # 2
    BY <1>4, SMT DEF Reading
  <2>2. QED
    BY <2>1, Zenon DEF Together
<1>12. ASSUME fl = "normal"
       PROVE  CallKept(x, d, p, k)
  <2> DEFINE was == IF k = 0 /\ d.ch[0].fs # p.fs THEN 0 ELSE d.ch[0].mem
             mem == IF k = 0 THEN DecMem(d, 1, 0, p.fs) ELSE d.ch[0].mem
  <2>1. was = mem
    <3>1. ~(1 > d.chans)
      BY SMT DEF Decoders
    <3>2. QED
      BY <3>1, Zenon DEF DecMem
  <2>2. HeardMono(x, p, fl, k, was) /\ MemoryMono(x, p, fl, k)
    BY <1>3, Zenon DEF CallMono
  <2> HIDE DEF was, mem, L, F
  <2>3. x.dec.ch[0].fs = p.fs
    BY <1>4, Zenon DEF Reading
  <2> DEFINE item == p.items[HeadSize(L, F) + Before(L, F) + k + 1]
  <2> HIDE DEF item
  <2>4. x.dec.ch[0].mem = item.name /\ \A h \in x.heard : h.before = mem /\ h.meant = item.mem
    BY <1>12, <2>1, <2>2, Zenon DEF HeardMono, MemoryMono, item, L, F
  <2>5. MonoKept(x, d, p, k)
    BY <2>3, <2>4, Zenon DEF MonoKept, item, mem, L, F
  <2>6. p.chans = 1 /\ 1 # 2
    BY SMT DEF MonoFacts
  <2>7. QED
    BY <2>5, <2>6, Zenon DEF CallKept
<1>6. ASSUME k + 1 = F, fl = "normal"
      PROVE  x.pos = Len(p.items) + 1
  <2>1. x.pos = HeadSize(L, F) + 1 + IF fl = "lbrr" THEN Before(L, k + 1) ELSE Before(L, F) + (k + 1)
    BY <1>4, Zenon DEF Reading
  <2>2. fl # "lbrr"
    BY ONLY <1>6, SMT
  <2>3. x.pos = HeadSize(L, F) + 1 + (Before(L, F) + F)
    BY <1>6, <2>1, <2>2, Zenon
  <2> HIDE DEF L, F
  <2>4. QED
    BY ONLY <1>1, <2>3, SMT
<1>7. ASSUME NEW h \in x.heard, h.flag = "lbrr"
      PROVE  h.name = NameOf(p.number - 1, h.frame, h.channel) /\ h.fits
  <2>1. h.flag = fl /\ h.channel = 0 /\ h.frame = k
        /\ (fl = "lbrr" => h.name = NameOf(p.number - 1, k, 0) /\ h.fits)
    BY <1>4, Zenon DEF HeardMono
  <2>2. QED
    BY <1>7, <2>1
<1>8. CallDone(x, d, p, fl, k)
  BY <1>2, <1>4, <1>5, <1>6, <1>7, <1>10, <1>11, <1>12, Zenon DEF CallDone
<1>9. QED
  BY <1>8 DEF x

(* So does the one call for a stereo packet.                               *)
LEMMA StereoCallDone ==
  ASSUME NEW p, StereoFacts(p), NEW fl \in {"normal", "lbrr"}, NEW d \in Decoders
  PROVE  CallDone(Decoded(d, fl, TRUE, p, 1), d, p, fl, 0)
<1> DEFINE x == Decoded(d, fl, TRUE, p, 1)
<1>1. StereoDone(x, d, p, fl)
  BY DecodedStereo, Zenon
<1> HIDE DEF x
<1>2. 0 + 1 = FramesPerPacket(p.ms)
  BY SMT DEF StereoFacts, FramesPerPacket
<1>3. "normal" # "lbrr"
  BY ONLY TRUE, SMT
<1>6. p.chans = 2 /\ 1 # 2
  BY SMT DEF StereoFacts
<1>4. CallDone(x, d, p, fl, 0)
  BY <1>1, <1>2, <1>3, <1>6, Zenon DEF StereoDone, CallDone, CallKept
<1>5. QED
  BY <1>4 DEF x

(* What a call of the decoder changes.                                     *)
DecodeMade(r) ==
  LET last == calls + 1 = FramesPerPacket(packet.ms)
  IN  /\ CallDone(r, dec, packet, flag, calls)
      /\ dec' = r.dec /\ heard' = r.heard /\ pos' = r.pos /\ calls' = calls + 1
      /\ phase' = IF last THEN IF flag = "normal" THEN "idle" ELSE "sent" ELSE "decoding"
      /\ phase = "decoding" /\ UNCHANGED <<setup, enc, packet, flag, control, celt, gap>>

(* DecodeFrame makes such a call.                                          *)
LEMMA DecodeMakes ==
  ASSUME LinkInv, DecodeFrame
  PROVE  \E r : DecodeMade(r)
<1> DEFINE new == calls = 0
           r == Decoded(dec, flag, new, packet, pos)
           F == FramesPerPacket(packet.ms)
           last == calls + 1 = F
           rest == r.pos # Len(packet.items) + 1
<1>1. /\ phase = "decoding"
      /\ dec' = r.dec /\ heard' = r.heard /\ pos' = r.pos /\ calls' = calls + 1
      /\ phase' = (CASE ~r.ok \/ (last /\ flag = "normal" /\ rest) -> "misread"
                     [] r.ok /\ last /\ flag = "normal" /\ ~rest -> "idle"
                     [] r.ok /\ last /\ flag = "lbrr" -> "sent"
                     [] OTHER -> "decoding")
      /\ UNCHANGED <<setup, enc, packet, flag, control, celt, gap>>
  <2> HIDE DEF rest, last
  <2>1. QED
    BY Zenon DEF DecodeFrame, rest, last
<1>2. /\ TypeHolds /\ CopiesKept(enc, packet.number) /\ NoneKept /\ PacketHolds /\ ReaderHolds
      /\ dec \in Decoders /\ packet \in Packets /\ flag \in {"normal", "lbrr"} /\ calls \in Nat
  BY Zenon DEF LinkInv, TypeHolds
<1>3. phase \in {"sent", "decoding"}
  BY ONLY <1>1, SMT
<1>4. packet.chans \in {1, 2} /\ packet.ms \in Lengths /\ packet.fs \in Rates
  BY <1>2, <1>3, Zenon DEF PacketHolds
<1>5. calls < F /\ IF calls = 0 THEN pos = 1 ELSE Reading(dec, packet, flag, calls, pos)
  BY <1>1, <1>2, Zenon DEF ReaderHolds
<1>6. new \in BOOLEAN /\ (new <=> calls = 0)
  BY Zenon
<1>7. CallDone(r, dec, packet, flag, calls)
  <2>1. CASE packet.chans = 1
    <3>1. MonoFacts(packet)
      BY <1>2, <1>4, <2>1, Zenon DEF MonoFacts, PacketHolds
    <3> HIDE DEF new
    <3>2. QED
      BY <1>2, <1>5, <1>6, <3>1, MonoCallDone, Zenon
  <2>2. CASE packet.chans = 2
    <3>1. StereoPacket(packet) /\ packet.ms \in {10, 20}
      BY <1>2, <2>2, Zenon DEF PacketHolds, StereoPacket
    <3>2. StereoFacts(packet)
      BY <1>2, <1>4, <2>2, <3>1, Zenon DEF StereoFacts
    <3>3. F = 1
      BY <3>1, SMT DEF FramesPerPacket
    <3>4. calls = 0
      <4> HIDE DEF F
      <4>1. calls < F /\ calls \in Nat
        BY <1>2, <1>5
      <4>2. QED
        BY ONLY <3>3, <4>1, SMT
    <3>5. new = TRUE /\ pos = 1
      BY <1>5, <3>4, Zenon
    <3>6. CallDone(Decoded(dec, flag, TRUE, packet, 1), dec, packet, flag, 0)
      BY <1>2, <3>2, StereoCallDone, Zenon
    <3>7. QED
      BY <3>4, <3>5, <3>6
  <2>3. QED
    BY <1>4, <2>1, <2>2, Zenon
<1> HIDE DEF r, new
<1>8. r.ok /\ (last /\ flag = "normal" => ~rest)
  BY <1>7, Zenon DEF CallDone
<1> HIDE DEF rest
<1>9. phase' = IF last THEN IF flag = "normal" THEN "idle" ELSE "sent" ELSE "decoding"
  <2> HIDE DEF last
  <2> DEFINE misread == ~r.ok \/ (last /\ flag = "normal" /\ rest)
             idle == r.ok /\ last /\ flag = "normal" /\ ~rest
             sent == r.ok /\ last /\ flag = "lbrr"
  <2>1. phase' = CASE misread -> "misread" [] idle -> "idle" [] sent -> "sent" [] OTHER -> "decoding"
    BY <1>1, Zenon
  <2>2. ~misread /\ (last => idle \/ sent) /\ (sent => ~idle)
    <3>1. "normal" # "lbrr"
      BY ONLY TRUE, SMT
    <3>2. QED
      BY <1>2, <1>8, <3>1, Zenon
  <2>5. (idle <=> last /\ flag = "normal") /\ (sent <=> last /\ flag = "lbrr") /\ (flag = "normal" \/ flag = "lbrr")
    BY <1>2, <1>8, Zenon
  <2> HIDE DEF misread, idle, sent
  <2>3. phase' = IF idle THEN "idle" ELSE IF sent THEN "sent" ELSE "decoding"
    BY <2>1, <2>2, Zenon
  <2>4. QED
    BY <2>3, <2>5, Zenon
<1>10. DecodeMade(r)
  BY <1>1, <1>7, <1>9, Zenon DEF DecodeMade
<1>11. QED
  BY <1>10, Zenon

(* A frame decoded keeps the invariant.                                    *)
LEMMA DecodeStep ==
  ASSUME LinkInv, DecodeFrame
  PROVE  LinkInv'
<1>1. PICK r : DecodeMade(r)
  BY DecodeMakes, Zenon
<1> DEFINE F == FramesPerPacket(packet.ms)
           last == calls + 1 = F
<1>2. /\ TypeHolds /\ CopiesKept(enc, packet.number) /\ NoneKept /\ PacketHolds
      /\ calls \in Nat
  BY Zenon DEF LinkInv, TypeHolds
<1>3. /\ CallDone(r, dec, packet, flag, calls)
      /\ dec' = r.dec /\ heard' = r.heard /\ pos' = r.pos /\ calls' = calls + 1
      /\ phase' = (IF last THEN IF flag = "normal" THEN "idle" ELSE "sent" ELSE "decoding")
      /\ phase = "decoding" /\ UNCHANGED <<setup, enc, packet, flag, control, celt>>
  BY <1>1, Zenon DEF DecodeMade
<1> HIDE DEF last
<1>4. packet.chans \in {1, 2}
  <2>1. phase \in {"sent", "decoding"}
    BY ONLY <1>3, SMT
  <2>2. QED
    BY <1>2, <2>1, Zenon DEF PacketHolds
<1>8. /\ r.dec \in Decoders /\ r.pos \in 1..Len(packet.items) + 1
      /\ ~last => Reading(r.dec, packet, flag, calls + 1, r.pos) /\ calls + 1 < F
      /\ \A h \in r.heard : h.flag = "lbrr" =>
           h.name = NameOf(packet.number - 1, h.frame, h.channel) /\ h.fits
  BY <1>3, Zenon DEF CallDone, last
<1>5. r.pos \in Nat
  <2>1. packet.items \in Seq(Items)
    BY <1>2, Zenon DEF TypeHolds, Packets
  <2>2. Len(packet.items) \in Nat
    BY ONLY <2>1, SMT
  <2>3. QED
    BY ONLY <1>8, <2>2, SMT
<1>9. /\ phase' \in {"idle", "sent", "decoding"}
      /\ phase' = "decoding" => ~last
  <2>1. "idle" # "decoding" /\ "sent" # "decoding"
    BY ONLY TRUE, SMT
  <2>2. QED
    BY <1>3, <2>1, Zenon
<1>10. calls + 1 \in Nat /\ calls + 1 # 0
  BY <1>2, SMT
<1>11. TypeHolds'
  BY <1>2, <1>3, <1>5, <1>8, <1>9, <1>10, Zenon DEF TypeHolds
<1>12. CopiesKept(enc', packet'.number)
  BY <1>2, <1>3, Zenon
<1>13. NoneKept'
  BY <1>2, <1>3, Zenon DEF NoneKept, Fec
<1>14. PacketHolds'
  BY <1>2, <1>3, <1>4, Zenon DEF PacketHolds
<1>15. ReaderHolds'
  BY <1>3, <1>8, <1>9, <1>10, Zenon DEF ReaderHolds
<1>16. QED
  BY <1>11, <1>12, <1>13, <1>14, <1>15 DEF LinkInv

(* Every step does.                                                        *)
LEMMA LinkStep ==
  ASSUME Sound, LinkInv, [Next]_vars
  PROVE  LinkInv'
<1>1. CASE Encode
  BY <1>1, EncodeStep
<1>2. CASE \E received \in BOOLEAN : Interlude(received)
  BY <1>2, InterludeStep
<1>3. CASE Lose
  BY <1>3, LoseStep
<1>4. CASE Receive
  BY <1>4, ReceiveStep
<1>5. CASE DecodeFrame
  BY <1>5, DecodeStep
<1>6. CASE \E ms \in {5, 10, 20} : Conceal(ms)
  BY <1>6, ConcealStep
<1>7. CASE ResetReceiver
  BY <1>7, ResetStep
<1>8. CASE UNCHANGED vars
  BY <1>8, ZenonT(60) DEF vars, LinkInv, TypeHolds, NoneKept, Fec, PacketHolds, ReaderHolds
<1>9. QED
  BY <1>1, <1>2, <1>3, <1>4, <1>5, <1>6, <1>7, <1>8, Zenon DEF Next

(* Wherever copies and several frames to a packet are for mono only, as in *)
(* the setups that are run: between any two calls, whatever was lost,      *)
(* reset or interleaved, the packet on its way is a sequence of items in   *)
(* known places, and a decoder in the middle of it is where its calls have *)
(* brought it, with a context its next frame was laid out for.             *)
THEOREM LinkHolds == ASSUME Sound PROVE Spec => []LinkInv
<1>1. Init => LinkInv
  BY Initial
<1>2. LinkInv /\ [Next]_vars => LinkInv'
  BY LinkStep
<1>3. QED
  BY <1>1, <1>2, PTL DEF Spec

(* DecodeFrame never meets an item of another kind, channel or layout than *)
(* it expects, and has read all of a packet when its last call is done:    *)
(* the readers of dec_api.rs and decode_indices.rs follow the writers of   *)
(* enc_api.rs and encode_indices.rs.                                       *)
THEOREM AlwaysInStep == ASSUME Sound PROVE Spec => []InStep
<1>1. LinkInv => InStep
  <2>1. ASSUME LinkInv
        PROVE  InStep
    <3>1. phase \in {"idle", "sent", "decoding"}
      BY <2>1, Zenon DEF LinkInv, TypeHolds
    <3>2. phase # "misread"
      BY ONLY <3>1, SMT
    <3>3. QED
      BY <3>2 DEF InStep
  <2>2. QED
    BY <2>1
<1>2. QED
  BY <1>1, LinkHolds, PTL

(* A frame that silk_decode hears with FLAG_DECODE_LBRR is the copy of the *)
(* same frame of the packet just before, made in the shape the decoder now *)
(* has: the copies kept by an encoder never outlive a change of length,    *)
(* rate or channels, nor a packet.                                         *)
THEOREM CopiesAreOfTheLost == ASSUME Sound PROVE Spec => []CopiesOfTheLostPacket
<1>1. LinkInv => CopiesOfTheLostPacket
  BY Zenon DEF LinkInv, TypeHolds, CopiesOfTheLostPacket
<1>2. QED
  BY <1>1, LinkHolds, PTL

(* A setup keeps to one number of internal channels: from one to two of    *)
(* them a decoder starts both channels over, an encoder only the second.   *)
SteadySetup(s) == \A a, b \in Setups[s].chans : a = b

(* The setups the memories are followed through: sound, and steady.        *)
Steady == Sound /\ \A s \in DOMAIN Setups : SteadySetup(s)

(* The next packet for n channels is predicted from the same at both ends. *)
Meet(e, d, n) ==
  /\ \A fs \in Rates : StartMem(e, n, 0, fs) = DecMem(d, n, 0, fs)
  /\ n = 2 => \A fs \in Rates : StartSide(e, fs) = DecSide(d, fs)

(* The packet p, on its way, is predicted from what the decoder holds.     *)
Awaited(e, d, p) ==
  Predicted(e, p, DecMem(d, p.chans, 0, p.fs), DecSide(d, p.fs))

(* The decoder has heard k frames of the mono packet p.                    *)
Halfway(e, d, p, k) ==
  LET set == CopySet(p)
      frames == FramesPerPacket(p.ms)
  IN  /\ p.chans = 1 /\ \E mem \in Nat : MonoPredicted(e, p, mem)
      /\ d.ch[0].mem = p.items[HeadSize(set, frames) + Before(set, frames) + k].name

(* A decoder that has started over.                                        *)
Blank(d) == \A c \in {0, 1} : d.ch[c].mem = 0

(* Both ends are where the other expects them, nothing missed.             *)
EndsMeet ==
  /\ phase = "idle" => IF celt THEN Blank(dec)
                       ELSE \A n \in Setups[setup].chans : Meet(enc, dec, n)
  /\ phase = "sent" \/ (phase = "decoding" /\ calls = 0) => Awaited(enc, dec, packet)
  /\ phase = "decoding" /\ calls # 0 => Halfway(enc, dec, packet, calls)

(* Copies are decoded only for a packet that was missed.                   *)
CopiesForGaps == (missing => gap) /\ (phase = "decoding" /\ flag = "lbrr" => gap)

(* What the memories of both ends are to each other between any two steps: *)
(* they meet unless something was missed.                                  *)
MemoryHolds ==
  /\ Together(dec) /\ pos \in 1..Len(packet.items) + 1
  /\ CopiesForGaps /\ (celt => phase = "idle")
  /\ phase \in {"sent", "decoding"} => packet.chans \in Setups[setup].chans
  /\ MemoryAgrees
  /\ ~gap => EndsMeet

(* A decoder, and an encoder, that have started over predict from nothing. *)
LEMMA BlankMemory ==
  ASSUME NEW d, Blank(d), NEW chans, NEW fs
  PROVE  DecMem(d, chans, 0, fs) = 0 /\ DecSide(d, fs) = 0
<1>1. d.ch[0].mem = 0 /\ d.ch[1].mem = 0
  BY SMT DEF Blank
<1>2. QED
  BY <1>1, Zenon DEF DecMem, DecSide

(* An encoder that has started over with a prefill predicts from nothing.  *)
LEMMA StartedMemory ==
  ASSUME NEW x, NEW e, NEW chans \in {1, 2}, StartedOver(x, e, chans), NEW fs
  PROVE  StartMem(x, chans, 0, fs) = 0 /\ (chans = 2 => StartSide(x, fs) = 0)
<1>1. 0 \in {0, 1} /\ 1 \in {0, 1} /\ 0 < chans /\ (chans = 2 => 1 < chans) /\ 0 # 1
  BY SMT
<1>2. x.ch[0].mem = 0 /\ (chans = 2 => x.ch[1].mem = 0)
  BY <1>1, Zenon DEF StartedOver
<1>3. QED
  BY <1>1, <1>2, Zenon DEF StartMem, StartSide

(* Two ends that are new meet, for any channels.                           *)
LEMMA FreshMemory ==
  ASSUME NEW n \in {1, 2}
  PROVE  Meet(EncFresh, DecFresh, n) /\ Together(DecFresh) /\ Blank(DecFresh)
<1>1. /\ EncFresh.midOnly = FALSE /\ \A c \in {0, 1} : EncFresh.ch[c] = EncChannelFresh
      /\ DecFresh.chans = 1 /\ \A c \in {0, 1} : DecFresh.ch[c] = DecChannelFresh
  BY SMT DEF EncFresh, DecFresh
<1>2. EncChannelFresh.mem = 0 /\ DecChannelFresh.mem = 0
  BY FreshChannel, Zenon DEF EncChannelFresh
<1>3. 0 \in {0, 1} /\ 1 \in {0, 1} /\ 1 # 2
  BY SMT
<1>4. Blank(DecFresh)
  BY <1>1, <1>2, Zenon DEF Blank
<1>5. \A fs : DecMem(DecFresh, n, 0, fs) = 0 /\ DecSide(DecFresh, fs) = 0
  BY <1>4, BlankMemory, Zenon
<1>6. \A fs : StartMem(EncFresh, n, 0, fs) = 0 /\ StartSide(EncFresh, fs) = 0
  BY <1>1, <1>2, <1>3, Zenon DEF StartMem, StartSide
<1>7. Meet(EncFresh, DecFresh, n)
  BY <1>5, <1>6, Zenon DEF Meet
<1>8. Together(DecFresh)
  BY <1>1, <1>3, Zenon DEF Together
<1>9. QED
  BY <1>4, <1>7, <1>8

(* silk_reset_decoder leaves two channels alike and without memory.        *)
LEMMA ResetMemory ==
  ASSUME NEW d \in Decoders
  PROVE  Blank(DecReset(d)) /\ Together(DecReset(d))
<1>1. DecFresh \in Decoders /\ d.chans \in {1, 2}
  BY FreshDecoder, Zenon DEF Decoders
<1>2. DecReset(d).ch = DecFresh.ch
  BY <1>1, Zenon DEF DecReset, Decoders
<1>3. \A c \in {0, 1} : DecFresh.ch[c] = DecChannelFresh
  BY SMT DEF DecFresh
<1>4. 0 \in {0, 1} /\ 1 \in {0, 1}
  BY SMT
<1>5. QED
  BY <1>2, <1>3, <1>4, FreshChannel, Zenon DEF Blank, Together, SameSize

(* A packet predicted from equal memories is predicted from either.        *)
LEMMA PredictedSame ==
  ASSUME NEW x, NEW p, NEW m, NEW s, NEW m2, NEW s2,
         Predicted(x, p, m, s), m = m2, p.chans = 2 => s = s2
  PROVE  Predicted(x, p, m2, s2)
BY Zenon DEF Predicted

(* Packets heard to their end leave both ends with the same.               *)
LEMMA MonoMeets ==
  ASSUME NEW e, NEW d \in Decoders, NEW fs, e.ch[0].fs = fs, d.ch[0].fs = fs,
         e.ch[0].mem = d.ch[0].mem
  PROVE  Meet(e, d, 1)
<1>1. 0 # 1 /\ 1 # 2 /\ ~(1 > d.chans)
  BY SMT DEF Decoders
<1>2. \A f : StartMem(e, 1, 0, f) = DecMem(d, 1, 0, f)
  BY <1>1, Zenon DEF StartMem, DecMem
<1>3. QED
  BY <1>1, <1>2, Zenon DEF Meet

(* A stereo packet heard to its end leaves both ends with the same.        *)
LEMMA StereoMeets ==
  ASSUME NEW e, NEW d, NEW x, NEW p, NEW mem, NEW side,
         StereoPredicted(e, p, mem, side), StereoKept(x, d, p)
  PROVE  Meet(e, x.dec, 2)
<1> DEFINE one == FirstItem(p)
<1> HIDE DEF one
<1>1. /\ e.chans = 2 /\ (e.midOnly <=> MidAlone(p))
      /\ e.ch[0].mem = p.items[one + 2].name /\ e.ch[0].fs = p.fs
      /\ ~MidAlone(p) => e.ch[1].mem = p.items[one + 3].name /\ e.ch[1].fs = p.fs
  BY Zenon DEF StereoPredicted, one
<1>2. /\ x.dec.chans = 2 /\ (x.dec.midOnly <=> MidAlone(p))
      /\ x.dec.ch[0].mem = p.items[one + 2].name /\ x.dec.ch[0].fs = p.fs
      /\ ~MidAlone(p) => x.dec.ch[1].mem = p.items[one + 3].name /\ x.dec.ch[1].fs = p.fs
  BY Zenon DEF StereoKept, StereoLearnt, one
<1>3. ~(2 > 2)
  BY SMT
<1>4. \A f : StartMem(e, 2, 0, f) = DecMem(x.dec, 2, 0, f)
  BY <1>1, <1>2, <1>3, Zenon DEF StartMem, DecMem
<1>5. \A f : StartSide(e, f) = DecSide(x.dec, f)
  <2> TAKE f
  <2>1. CASE MidAlone(p)
    BY <1>1, <1>2, <2>1, Zenon DEF StartSide, DecSide
  <2>2. CASE ~MidAlone(p)
    <3>1. StartMem(e, 2, 1, f) = DecMem(x.dec, 2, 1, f)
      BY <1>1, <1>2, <1>3, <2>2, Zenon DEF StartMem, DecMem
    <3>2. QED
      BY <1>1, <1>2, <2>2, <3>1, Zenon DEF StartSide, DecSide
  <2>3. QED
    BY <2>1, <2>2
<1>6. QED
  BY <1>4, <1>5, Zenon DEF Meet

(* A reader may begin with any packet.                                     *)
LEMMA PlaceToBegin ==
  ASSUME NEW p \in Packets
  PROVE  1 \in 1..Len(p.items) + 1
<1>1. p.items \in Seq(Items)
  BY Zenon DEF Packets
<1>2. Len(p.items) \in Nat
  BY ONLY <1>1, SMT
<1>3. QED
  BY ONLY <1>2, SMT

(* The channel count of a steady setup.                                    *)
LEMMA SteadyChannels ==
  ASSUME Steady, setup \in DOMAIN Setups, NEW n \in Setups[setup].chans
  PROVE  n \in {1, 2} /\ \A m \in Setups[setup].chans : m = n
<1>1. Setups[setup] \in Setup
  BY ParametersAreSilk, Zenon
<1>2. Setups[setup].chans \in SUBSET {1, 2}
  BY <1>1, Zenon DEF Setup
<1>3. SteadySetup(setup)
  BY Zenon DEF Steady
<1>4. QED
  BY <1>2, <1>3, Zenon DEF SteadySetup

(* They meet before the first packet.                                      *)
LEMMA MemoryInitially ==
  ASSUME Steady, Init
  PROVE  MemoryHolds
<1>1. /\ setup \in DOMAIN Setups /\ enc = EncFresh /\ dec = DecFresh /\ packet = NoPacket
      /\ phase = "idle" /\ flag = "normal" /\ pos = 1
      /\ celt = FALSE /\ gap = FALSE /\ missing = FALSE /\ heard = {}
  BY Zenon DEF Init, Start
<1>2. phase \notin {"sent", "decoding"} /\ phase # "sent" /\ phase # "decoding"
  BY ONLY <1>1, SMT
<1>3. pos \in 1..Len(packet.items) + 1
  BY <1>1, NoPacketYet, PlaceToBegin, Zenon
<1>4. \A n \in Setups[setup].chans : Meet(enc, dec, n)
  BY <1>1, SteadyChannels, FreshMemory, Zenon
<1>5. Together(dec)
  <2>1. 1 \in {1, 2}
    BY SMT
  <2>2. QED
    BY <1>1, <2>1, FreshMemory, Zenon
<1>6. EndsMeet
  BY <1>1, <1>2, <1>4, Zenon DEF EndsMeet
<1>7. CopiesForGaps /\ MemoryAgrees
  BY <1>1, <1>2, Zenon DEF CopiesForGaps, MemoryAgrees
<1>8. QED
  BY <1>1, <1>2, <1>3, <1>5, <1>6, <1>7, Zenon DEF MemoryHolds

(* CELT packets that are received leave the decoder with nothing, as the   *)
(* prefill will leave the encoder; ones that are lost leave a gap.         *)
LEMMA InterludeMemory ==
  ASSUME LinkInv, MemoryHolds, NEW received \in BOOLEAN, Interlude(received)
  PROVE  MemoryHolds'
<1>1. /\ phase = "idle" /\ celt' = TRUE /\ heard' = {} /\ missing' = FALSE /\ gap' = ~received
      /\ dec' = (IF received THEN DecReset(dec) ELSE dec)
      /\ UNCHANGED <<setup, enc, packet, phase, flag, pos, calls>>
  BY Zenon DEF Interlude
<1>2. phase' \notin {"sent", "decoding"} /\ phase' # "sent" /\ phase' # "decoding"
  BY ONLY <1>1, SMT
<1>3. dec \in Decoders
  BY Zenon DEF LinkInv, TypeHolds
<1>4. Together(dec) /\ pos \in 1..Len(packet.items) + 1
  BY Zenon DEF MemoryHolds
<1>5. Together(dec') /\ (received => Blank(dec'))
  BY <1>1, <1>3, <1>4, ResetMemory, Zenon
<1>6. ~gap' => EndsMeet'
  BY <1>1, <1>2, <1>5, Zenon DEF EndsMeet
<1>7. CopiesForGaps' /\ MemoryAgrees'
  BY <1>1, <1>2, Zenon DEF CopiesForGaps, MemoryAgrees
<1>8. QED
  BY <1>1, <1>2, <1>4, <1>5, <1>6, <1>7, Zenon DEF MemoryHolds

(* A packet that is lost leaves a gap.                                     *)
LEMMA LoseMemory ==
  ASSUME MemoryHolds, Lose
  PROVE  MemoryHolds'
<1>1. /\ phase = "sent" /\ phase' = "idle" /\ gap' = TRUE
      /\ UNCHANGED <<setup, enc, dec, packet, flag, pos, calls, celt, heard>>
  BY Zenon DEF Lose
<1>2. phase' \notin {"sent", "decoding"} /\ phase' # "decoding"
  BY ONLY <1>1, SMT
<1>3. Together(dec) /\ pos \in 1..Len(packet.items) + 1
  BY Zenon DEF MemoryHolds
<1>4. CopiesForGaps' /\ MemoryAgrees'
  BY <1>1, Zenon DEF CopiesForGaps, MemoryAgrees
<1>5. QED
  BY <1>1, <1>2, <1>3, <1>4, Zenon DEF MemoryHolds

(* A packet that is received is still predicted from what the decoder has; *)
(* copies are asked of it only after a gap.                                *)
LEMMA ReceiveMemory ==
  ASSUME LinkInv, MemoryHolds, Receive
  PROVE  MemoryHolds'
<1>1. /\ phase = "sent" /\ phase' = "decoding" /\ pos' = 1 /\ calls' = 0 /\ heard' = {}
      /\ flag' \in (IF missing THEN {"normal", "lbrr"} ELSE {"normal"})
      /\ UNCHANGED <<setup, enc, dec, packet, celt, gap, missing>>
  BY Zenon DEF Receive
<1>2. /\ phase \in {"sent", "decoding"} /\ phase # "idle" /\ phase' # "idle" /\ phase' # "sent"
      /\ "lbrr" # "normal"
  BY ONLY <1>1, SMT
<1>3. /\ Together(dec) /\ ~celt /\ (missing => gap) /\ packet.chans \in Setups[setup].chans
      /\ ~gap => EndsMeet
  BY <1>2, Zenon DEF MemoryHolds, CopiesForGaps
<1>4. pos' \in 1..Len(packet'.items) + 1
  <2>1. packet \in Packets
    BY Zenon DEF LinkInv, TypeHolds
  <2>2. QED
    BY <1>1, <2>1, PlaceToBegin, Zenon
<1>5. CopiesForGaps'
  <2>1. flag' = "lbrr" => missing
    BY <1>1, <1>2, Zenon
  <2>2. QED
    BY <1>1, <1>3, <2>1, Zenon DEF CopiesForGaps
<1>6. MemoryAgrees'
  BY <1>1, Zenon DEF MemoryAgrees
<1>7. ~gap' => EndsMeet'
  <2>1. ~gap => Awaited(enc, dec, packet)
    BY <1>1, <1>3, Zenon DEF EndsMeet
  <2>2. QED
    BY <1>1, <1>2, <2>1, Zenon DEF EndsMeet
<1>8. QED
  BY <1>1, <1>3, <1>4, <1>5, <1>6, <1>7, Zenon DEF MemoryHolds

(* A frame that is concealed leaves a gap, and the channels together.      *)
LEMMA ConcealMemory ==
  ASSUME LinkInv, MemoryHolds, NEW ms \in {5, 10, 20}, Conceal(ms)
  PROVE  MemoryHolds'
<1> DEFINE q == [NoPacket EXCEPT !.chans = control.chans, !.fs = control.fs, !.ms = PayloadMs(ms)]
<1>1. /\ phase = "idle" /\ control.chans > 0 /\ gap' = TRUE
      /\ dec' = Decoded(dec, "loss", TRUE, q, 1).dec
      /\ UNCHANGED <<setup, enc, packet, phase, flag, pos, calls, control, celt, missing>>
  BY Zenon DEF Conceal
<1>2. phase' \notin {"sent", "decoding"} /\ phase' # "decoding"
  BY ONLY <1>1, SMT
<1>3. control.chans \in {1, 2} /\ control.fs \in Rates /\ PayloadMs(ms) \in Lengths
  <2>1. control \in [chans : {0, 1, 2}, fs : {0} \cup Rates] /\ control.fs \in Rates
    BY <1>1, Zenon DEF LinkInv, TypeHolds
  <2>2. control.chans \in {0, 1, 2}
    BY <2>1, Zenon
  <2>3. control.chans \in {1, 2}
    BY ONLY <1>1, <2>2, SMT
  <2>4. PayloadMs(ms) \in Lengths
    BY ONLY ms \in {5, 10, 20}, SMT DEF PayloadMs, Lengths
  <2>5. QED
    BY <2>1, <2>3, <2>4
<1>4. q.chans = control.chans /\ q.fs = control.fs /\ q.ms = PayloadMs(ms)
  BY NoPacketYet, Zenon DEF Packets
<1> HIDE DEF q
<1>5. Together(dec')
  <2>1. dec \in Decoders
    BY Zenon DEF LinkInv, TypeHolds
  <2>2. NeverArrived(q)
    BY <1>3, <1>4, Zenon DEF NeverArrived
  <2>3. ConcealDone(dec, q)
    BY <2>1, <2>2, ConcealedCall, Zenon
  <2>4. QED
    BY <1>1, <2>3, Zenon DEF ConcealDone
<1>6. pos \in 1..Len(packet.items) + 1
  BY Zenon DEF MemoryHolds
<1>7. CopiesForGaps' /\ MemoryAgrees'
  BY <1>1, Zenon DEF CopiesForGaps, MemoryAgrees
<1>8. QED
  BY <1>1, <1>2, <1>5, <1>6, <1>7, Zenon DEF MemoryHolds

(* So does a decoder that is reset.                                        *)
LEMMA ResetReceiverMemory ==
  ASSUME MemoryHolds, ResetReceiver
  PROVE  MemoryHolds'
<1>1. /\ phase = "idle" /\ dec' = DecFresh /\ gap' = TRUE
      /\ UNCHANGED <<setup, enc, packet, phase, flag, pos, calls, celt>>
  BY Zenon DEF ResetReceiver
<1>2. phase' \notin {"sent", "decoding"} /\ phase' # "decoding"
  BY ONLY <1>1, SMT
<1>3. Together(dec')
  <2>1. 1 \in {1, 2}
    BY SMT
  <2>2. QED
    BY <1>1, <2>1, FreshMemory, Zenon
<1>4. pos \in 1..Len(packet.items) + 1
  BY Zenon DEF MemoryHolds
<1>5. CopiesForGaps' /\ MemoryAgrees'
  BY <1>1, Zenon DEF CopiesForGaps, MemoryAgrees
<1>6. QED
  BY <1>1, <1>2, <1>3, <1>4, <1>5, Zenon DEF MemoryHolds

(* A packet is predicted from what the decoder has, or, after CELT packets *)
(* it has received, from nothing, which is what it then has.               *)
LEMMA EncodeMemory ==
  ASSUME Steady, LinkInv, MemoryHolds, Encode
  PROVE  MemoryHolds'
<1>1. PICK chans \in Setups[setup].chans : \E start, z :
           EncodeMade(enc, celt, start, chans, z, packet.number, Fec) /\ enc' = z.enc /\ packet' = z.packet
  BY EncodeMakes, Zenon DEF Steady
<1>2. PICK start, z :
           EncodeMade(enc, celt, start, chans, z, packet.number, Fec) /\ enc' = z.enc /\ packet' = z.packet
  BY <1>1, Zenon
<1>3. /\ phase = "idle" /\ phase' = "sent" /\ celt' = FALSE /\ heard' = {} /\ pos' = 1
      /\ UNCHANGED <<setup, dec, gap, missing>>
  BY Zenon DEF Encode
<1>4. /\ packet' \in Packets /\ packet'.chans = chans /\ packet'.fs \in Rates /\ chans \in {1, 2}
      /\ Predicted(enc', packet', StartMem(start, chans, 0, packet'.fs), StartSide(start, packet'.fs))
      /\ IF celt THEN StartedOver(start, enc, chans) ELSE start = enc
  BY <1>2, Zenon DEF EncodeMade, EncodeHolds, PredictedFrom
<1>5. phase' # "idle" /\ phase' # "decoding" /\ phase' # "misread"
  BY ONLY <1>3, SMT
<1>6. Together(dec) /\ (missing => gap) /\ (~gap => EndsMeet)
  BY Zenon DEF MemoryHolds, CopiesForGaps
<1>7. pos' \in 1..Len(packet'.items) + 1
  BY <1>3, <1>4, PlaceToBegin, Zenon
<1>8. CopiesForGaps' /\ MemoryAgrees'
  BY <1>3, <1>5, <1>6, Zenon DEF CopiesForGaps, MemoryAgrees
<1>9. ASSUME ~gap
      PROVE  Awaited(enc', dec, packet')
  <2>1. /\ StartMem(start, chans, 0, packet'.fs) = DecMem(dec, chans, 0, packet'.fs)
        /\ chans = 2 => StartSide(start, packet'.fs) = DecSide(dec, packet'.fs)
    <3>1. CASE celt
      <4>1. Blank(dec)
        BY <1>3, <1>6, <1>9, <3>1, Zenon DEF EndsMeet
      <4>2. QED
        BY <1>4, <3>1, <4>1, BlankMemory, StartedMemory, Zenon
    <3>2. CASE ~celt
      <4>1. Meet(enc, dec, chans) /\ start = enc
        BY <1>3, <1>4, <1>6, <1>9, <3>2, Zenon DEF EndsMeet
      <4>2. QED
        BY <1>4, <4>1, Zenon DEF Meet
    <3>3. QED
      BY <3>1, <3>2
  <2> DEFINE m == StartMem(start, chans, 0, packet'.fs)
             s == StartSide(start, packet'.fs)
             m2 == DecMem(dec, chans, 0, packet'.fs)
             s2 == DecSide(dec, packet'.fs)
  <2>2. Predicted(enc', packet', m2, s2)
    <3>1. Predicted(enc', packet', m, s) /\ m = m2 /\ (packet'.chans = 2 => s = s2)
      BY <1>4, <2>1
    <3> HIDE DEF m, s, m2, s2
    <3>2. QED
      BY <3>1, PredictedSame, Zenon
  <2>3. QED
    BY <1>4, <2>2, Zenon DEF Awaited
<1>10. ~gap' => EndsMeet'
  BY <1>3, <1>5, <1>9, Zenon DEF EndsMeet
<1>11. QED
  BY <1>3, <1>4, <1>6, <1>7, <1>8, <1>10, Zenon DEF MemoryHolds

(* One more frame of a mono packet, heard from what the encoder predicted  *)
(* it from, leaves the decoder halfway, or both ends where they meet.      *)
LEMMA MonoGoesOn ==
  ASSUME NEW p, MonoFacts(p), NEW k \in Nat, k < FramesPerPacket(p.ms), NEW d \in Decoders, NEW r,
         r.dec \in Decoders, MonoKept(r, d, p, k), NEW e,
         IF k = 0 THEN MonoPredicted(e, p, DecMem(d, 1, 0, p.fs)) ELSE Halfway(e, d, p, k)
  PROVE  /\ \A h \in r.heard : h.before = h.meant
         /\ IF k + 1 = FramesPerPacket(p.ms) THEN Meet(e, r.dec, 1) ELSE Halfway(e, r.dec, p, k + 1)
<1> DEFINE L == CopySet(p)
           F == FramesPerPacket(p.ms)
           H == HeadSize(L, F)
           B == Before(L, F)
           at == H + B + k + 1
           item == p.items[at]
           mem == IF k = 0 THEN DecMem(d, 1, 0, p.fs) ELSE d.ch[0].mem
<1>1. /\ F \in {1, 2, 3} /\ H \in {0, 1} /\ B \in Nat /\ Len(p.items) = H + B + F
  BY MonoNumbers, Zenon
<1>2. /\ r.dec.ch[0].mem = item.name /\ r.dec.ch[0].fs = p.fs
      /\ \A h \in r.heard : h.before = mem /\ h.meant = item.mem
  BY Zenon DEF MonoKept
<1>3. p.chans = 1
  BY Zenon DEF MonoFacts
<1>4. PICK m \in Nat : MonoPredicted(e, p, m) /\ IF k = 0 THEN m = mem ELSE d.ch[0].mem = p.items[H + B + k].name
  <2>1. CASE k = 0
    <3>1. d.ch[0].mem \in Nat /\ 0 \in Nat
      BY SMT DEF Decoders, DecChannels
    <3>2. DecMem(d, 1, 0, p.fs) \in Nat
      BY <3>1, Zenon DEF DecMem
    <3>3. QED
      BY <2>1, <3>2, Zenon
  <2>2. CASE k # 0
    BY <2>2, Zenon DEF Halfway
  <2>3. QED
    BY <2>1, <2>2
<1>5. /\ e.ch[0].fs = p.fs /\ e.ch[0].mem = p.items[Len(p.items)].name
      /\ MemoriesChain(p.items, L, F, F, m)
  BY <1>4, Zenon DEF MonoPredicted
<1>6. item.mem = IF k = 0 THEN m ELSE p.items[at - 1].name
  <2>1. k \in 0..2 /\ k < F
    <3>1. k < F /\ k \in Nat
      OBVIOUS
    <3> HIDE DEF F
    <3>2. QED
      BY ONLY <1>1, <3>1, SMT
  <2> HIDE DEF L, F
  <2>2. QED
    BY <1>5, <2>1, Zenon DEF MemoriesChain
<1> HIDE DEF H, B, mem
<1>7. at - 1 = H + B + k /\ at = H + B + (k + 1)
  <2>1. k \in Nat
    OBVIOUS
  <2> HIDE DEF L, F
  <2>2. QED
    BY ONLY <1>1, <2>1, SMT
<1>8. \A h \in r.heard : h.before = h.meant
  <2>1. k # 0 => mem = d.ch[0].mem
    BY Zenon DEF mem
  <2>2. item.mem = mem
    <3> HIDE DEF item
    <3>1. k # 0 => item.mem = p.items[H + B + k].name
      BY <1>6, <1>7
    <3>2. QED
      BY <1>4, <1>6, <2>1, <3>1, Zenon
  <2>3. QED
    BY <1>2, <2>2
<1>9. CASE k + 1 = F
  <2>1. Len(p.items) = at
    BY <1>1, <1>7, <1>9
  <2>2. e.ch[0].mem = r.dec.ch[0].mem
    BY <1>2, <1>5, <2>1
  <2>3. Meet(e, r.dec, 1)
    BY <1>2, <1>5, <2>2, MonoMeets, Zenon
  <2>4. QED
    BY <1>8, <1>9, <2>3
<1>10. CASE k + 1 # F
  <2>1. r.dec.ch[0].mem = p.items[H + B + (k + 1)].name
    BY <1>2, <1>7
  <2>2. Halfway(e, r.dec, p, k + 1)
    BY <1>3, <1>4, <2>1, Zenon DEF Halfway, H, B, F, L
  <2>3. QED
    BY <1>8, <1>10, <2>2
<1>11. QED
  BY <1>9, <1>10

(* A stereo packet is heard from what the encoder predicted it from, and   *)
(* leaves both ends where they meet.                                       *)
LEMMA StereoGoesOn ==
  ASSUME NEW e, NEW d, NEW r, NEW p,
         StereoPredicted(e, p, DecMem(d, 2, 0, p.fs), DecSide(d, p.fs)), StereoKept(r, d, p)
  PROVE  (\A h \in r.heard : h.before = h.meant) /\ Meet(e, r.dec, 2)
<1> DEFINE mem == DecMem(d, 2, 0, p.fs)
           side == DecSide(d, p.fs)
           one == FirstItem(p)
           mid == p.items[one + 2]
           other == p.items[one + 3]
<1>1. StereoPredicted(e, p, mem, side) /\ StereoLearnt(r, p, one, MidAlone(p), mem, side)
  BY Zenon DEF StereoKept
<1>2. Meet(e, r.dec, 2)
  BY StereoMeets, Zenon
<1> HIDE DEF mem, side
<1>3. mid.mem = mem /\ (~MidAlone(p) => other.mem = side)
  BY <1>1, Zenon DEF StereoPredicted
<1>4. \A h \in r.heard : \/ h.before = mem /\ h.meant = mid.mem
                         \/ ~MidAlone(p) /\ h.before = side /\ h.meant = other.mem
  BY <1>1, Zenon DEF StereoLearnt
<1> HIDE DEF mid, other
<1>5. \A h \in r.heard : h.before = h.meant
  BY <1>3, <1>4, Zenon
<1>6. QED
  BY <1>2, <1>5

(* What a frame decoded when nothing was missed does to the two ends.      *)
LEMMA GoesOn ==
  ASSUME LinkInv, MemoryHolds, NEW r, DecodeMade(r), ~gap
  PROVE  /\ \A h \in r.heard : h.before = h.meant
         /\ IF calls + 1 = FramesPerPacket(packet.ms)
              THEN Meet(enc, r.dec, packet.chans) ELSE Halfway(enc, r.dec, packet, calls + 1)
<1> DEFINE F == FramesPerPacket(packet.ms)
<1>1. /\ phase = "decoding" /\ CallDone(r, dec, packet, flag, calls)
  BY Zenon DEF DecodeMade
<1>2. /\ TypeHolds /\ PacketHolds /\ ReaderHolds /\ calls \in Nat
      /\ dec \in Decoders /\ packet \in Packets /\ flag \in {"normal", "lbrr"}
  BY Zenon DEF LinkInv, TypeHolds
<1>3. phase \in {"sent", "decoding"} /\ phase # "sent"
  BY ONLY <1>1, SMT
<1>4. packet.chans \in {1, 2} /\ packet.ms \in Lengths /\ packet.fs \in Rates /\ calls < F
  BY <1>1, <1>2, <1>3, Zenon DEF PacketHolds, ReaderHolds
<1>5. CopiesForGaps /\ EndsMeet
  BY Zenon DEF MemoryHolds
<1>6. flag = "normal"
  BY <1>1, <1>2, <1>5, Zenon DEF CopiesForGaps
<1>7. /\ r.dec \in Decoders
      /\ packet.chans = 1 => MonoKept(r, dec, packet, calls)
      /\ packet.chans = 2 => StereoKept(r, dec, packet)
  BY <1>1, <1>6, Zenon DEF CallDone, CallKept
<1>8. IF calls = 0 THEN Awaited(enc, dec, packet) ELSE Halfway(enc, dec, packet, calls)
  BY <1>1, <1>5, Zenon DEF EndsMeet
<1>9. CASE packet.chans = 1
  <2>1. MonoFacts(packet)
    BY <1>2, <1>4, <1>9, Zenon DEF MonoFacts, PacketHolds
  <2>2. Awaited(enc, dec, packet) => MonoPredicted(enc, packet, DecMem(dec, 1, 0, packet.fs))
    BY <1>9 DEF Awaited, Predicted
  <2>3. IF calls = 0 THEN MonoPredicted(enc, packet, DecMem(dec, 1, 0, packet.fs))
        ELSE Halfway(enc, dec, packet, calls)
    BY <1>8, <2>2, Zenon
  <2>4. /\ \A h \in r.heard : h.before = h.meant
        /\ IF calls + 1 = F THEN Meet(enc, r.dec, 1) ELSE Halfway(enc, r.dec, packet, calls + 1)
    BY <1>2, <1>4, <1>7, <1>9, <2>1, <2>3, MonoGoesOn, Zenon
  <2>5. QED
    BY <1>9, <2>4
<1>10. CASE packet.chans = 2
  <2>1. packet.ms \in {10, 20}
    BY <1>2, <1>10, Zenon DEF PacketHolds, StereoPacket
  <2>2. F = 1
    BY <2>1, SMT DEF FramesPerPacket
  <2>3. calls = 0 /\ calls + 1 = F
    <3> HIDE DEF F
    <3>1. calls < F /\ calls \in Nat
      BY <1>2, <1>4
    <3>2. QED
      BY ONLY <2>2, <3>1, SMT
  <2>4. StereoPredicted(enc, packet, DecMem(dec, 2, 0, packet.fs), DecSide(dec, packet.fs))
    BY <1>8, <1>10, <2>3 DEF Awaited, Predicted
  <2>5. (\A h \in r.heard : h.before = h.meant) /\ Meet(enc, r.dec, 2)
    BY <1>7, <1>10, <2>4, StereoGoesOn, Zenon
  <2>6. QED
    BY <1>10, <2>3, <2>5
<1>11. QED
  BY <1>4, <1>9, <1>10

(* A frame decoded when nothing was missed keeps the ends where the other  *)
(* expects them.                                                           *)
LEMMA DecodeMemory ==
  ASSUME Steady, LinkInv, MemoryHolds, DecodeFrame
  PROVE  MemoryHolds'
<1>1. PICK r : DecodeMade(r)
  BY DecodeMakes, Zenon
<1> DEFINE last == calls + 1 = FramesPerPacket(packet.ms)
<1>2. /\ CallDone(r, dec, packet, flag, calls)
      /\ dec' = r.dec /\ heard' = r.heard /\ pos' = r.pos /\ calls' = calls + 1
      /\ phase' = (IF last THEN IF flag = "normal" THEN "idle" ELSE "sent" ELSE "decoding")
      /\ phase = "decoding" /\ UNCHANGED <<setup, enc, packet, flag, control, celt, gap>>
  BY <1>1, Zenon DEF DecodeMade
<1>3. missing' = (missing /\ ~last)
  BY Zenon DEF DecodeFrame
<1>4. /\ CopiesForGaps /\ ~celt /\ packet.chans \in Setups[setup].chans /\ MemoryAgrees
  <2>1. phase \in {"sent", "decoding"} /\ phase # "idle"
    BY ONLY <1>2, SMT
  <2>2. QED
    BY <2>1, Zenon DEF MemoryHolds
<1>5. r.pos \in 1..Len(packet.items) + 1 /\ Together(r.dec)
  BY <1>2, Zenon DEF CallDone
<1>6. /\ setup \in DOMAIN Setups /\ calls \in Nat /\ flag \in {"normal", "lbrr"}
      /\ packet.chans \in {1, 2}
  BY <1>4, SteadyChannels, Zenon DEF LinkInv, TypeHolds
<1>7. ~gap => /\ \A h \in r.heard : h.before = h.meant
              /\ IF last THEN Meet(enc, r.dec, packet.chans) ELSE Halfway(enc, r.dec, packet, calls + 1)
  <2>1. ASSUME ~gap
        PROVE  /\ \A h \in r.heard : h.before = h.meant
               /\ IF last THEN Meet(enc, r.dec, packet.chans) ELSE Halfway(enc, r.dec, packet, calls + 1)
    BY <1>1, <2>1, GoesOn
  <2>2. QED
    BY <2>1
<1>8. calls + 1 # 0
  BY <1>6, SMT
<1>9. /\ "idle" # "sent" /\ "idle" # "decoding" /\ "sent" # "decoding" /\ "normal" # "lbrr"
  BY ONLY TRUE, SMT
<1> HIDE DEF last
<1>10. CopiesForGaps'
  BY <1>2, <1>3, <1>4, Zenon DEF CopiesForGaps
<1>11. MemoryAgrees'
  BY <1>2, <1>7, Zenon DEF MemoryAgrees
<1>12. ASSUME ~gap
       PROVE  EndsMeet'
  <2>1. flag = "normal"
    BY <1>2, <1>4, <1>6, <1>12, Zenon DEF CopiesForGaps
  <2>2. CASE last
    <3>1. phase' = "idle" /\ phase' # "sent" /\ phase' # "decoding" /\ ~celt'
      BY <1>2, <1>4, <1>9, <2>1, <2>2
    <3>2. Meet(enc, r.dec, packet.chans)
      BY <1>7, <1>12, <2>2
    <3>3. \A n \in Setups[setup].chans : n = packet.chans
      BY <1>4, <1>6, SteadyChannels, Zenon
    <3>4. \A n \in Setups[setup].chans : Meet(enc, r.dec, n)
      BY <3>2, <3>3
    <3>5. QED
      BY <1>2, <3>1, <3>4, Zenon DEF EndsMeet
  <2>3. CASE ~last
    <3>1. phase' = "decoding" /\ phase' # "idle" /\ phase' # "sent" /\ calls' # 0
      BY <1>2, <1>8, <1>9, <2>3
    <3>2. Halfway(enc, r.dec, packet, calls + 1)
      BY <1>7, <1>12, <2>3
    <3>3. QED
      BY <1>2, <3>1, <3>2, Zenon DEF EndsMeet
  <2>4. QED
    BY <2>2, <2>3
<1>13. QED
  BY <1>2, <1>4, <1>5, <1>10, <1>11, <1>12, Zenon DEF MemoryHolds

(* Every step keeps the memories.                                          *)
LEMMA MemoryStep ==
  ASSUME Steady, LinkInv, MemoryHolds, [Next]_vars
  PROVE  MemoryHolds'
<1>1. CASE Encode
  BY <1>1, EncodeMemory
<1>2. CASE \E received \in BOOLEAN : Interlude(received)
  BY <1>2, InterludeMemory
<1>3. CASE Lose
  BY <1>3, LoseMemory
<1>4. CASE Receive
  BY <1>4, ReceiveMemory
<1>5. CASE DecodeFrame
  BY <1>5, DecodeMemory
<1>6. CASE \E ms \in {5, 10, 20} : Conceal(ms)
  BY <1>6, ConcealMemory
<1>7. CASE ResetReceiver
  BY <1>7, ResetReceiverMemory
<1>8. CASE UNCHANGED vars
  BY <1>8, Zenon DEF vars, MemoryHolds, CopiesForGaps, EndsMeet, MemoryAgrees
<1>9. QED
  BY <1>1, <1>2, <1>3, <1>4, <1>5, <1>6, <1>7, <1>8, Zenon DEF Next

(* For steady setups the two ends meet whenever nothing was missed:        *)
(* between packets each predicts the next one, for any rate, from the      *)
(* same; while a packet is on its way the decoder holds what it was        *)
(* predicted from, and in the middle of one the frame before the next.     *)
THEOREM MemoryAlwaysHolds == ASSUME Steady PROVE Spec => [](LinkInv /\ MemoryHolds)
<1>1. Init => LinkInv /\ MemoryHolds
  BY Initial, MemoryInitially
<1>2. LinkInv /\ MemoryHolds /\ [Next]_vars => (LinkInv /\ MemoryHolds)'
  <2>1. Sound
    BY DEF Steady
  <2>2. QED
    BY <2>1, LinkStep, MemoryStep
<1>3. QED
  BY <1>1, <1>2, PTL DEF Spec

(* The sizes that MemoriesAgree names, of the two channels of a decoder.   *)
LEMMA SizesAgree ==
  ASSUME NEW d \in Decoders, Together(d), d.chans = 2
  PROVE  \A f \in {"n", "frames", "sub", "fs"} : d.ch[0][f] = d.ch[1][f]
<1>1. d.ch[0] \in DecChannels /\ d.ch[1] \in DecChannels
  BY SMT DEF Decoders
<1>2. /\ d.ch[0].n = d.ch[1].n /\ d.ch[0].frames = d.ch[1].frames
      /\ d.ch[0].sub = d.ch[1].sub /\ d.ch[0].fs = d.ch[1].fs
  BY Zenon DEF Together, SameSize
<1>3. QED
  BY <1>1, <1>2, Zenon DEF DecChannels

(* Unless something was missed, every frame goes into a channel of the     *)
(* decoder (silk_decode_frame) whose memory is the one the encoder had     *)
(* predicted it from (silk_encode_frame), through changes of rate and      *)
(* length, mid-only stretches, and CELT interludes that were heard; and    *)
(* the two channels of a decoder never part.                               *)
THEOREM MemoriesAlwaysAgree == ASSUME Steady PROVE Spec => []MemoriesAgree
<1>1. ASSUME LinkInv, MemoryHolds
      PROVE  MemoriesAgree
  <2>1. /\ dec \in Decoders /\ enc \in Encoders /\ phase \in {"idle", "sent", "decoding"}
        /\ flag \in {"normal", "lbrr"}
        /\ Together(dec) /\ pos \in 1..Len(packet.items) + 1 /\ MemoryAgrees
    BY <1>1, Zenon DEF LinkInv, TypeHolds, MemoryHolds
  <2>2. ChannelsTogether
    BY <2>1, SizesAgree, Zenon DEF ChannelsTogether
  <2>3. \A c \in {0, 1} : dec.ch[c] \in DecChannels /\ enc.ch[c] \in EncChannels
    BY <2>1, SMT DEF Decoders, Encoders
  <2>4. \A c \in {0, 1} : /\ dec.ch[c].n \in 0..3 /\ dec.ch[c].frames \in 0..3
                          /\ dec.ch[c].vad \in SUBSET (0..2) /\ dec.ch[c].lbrr \in SUBSET (0..2)
                          /\ enc.ch[c].lbrr \in SUBSET (0..2)
    BY <2>3, Zenon DEF DecChannels, EncChannels
  <2>5. phase \in {"idle", "sent", "decoding", "misread"}
    BY ONLY <2>1, SMT
  <2>6. TypeOK
    BY <2>1, <2>4, <2>5, Zenon DEF TypeOK
  <2>7. QED
    BY <2>1, <2>2, <2>6 DEF MemoriesAgree
<1>2. LinkInv /\ MemoryHolds => MemoriesAgree
  BY <1>1
<1>3. QED
  BY <1>2, MemoryAlwaysHolds, PTL
=============================================================================
