--------------------------- MODULE CeltAllocating ---------------------------
(***************************************************************************)
(* How CELT divides what is left of a frame among its bands.  Nothing of   *)
(* the division is sent but three kinds of symbols: whether the highest    *)
(* band still coded is dropped, from which band on the channels are coded  *)
(* as one (intensity), and whether they are coded apart (dual stereo).     *)
(* Both ends therefore compute it, and the operators here take a `side':   *)
(* for the encoder what it would like to send, for the decoder the symbols *)
(* it finds.  The encoder decides what to drop from the number of bands it *)
(* last coded, frame after frame; the decoder has only the symbols.        *)
(*                                                                         *)
(* A frame f is a record: start, end (its bands), channels, lm (its size), *)
(* trim, offsets (the boosts).                                             *)
(***************************************************************************)
EXTENDS Integers, Sequences, SequencesExt, FiniteSets, FiniteSetsExt

(***************************************************************************)
(* The standard CELT mode (48 kHz, 960 samples a frame): the edges of its  *)
(* bands, the tables the bit allocation is computed from, and what a band  *)
(* can take at most.  Bits are counted in eighths, as in the code; a band  *)
(* is a number from 0, as there.                                           *)
(***************************************************************************)
Bands == 0..20
Vectors == 0..10              \* rows of the allocation matrix
BitRes == 8                   \* 1 << BITRES: eighths in a bit
MaxFineBits == 8
FineOffset == 21

LOCAL Indexed(s) == [i \in 0..(Len(s) - 1) |-> s[i + 1]]

(* EBAND_5MS: the first bin of each band, and the end of the last.         *)
EBands == Indexed(<<0, 1, 2, 3, 4, 5, 6, 7, 8, 10, 12, 14, 16, 20, 24, 28, 34,
                    40, 48, 60, 78, 100>>)

(* LOG_N_400: eight times the logarithm of a band's width.                 *)
LogN == Indexed(<<0, 0, 0, 0, 0, 0, 0, 0, 8, 8, 8, 8, 16, 16, 16, 21, 21, 24,
                  29, 34, 36>>)

(* BAND_ALLOCATION: the eleven curves the allocation interpolates between. *)
AllocVectors == Indexed(<<
  0, 0, 0, 0, 0, 0, 0, 0, 0, 0, 0, 0, 0, 0, 0, 0, 0, 0, 0, 0, 0,
  90, 80, 75, 69, 63, 56, 49, 40, 34, 29, 20, 18, 10, 0, 0, 0, 0, 0, 0, 0, 0,
  110, 100, 90, 84, 78, 71, 65, 58, 51, 45, 39, 32, 26, 20, 12, 0, 0, 0, 0, 0, 0,
  118, 110, 103, 93, 86, 80, 75, 70, 65, 59, 53, 47, 40, 31, 23, 15, 4, 0, 0, 0, 0,
  126, 119, 112, 104, 95, 89, 83, 78, 72, 66, 60, 54, 47, 39, 32, 25, 17, 12, 1, 0, 0,
  134, 127, 120, 114, 103, 97, 91, 85, 78, 72, 66, 60, 54, 47, 41, 35, 29, 23, 16, 10, 1,
  144, 137, 130, 124, 113, 107, 101, 95, 88, 82, 76, 70, 64, 57, 51, 45, 39, 33, 26, 15, 1,
  152, 145, 138, 132, 123, 117, 111, 105, 98, 92, 86, 80, 74, 67, 61, 55, 49, 43, 36, 20, 1,
  162, 155, 148, 142, 133, 127, 121, 115, 108, 102, 96, 90, 84, 77, 71, 65, 59, 53, 46, 30, 1,
  172, 165, 158, 152, 143, 137, 131, 125, 118, 112, 106, 100, 94, 87, 81, 75, 69, 63, 56, 45, 20,
  200, 200, 200, 200, 200, 200, 200, 200, 198, 193, 188, 183, 178, 173, 168, 163, 158, 153, 148, 129, 104>>)

(* CACHE_CAPS_50: per frame size and channel count, what a bin can take.   *)
CacheCaps == Indexed(<<
  224, 224, 224, 224, 224, 224, 224, 224, 160, 160, 160, 160, 185, 185, 185, 178, 178, 168, 134, 61, 37,
  224, 224, 224, 224, 224, 224, 224, 224, 240, 240, 240, 240, 207, 207, 207, 198, 198, 183, 144, 66, 40,
  160, 160, 160, 160, 160, 160, 160, 160, 185, 185, 185, 185, 193, 193, 193, 183, 183, 172, 138, 64, 38,
  240, 240, 240, 240, 240, 240, 240, 240, 207, 207, 207, 207, 204, 204, 204, 193, 193, 180, 143, 66, 40,
  185, 185, 185, 185, 185, 185, 185, 185, 193, 193, 193, 193, 193, 193, 193, 183, 183, 172, 138, 65, 39,
  207, 207, 207, 207, 207, 207, 207, 207, 204, 204, 204, 204, 201, 201, 201, 188, 188, 176, 141, 66, 40,
  193, 193, 193, 193, 193, 193, 193, 193, 193, 193, 193, 193, 194, 194, 194, 184, 184, 173, 139, 65, 39,
  204, 204, 204, 204, 204, 204, 204, 204, 201, 201, 201, 201, 198, 198, 198, 187, 187, 175, 140, 66, 40>>)

(* LOG2_FRAC_TABLE: eighths of a bit that a choice among n + 1 costs.      *)
Log2Frac == Indexed(<<0, 8, 13, 16, 19, 21, 23, 24, 26, 27, 28, 29, 30, 31, 32,
                      32, 33, 34, 34, 35, 36, 36, 37, 37>>)

Width(j) == EBands[j + 1] - EBands[j]
Vector(v, j) == AllocVectors[21 * v + j]

(* init_caps: the most a band can use, over all its channels.              *)
InitCaps ==
  [lm \in 0..3, channels \in 1..2 |->
     [j \in Bands |->
        ((CacheCaps[21 * (2 * lm + channels - 1) + j] + 64)
          * channels * Width(j) * 2^lm) \div 4]]

-----------------------------------------------------------------------------
Least(a, b) == IF a < b THEN a ELSE b
Most(a, b) == IF a > b THEN a ELSE b

Coded(f) == f.start..(f.end - 1)
AllocFloor(f) == f.channels * BitRes
CapOf(f, j) == InitCaps[f.lm, f.channels][j]

(* The sum of g over the bands from a to b.                                *)
Total(g, a, b) ==
  LET T[j \in a..(b + 1)] == IF j > b THEN 0 ELSE g[j] + T[j + 1]
  IN T[a]
TotalOf(f, g) == Total(g, f.start, f.end - 1)

(* Three of sixteen parts of a band's bins: below it a band gets nothing.  *)
Thresh(f, j) == Most(AllocFloor(f), (3 * Width(j) * BitRes * 2^f.lm) \div 16)

(* The trim tilts the curves towards the low bands or the high ones.       *)
TrimOffset(f, j) ==
  ((f.channels * Width(j) * (f.trim - 5 - f.lm) * (f.end - j - 1) * BitRes * 2^f.lm) \div 64)
    - (IF Width(j) * 2^f.lm = 1 THEN AllocFloor(f) ELSE 0)

Trimmed(f, j, b) == IF b > 0 THEN Most(0, b + TrimOffset(f, j)) ELSE b

(* A curve of the matrix; beyond the last one, the caps.                   *)
Curve(f, v, j) ==
  Trimmed(f, j, IF v \in Vectors
                THEN (f.channels * Width(j) * Vector(v, j) * 2^f.lm) \div 4
                ELSE CapOf(f, j))

(* What a curve comes to: from the highest band that reaches its threshold *)
(* down every band gets what the curve gives, up to its cap; above it one  *)
(* bit a channel, if the curve gives that much.                            *)
Kept(f, curve) ==
  LET Top[j \in (f.start - 1)..(f.end - 1)] ==
        IF j < f.start \/ curve[j] >= Thresh(f, j) THEN j ELSE Top[j - 1]
      top == Top[f.end - 1]
  IN [j \in Coded(f) |->
        IF j <= top THEN Least(curve[j], CapOf(f, j))
        ELSE IF curve[j] >= AllocFloor(f) THEN AllocFloor(f) ELSE 0]

Cost(f, curve) == TotalOf(f, Kept(f, curve))

(* What is kept back for the symbols themselves.                           *)
Reserved(f, total) ==
  LET skip == IF total >= BitRes THEN BitRes ELSE 0
      choice == Log2Frac[f.end - f.start]
      stereo == f.channels = 2 /\ choice <= total - skip
      dual == IF stereo /\ total - skip - choice >= BitRes THEN BitRes ELSE 0
  IN [skip |-> skip, intensity |-> IF stereo THEN choice ELSE 0, dual |-> dual]

(* The binary search for the highest curve that the budget pays for; the   *)
(* result is the first that it does not.                                   *)
FirstTooDear(f, budget) ==
  LET S[lo \in 1..11, hi \in 0..10] ==
        IF lo > hi THEN lo
        ELSE LET mid == (lo + hi) \div 2
             IN IF Cost(f, [j \in Coded(f) |-> Curve(f, mid, j) + f.offsets[j]]) > budget
                THEN S[lo, mid - 1] ELSE S[mid + 1, hi]
  IN S[1, 10]

(* The curve before it, and what leads from there to it.  The lowest curve *)
(* is empty and takes no boosts.                                           *)
Below(f, hi) ==
  [j \in Coded(f) |-> Curve(f, hi - 1, j) + (IF hi > 1 THEN f.offsets[j] ELSE 0)]
Above(f, hi, below) ==
  [j \in Coded(f) |-> Most(0, (Curve(f, hi, j) + f.offsets[j]) - below[j])]

(* Between the two: 64 steps, again by binary search.                      *)
Between(f, below, above, k) == [j \in Coded(f) |-> below[j] + ((k * above[j]) \div 64)]
Interpolated(f, budget, below, above) ==
  LET S[a \in 0..63, b \in 1..64] ==
        IF b - a = 1 THEN a
        ELSE LET mid == (a + b) \div 2
             IN IF Cost(f, Between(f, below, above, mid)) > budget THEN S[a, mid] ELSE S[mid, b]
      kept == Kept(f, Between(f, below, above, S[0, 64]))
  IN [j \in Coded(f) |-> Least(kept[j], CapOf(f, j))]

(* A boosted band is never dropped, nor one below it.                      *)
SkipStart(f) == Max({f.start} \cup {j \in Coded(f) : f.offsets[j] > 0})

(***************************************************************************)
(* Dropping bands from the top.                                            *)
(***************************************************************************)
Encoder(prev, bandwidth, intensity, dual) ==
  [enc |-> TRUE, prev |-> prev, bandwidth |-> bandwidth,
   intensity |-> intensity, dual |-> dual]
Decoder(symbols) == [enc |-> FALSE, symbols |-> symbols]

Symbol(side, sent) ==
  IF Len(sent) < Len(side.symbols) THEN side.symbols[Len(sent) + 1].v ELSE 0

(* The encoder keeps a band that has bits enough for its depth and lies    *)
(* below the bandwidth of the signal.                                      *)
Stops(side, f, st, band, bandBits) ==
  IF side.enc
  THEN LET depth == IF st.coded <= 17 THEN 0 ELSE IF band < side.prev THEN 7 ELSE 9
       IN \/ st.coded <= f.start + 2
          \/ /\ bandBits > (depth * Width(band) * BitRes * 2^f.lm) \div 16
             /\ band <= side.bandwidth
  ELSE Symbol(side, st.sent) = 1

(* What the band would have if all that is left were spread evenly.        *)
Offered(f, st, band) ==
  LET span == EBands[st.coded] - EBands[f.start]
      left == st.total - st.psum
      each == Most(left, 0) \div span
      rem == Most((left - (span * each)) - (EBands[band] - EBands[f.start]), 0)
  IN st.bits[band] + (each * Width(band)) + rem

Skip(v) == [field |-> "skip", v |-> v, cost |-> BitRes]

Drop(f, st, band, offered, asked) ==
  LET rsv == IF st.rsv > 0 THEN Log2Frac[band - f.start] ELSE 0
      left == IF asked THEN offered - BitRes ELSE offered
      floor == IF left >= AllocFloor(f) THEN AllocFloor(f) ELSE 0
  IN [st EXCEPT !.coded = band,
                !.rsv = rsv,
                !.psum = (@ + (IF asked THEN BitRes ELSE 0)) - (st.bits[band] + st.rsv) + rsv + floor,
                !.bits[band] = floor,
                !.sent = IF asked THEN Append(@, Skip(0)) ELSE @]

(***************************************************************************)
(* The two stereo symbols.  The encoder sends no intensity beyond the last *)
(* coded band but keeps its own; a dual stereo bit that is not needed is   *)
(* given back to the bands and coded all the same.                         *)
(***************************************************************************)
WithStereo(side, f, st) ==
  LET here == st.rsv > 0
      wish == IF side.enc THEN side.intensity ELSE f.start + Symbol(side, st.sent)
      intensity == IF here THEN wish ELSE 0
      sent1 == IF here
               THEN Append(st.sent, [field |-> "intensity",
                                     v |-> Least(wish, st.coded) - f.start, cost |-> st.rsv])
               ELSE st.sent
      dual == IF st.dual = 0 THEN 0
              ELSE IF side.enc THEN side.dual ELSE Symbol(side, sent1)
      sent2 == IF st.dual = 0 THEN sent1
               ELSE Append(sent1, [field |-> "dual", v |-> dual, cost |-> BitRes])
  IN [st EXCEPT !.intensity = intensity, !.apart = dual, !.sent = sent2,
                !.total = @ + (IF intensity <= f.start THEN st.dual ELSE 0)]

(* What is left of the budget, spread over the bands that stay, the odd    *)
(* eighths to the lowest.                                                  *)
Spread(f, st) ==
  LET span == EBands[st.coded] - EBands[f.start]
      left == st.total - st.psum
      each == Most(left, 0) \div span
      odd == left - (span * each)
      Odd(j) == IF odd < 0 THEN IF j = f.start THEN odd ELSE 0
                ELSE Least(Width(j), Most(odd - (EBands[j] - EBands[f.start]), 0))
  IN [j \in Coded(f) |->
        IF j < st.coded THEN st.bits[j] + (each * Width(j)) + Odd(j) ELSE st.bits[j]]

(***************************************************************************)
(* Each band's bits divided between its shape and its energy, what is      *)
(* beyond its cap handed on to the next.                                   *)
(***************************************************************************)
Offset(f, j, den, bits) ==
  LET nclogn == den * (LogN[j] + f.lm * BitRes)
      o == (nclogn \div 2) - (den * FineOffset)
             + (IF Width(j) * 2^f.lm = 2 THEN den * 2 ELSE 0)
  IN IF bits + o < den * 2 * BitRes THEN o + (nclogn \div 4)
     ELSE IF bits + o < den * 3 * BitRes THEN o + (nclogn \div 8) ELSE o

(* The bits beyond a band's cap.                                           *)
Excess(f, j, given) == Most(given - CapOf(f, j), 0)

FineBits(c, wanted, most) ==
  Least(IF c * wanted > most THEN most ELSE wanted, MaxFineBits)

(* What is beyond the cap may still refine the energy.                     *)
ExtraFine(c, excess, fine) == Least(excess \div (c * BitRes), MaxFineBits - fine)

FineSplit(f, st, j, given) ==
  LET n == Width(j) * 2^f.lm
      c == f.channels
      excess == Excess(f, j, given)
      bits == given - excess
      den == (c * n) + (IF c = 2 /\ n > 2 /\ st.apart = 0 /\ j < st.intensity THEN 1 ELSE 0)
      offset == Offset(f, j, den, bits)
      wanted == (Most(0, bits + offset + (den * 4)) \div den) \div BitRes
      fine == FineBits(c, wanted, (bits \div c) \div BitRes)
      extra == ExtraFine(c, excess, fine)
      used == extra * c * BitRes
  IN [bits |-> bits - (c * fine * BitRes), fine |-> fine + extra,
      excess |-> excess, used |-> used,
      first |-> fine * den * BitRes >= bits + offset]

(* A band of one bin has only its signs: no fine energy.                   *)
BandSplit(f, st, j, given, balance) ==
  IF Width(j) * 2^f.lm > 1
  THEN LET s == FineSplit(f, st, j, given + balance)
       IN [bits |-> s.bits, fine |-> s.fine,
           priority |-> s.first \/ (s.excess > 0 /\ s.used >= s.excess - balance),
           balance |-> s.excess - s.used]
  ELSE LET excess == Most(0, given + balance - AllocFloor(f))
       IN [bits |-> given + balance - excess, fine |-> 0, priority |-> TRUE,
           balance |-> excess]

(* A dropped band's bit per channel is one bit of energy.                  *)
Leftover(f, bits, balance) ==
  [bits |-> 0, fine |-> (bits \div f.channels) \div BitRes,
   priority |-> (bits \div f.channels) \div BitRes < 1, balance |-> balance]

-----------------------------------------------------------------------------
CONSTANTS
  Frames,                     \* the frames: bands, channels, size, trim, boosts
  Budgets,                    \* eighths of a bit left when the allocation begins
  IntensityAt(_)              \* where the encoder may start to code the channels as one

ASSUME FramesAssumption ==
  /\ \A f \in Frames : /\ f.start \in Bands /\ f.end \in 1..21 /\ f.start < f.end
                       /\ f.channels \in 1..2 /\ f.lm \in 0..3 /\ f.trim \in 0..10
                       /\ DOMAIN f.offsets = Coded(f)
                       /\ IntensityAt(f) \subseteq 0..21
  /\ Budgets \subseteq Int

VARIABLES
  frame, bits,                \* the frame being coded, and its budget
  last,                       \* last_coded_bands
  side,                       \* who is dividing: the encoder, or the decoder
  step,                      \* where in the division it is
  st,                         \* the division so far
  enc                         \* the encoder's, once it is done

allocVars == <<frame, bits, last, side, step, st, enc>>

Nothing == [sent |-> << >>]
NoFrame == [start |-> 0, end |-> 0]

(* signal_bandwidth: the last band the analysis, if there is one, hears.   *)
Bandwidths(f) == {1, (f.start + f.end) \div 2, f.end - 1}

AllocInit ==
  /\ frame = NoFrame /\ bits = 0
  /\ last = 0
  /\ side = Decoder(<< >>) /\ step = "idle"
  /\ st = Nothing /\ enc = Nothing

(***************************************************************************)
(* The division, step by step, the same for both ends.                     *)
(***************************************************************************)
(* The reservations for the symbols, and the curve the budget pays for.    *)
Begun(f, total) ==
  LET reserve == Reserved(f, total)
      budget == total - reserve.skip - reserve.intensity - reserve.dual
      hi == FirstTooDear(f, budget)
  IN [skip |-> reserve.skip, rsv |-> reserve.intensity, dual |-> reserve.dual,
      total |-> budget, hi |-> hi, below |-> Below(f, hi), sent |-> << >>]

EncodeFrame ==
  /\ step = "idle"
  /\ frame' \in Frames /\ bits' \in Budgets
  /\ \E bandwidth \in Bandwidths(frame'), intensity \in IntensityAt(frame'),
        dual \in IF frame'.channels = 2 /\ frame'.lm # 0 THEN {0, 1} ELSE {0} :
       side' = Encoder(last, bandwidth, intensity, dual)
  /\ st' = Begun(frame', Most(bits', 0))
  /\ step' = "interpolate"
  /\ UNCHANGED <<last, enc>>

DecodeFrame ==
  /\ step = "done" /\ side.enc
  /\ side' = Decoder(st.sent)
  /\ enc' = st
  /\ st' = Begun(frame, Most(bits, 0))
  /\ step' = "interpolate"
  /\ UNCHANGED <<frame, bits, last>>

Interpolate ==
  /\ step = "interpolate"
  /\ \E above \in {Above(frame, st.hi, st.below)} :
       \E b \in {Interpolated(frame, st.total, st.below, above)} :
         st' = [skip |-> st.skip, rsv |-> st.rsv, dual |-> st.dual, total |-> st.total,
                coded |-> frame.end, bits |-> b, psum |-> TotalOf(frame, b),
                sent |-> << >>, intensity |-> 0, apart |-> 0]
  /\ step' = "drop"
  /\ UNCHANGED <<frame, bits, last, side, enc>>

Band == st.coded - 1
Asked(offered) == offered >= Most(Thresh(frame, Band), AllocFloor(frame) + BitRes)

(* The last band that may be dropped has been: the bit kept for the symbol *)
(* is given back.                                                          *)
LastBand ==
  /\ step = "drop" /\ Band <= SkipStart(frame)
  /\ st' = [st EXCEPT !.total = @ + st.skip]
  /\ step' = "stereo"
  /\ UNCHANGED <<frame, bits, last, side, enc>>

\* Mutant: the symbol is not sent where the encoder has no choice.
StopDroppingUnsaid ==
  /\ step = "drop" /\ Band > SkipStart(frame)
  /\ LET offered == Offered(frame, st, Band)
     IN Asked(offered) /\ Stops(side, frame, st, Band, offered)
  /\ st' = IF side.enc /\ st.coded <= frame.start + 2 THEN st
           ELSE [st EXCEPT !.sent = Append(@, Skip(1))]
  /\ step' = "stereo"
  /\ UNCHANGED <<frame, bits, last, side, enc>>

StopDropping ==
  /\ step = "drop" /\ Band > SkipStart(frame)
  /\ LET offered == Offered(frame, st, Band)
     IN Asked(offered) /\ Stops(side, frame, st, Band, offered)
  /\ st' = [st EXCEPT !.sent = Append(@, Skip(1))]
  /\ step' = "stereo"
  /\ UNCHANGED <<frame, bits, last, side, enc>>

DropBand ==
  /\ step = "drop" /\ Band > SkipStart(frame)
  /\ \E offered \in {Offered(frame, st, Band)} :
       /\ ~(Asked(offered) /\ Stops(side, frame, st, Band, offered))
       /\ st' = Drop(frame, st, Band, offered, Asked(offered))
  /\ UNCHANGED <<frame, bits, last, side, step, enc>>

CodeStereo ==
  /\ step = "stereo"
  /\ \E s \in {WithStereo(side, frame, st)} :
       st' = [coded |-> s.coded, intensity |-> s.intensity, apart |-> s.apart,
              sent |-> s.sent, pulses |-> Spread(frame, s),
              fine |-> [j \in Coded(frame) |-> 0],
              priority |-> [j \in Coded(frame) |-> FALSE],
              balance |-> 0, band |-> frame.start]
  /\ step' = "split"
  /\ UNCHANGED <<frame, bits, last, side, enc>>

SplitBand ==
  /\ step = "split" /\ st.band < frame.end
  /\ \E s \in {IF st.band < st.coded
                THEN BandSplit(frame, st, st.band, st.pulses[st.band], st.balance)
                ELSE Leftover(frame, st.pulses[st.band], st.balance)} :
       st' = [st EXCEPT !.pulses[st.band] = s.bits, !.fine[st.band] = s.fine,
                        !.priority[st.band] = s.priority, !.balance = s.balance,
                        !.band = @ + 1]
  /\ UNCHANGED <<frame, bits, last, side, step, enc>>

(* The number of coded bands the encoder remembers follows by one band a   *)
(* frame at most.                                                          *)
LastCodedBands(before, coded) ==
  IF before # 0 THEN Least(before + 1, Most(before - 1, coded)) ELSE coded

Finish ==
  /\ step = "split" /\ st.band = frame.end
  /\ step' = "done"
  /\ last' = IF side.enc THEN LastCodedBands(last, st.coded) ELSE last
  /\ UNCHANGED <<frame, bits, side, st, enc>>

(* The next frame: all but last_coded_bands is computed anew.              *)
NextFrame ==
  /\ step = "done" /\ ~side.enc
  /\ frame' = NoFrame /\ bits' = 0
  /\ side' = Decoder(<< >>) /\ step' = "idle"
  /\ st' = Nothing /\ enc' = Nothing
  /\ UNCHANGED last

AllocNext ==
  \/ EncodeFrame \/ DecodeFrame \/ NextFrame
  \/ Interpolate \/ LastBand \/ StopDropping \/ DropBand
  \/ CodeStereo \/ SplitBand \/ Finish

AllocSpec == AllocInit /\ [][AllocNext]_allocVars

(***************************************************************************)
(* Properties.                                                             *)
(***************************************************************************)
Done == step = "done"
Received == Done /\ ~side.enc

SymbolCost(s) == FoldSeq(LAMBDA x, n : x.cost + n, 0, s)

(* What the bands of an allocation and its symbols cost together.          *)
Divided(a, f) ==
  TotalOf(f, a.pulses) + (AllocFloor(f) * TotalOf(f, a.fine)) + SymbolCost(a.sent)

(* The shape of the state: an allocation keeps at least the first band,    *)
(* and no band gets less than nothing or more energy bits than are coded   *)
(* (the debug_assert!s at the end of interp_bits2pulses).                  *)
AllocTypeOK ==
  /\ last \in 0..21
  /\ step \in {"idle", "interpolate", "drop", "stereo", "split", "done"}
  /\ step # "idle" => frame \in Frames /\ bits \in Budgets
  /\ step \in {"drop", "stereo", "split", "done"} => st.coded \in (frame.start + 1)..frame.end
  /\ Done =>
       /\ \A j \in Coded(frame) : /\ st.pulses[j] >= 0
                                  /\ st.fine[j] \in 0..MaxFineBits
                                  /\ st.priority[j] \in BOOLEAN
       /\ st.balance >= 0

(* Both ends divide the same: the same bits for every band's shape and     *)
(* energy, the same bands first served when bits are left over, and the    *)
(* same channels coded as one - although the encoder decided from its      *)
(* history and the decoder from three kinds of symbols, of which there is  *)
(* neither one too many nor one too few.                                   *)
DividedAlike ==
  Received =>
    /\ st.sent = enc.sent
    /\ <<st.coded, st.pulses, st.fine, st.priority, st.balance, st.apart>>
         = <<enc.coded, enc.pulses, enc.fine, enc.priority, enc.balance, enc.apart>>
    /\ \A j \in frame.start..(enc.coded - 1) : (j < st.intensity) = (j < enc.intensity)

(* The division is exact: bands, symbols and what no band could take come  *)
(* to what there was to divide, not an eighth more or less.                *)
BudgetIsDivided ==
  Done => Divided(st, frame) + st.balance = Most(bits, 0)

(* A band is never given more than it can use: what is over goes to the    *)
(* next, and at the end to the balance.                                    *)
WithinCaps ==
  Done => \A j \in Coded(frame) : st.pulses[j] <= CapOf(frame, j)

(* A band the encoder boosted is coded, whatever else is dropped.          *)
BoostsAreKept ==
  Done => \A j \in Coded(frame) : frame.offsets[j] > 0 => j < st.coded

(* The division is a division: both ends come to the same, it is exact,    *)
(* and no band is given what it cannot use or loses what it was promised.  *)
DivisionAgrees ==
  /\ AllocTypeOK
  /\ DividedAlike
  /\ BudgetIsDivided
  /\ WithinCaps
  /\ BoostsAreKept
=============================================================================
