------------------------------ MODULE BandFolding ------------------------------
(***************************************************************************)
(* The bands of a CELT frame, decoded one after another.  A band that has  *)
(* no pulses is filled from what was decoded below it: it is folded.  Of   *)
(* every band a mask is kept, a bit for each block, set when the block has *)
(* any sound; a folded block has sound when the blocks it was folded from  *)
(* had, and afterwards noise is put where a bit is clear (anti_collapse).  *)
(*                                                                         *)
(* The masks are what the code has, as sets of its bits.  Beside them      *)
(* stands what the band really holds, followed through the same splits and *)
(* changes of resolution.  The spectrum itself is not here: a block sounds *)
(* or is silent.                                                           *)
(*                                                                         *)
(* The floating-point and the fixed-point build have a function each.      *)
(***************************************************************************)
EXTENDS Integers, Sequences, FiniteSets

CONSTANTS
  EBands,                     \* borders of the bands, in units of a short block's bins
  Lm,                         \* 2^Lm short blocks in a frame
  Spans,                      \* first band and the end
  ChannelCounts,              \* numbers of channels
  Depth,                      \* how often a band is split at most
  FixedPoint                  \* the build

FoldedBands == 0 .. Len(EBands) - 2
Edge(b) == EBands[b + 1]
Width(b) == Edge(b + 1) - Edge(b)
NoBand == -1
Silent == [c \in 1 .. 2 |-> [b \in FoldedBands |-> {}]]

ASSUME BandsAssumption ==
  /\ Lm \in 0 .. 3
  /\ \A i \in 1 .. Len(EBands) - 1 : EBands[i] < EBands[i + 1]
  /\ \A f \in Spans : f[1] \in FoldedBands /\ f[2] \in 1 .. Len(EBands) - 1 /\ f[1] < f[2]
  /\ ChannelCounts \subseteq 1 .. 2 /\ FixedPoint \in BOOLEAN

VARIABLES
  frame,                      \* start, end, channels; blocks of a band; spread is aggressive;
                              \* dual_stereo and intensity
  band,                       \* the next band
  lowband,                    \* lowband_offset, or None
  update,                     \* update_lowband
  mask,                       \* collapse_masks, by channel and band
  norm,                       \* of the two folding buffers: what each band's part holds
  sound,                      \* what the last band holds, by channel
  window                      \* the last band: where it was folded from, where to

foldingVars == <<frame, band, lowband, update, mask, norm, sound, window>>

All(blocks) == 0 .. blocks - 1
Shifted(bits, n) == {b + n : b \in bits}
Dropped(bits, n) == {b - n : b \in {c \in bits : c >= n}}
Power(n) == 2 ^ n
M == Power(Lm)
AtLeast(a, b) == IF a > b THEN a ELSE b

(***************************************************************************)
(* A band without pulses, with them, or split in two.  What is left of a   *)
(* mask's higher bits on the way down is cut off at the leaves.            *)
(***************************************************************************)
(* The pulses reach any of the blocks.                                     *)
Pulsed(blocks) == {[cm |-> s, held |-> s] : s \in SUBSET All(blocks) \ {{}}}

(* Without pulses: silence where nothing is to be folded, a copy of the    *)
(* source, or noise where there is none.                                   *)
Filled(fill, source, low, blocks) ==
  LET cut == fill \cap All(blocks)
  IN CASE cut = {} -> [cm |-> {}, held |-> {}]
       [] cut # {} /\ low -> [cm |-> cut, held |-> source \cap All(blocks)]
       [] cut # {} /\ ~low -> [cm |-> All(blocks), held |-> All(blocks)]

(* The angle between two halves may silence one: it gets neither pulses    *)
(* nor anything to fold.                                                   *)
Angles == {"first", "second", "both"}
Angled(fill, angle, blocks) ==
  CASE angle = "first" -> fill \cap All(blocks)
    [] angle = "second" -> fill \cap Shifted(All(blocks), blocks)
    [] angle = "both" -> fill

(* One block is split by frequency, several in time.                       *)
Halved(fill, blocks) == IF blocks = 1 THEN (fill \cap {0}) \cup Shifted(fill, 1) ELSE fill

RECURSIVE Partition(_, _, _, _, _, _)
Partition(fill, source, low, blocks, depth, pulses) ==
  LET half == (blocks + 1) \div 2
      given == Halved(fill, blocks)
      right(s) == IF blocks = 1 THEN s ELSE Dropped(s, half)
      left(s) == s \cap All(half)
      Of(angle) ==
        LET bits == Angled(given, angle, half)
        IN {[cm |-> a.cm \cup Shifted(b.cm, blocks \div 2),
             held |-> a.held \cup Shifted(b.held, blocks \div 2)] :
              a \in Partition(bits, left(source), low, half, depth - 1, angle # "second"),
              b \in Partition(Dropped(bits, half), right(source), low, half, depth - 1,
                              angle # "first")}
  IN {Filled(fill, source, low, blocks)}
       \cup (IF pulses THEN Pulsed(blocks) ELSE {})
       \cup (IF pulses /\ depth > 0 THEN UNION {Of(a) : a \in Angles} ELSE {})

(***************************************************************************)
(* quant_band: the resolution is changed, the blocks are coded, and the    *)
(* change is undone.  Two blocks become one where the band wants the finer *)
(* frequencies, one becomes two where it wants the finer times.            *)
(***************************************************************************)
RECURSIVE Times(_, _, _)
Times(Op(_), n, s) == IF n = 0 THEN s ELSE Times(Op, n - 1, Op(s))

Interleave(bits) == {b \in 0 .. 3 : {2 * b, 2 * b + 1} \cap bits # {}}

Deinterleave(bits) == {b \in 0 .. 7 : b \div 2 \in bits}

(* As long as a block has an even number of bins.                          *)
RECURSIVE Divisions(_, _)
Divisions(bins, tf) ==
  IF tf < 0 /\ bins % 2 = 0 THEN 1 + Divisions(bins \div 2, tf + 1) ELSE 0

RECURSIVE Doubled(_, _, _)
Doubled(bits, blocks, times) ==
  IF times = 0 THEN bits ELSE Doubled(bits \cup Shifted(bits, blocks), 2 * blocks, times - 1)

\* Mutant: what came of a division is not joined.
FoldedNot(bits, blocks, times) == bits

RECURSIVE Folded(_, _, _)
Folded(bits, blocks, times) ==
  IF times = 0 THEN bits
  ELSE Folded(bits \cup Dropped(bits, blocks \div 2), blocks \div 2, times - 1)

Cut(bits, blocks) == bits \cap All(blocks)

Change(n, blocks, tf) ==
  [joined |-> Power(AtLeast(tf, 0)), divided |-> Divisions(n \div blocks, tf)]

(* The source, and what was made of it, through the same change.           *)
Seen(source, blocks, c) ==
  {b \in All((blocks * Power(c.divided)) \div c.joined) :
     \E s \in source : IF c.joined > 1 THEN s \div c.joined = b ELSE b % blocks = s}
Left(held, blocks, c) ==
  {b \in All(blocks) : \E h \in held : IF c.joined > 1 THEN b \div c.joined = h ELSE h % blocks = b}

QuantBand(n, blocks, tf, fill, source, low, pulses) ==
  LET c == Change(n, blocks, tf)
      inner == (blocks * Power(c.divided)) \div c.joined
      given == Doubled(Times(Interleave, AtLeast(tf, 0), fill), blocks, c.divided)
      Back(cm) == Cut(Times(Deinterleave, AtLeast(tf, 0), Folded(cm, inner, c.divided)), blocks)
  IN IF n = 1 THEN {[cm |-> {0}, held |-> {0}]}
     ELSE {[cm |-> Back(o.cm), held |-> Left(o.held, blocks, c)] :
             o \in Partition(given, Seen(source, blocks, c), low, inner, Depth, pulses)}

(* Two channels as a sum and a difference; only the sum is folded, and is  *)
(* what later bands are folded from.  Of two bins the difference follows   *)
(* from the sum.                                                           *)
QuantBandStereo(n, blocks, tf, fill, source, low) ==
  IF n <= 2 THEN {[cm |-> o.cm, held |-> o.held, kept |-> o.held] :
                    o \in QuantBand(n, blocks, tf, fill, source, low, TRUE)}
  ELSE UNION {LET bits == Angled(fill, angle, blocks)
              IN {[cm |-> x.cm \cup y.cm, held |-> x.held \cup y.held, kept |-> x.held] :
                    x \in QuantBand(n, blocks, tf, bits, source, low, angle # "second"),
                    y \in QuantBand(n, blocks, tf, Dropped(bits, blocks), {}, FALSE,
                                   angle # "first")} : angle \in Angles}

(***************************************************************************)
(* Where a band is folded from.                                            *)
(***************************************************************************)
(* The last band from whose lower edge on there is something to copy, of   *)
(* those before which more than a bit was spent on a bin.                  *)
LowbandAt ==
  IF (Edge(band) >= Edge(frame.start) + Width(band) \/ band = frame.start + 1)
       /\ (update \/ lowband = NoBand)
  THEN band ELSE lowband

Folds(tf) == LowbandAt # NoBand /\ (~frame.aggressive \/ frame.blocks > 1 \/ tf < 0)

Effective == AtLeast(0, Edge(LowbandAt) - Edge(frame.start) - Width(band))

(* The bands whose masks are used.  The floating-point function goes down  *)
(* to the first border that is not above the end of the copy, the other to *)
(* the first that is not above its beginning.                              *)
FoldStart ==
  LET from == Edge(frame.start) + Effective
      border == IF FixedPoint THEN from ELSE from + Width(band)
      below == {b \in 0 .. LowbandAt - 1 : Edge(b) <= border}
  IN IF below = {} THEN 0 ELSE CHOOSE b \in below : \A c \in below : c <= b

FoldEnd ==
  LET to == Edge(frame.start) + Effective + Width(band)
  IN CHOOSE b \in LowbandAt .. band :
       /\ b = band \/ Edge(b) >= to
       /\ \A c \in LowbandAt .. b - 1 : Edge(c) < to

Masked(ch) == UNION {mask[ch][b] : b \in FoldStart .. FoldEnd - 1}

(* lowband_in_out_mut: a copy that runs into the band's own place, or out  *)
(* of the buffer, is not made; in the first case nothing is kept either.   *)
Last == band + 1 = frame.end
Place == Edge(band) - Edge(frame.start)
Apart == Effective + Width(band) <= Place \/ Place + Width(band) <= Effective
Room == Effective + Width(band) <= Edge(Len(EBands) - 2) - Edge(frame.start)

Copies(tf) == Folds(tf) /\ Room /\ (Last \/ Apart)
Keeps(tf) == ~Last /\ (Folds(tf) => Room /\ Apart)

(* Both channels are folded from the sum once they are coded together.     *)
Dual == frame.dual /\ band < frame.intensity
Norm ==
  IF frame.dual /\ band = frame.intensity
  THEN <<[b \in FoldedBands |-> norm[1][b] \cup norm[2][b]], Silent[2]>> ELSE norm

(* What the copy holds: whatever it overlaps.                              *)
CopyHolds(ch) ==
  UNION {Norm[ch][b] : b \in {c \in frame.start .. band - 1 :
                               /\ Edge(c) - Edge(frame.start) < Effective + Width(band)
                               /\ Edge(c + 1) - Edge(frame.start) > Effective}}

-----------------------------------------------------------------------------
(* TF_SELECT_TABLE, for long blocks and for short ones.                    *)
TfChanges(blocks) ==
  CASE blocks > 1 -> {Lm, 0, 1, -1}
    [] blocks = 1 /\ Lm = 0 -> {0, -1}
    [] blocks = 1 /\ Lm = 1 -> {0, -1, -2}
    [] blocks = 1 /\ Lm > 1 -> {0, -2, -3}

NoFold == [of |-> NoBand, from |-> 0, to |-> 0, keeps |-> TRUE]

FramesAt ==
  {[start |-> f[1], end |-> f[2], channels |-> c, blocks |-> b, aggressive |-> a,
    dual |-> d, intensity |-> i] :
     f \in Spans, c \in ChannelCounts, b \in {1, M}, a \in BOOLEAN, d \in BOOLEAN,
     i \in 0 .. Len(EBands) - 1}

Admitted(f) ==
  /\ f.channels = 1 => ~f.dual
  /\ IF f.dual THEN f.intensity \in f.start + 1 .. f.end ELSE f.intensity = 0

FoldingInit ==
  /\ frame \in {f \in FramesAt : Admitted(f)}
  /\ band = frame.start
  /\ lowband = NoBand
  /\ update = TRUE
  /\ mask = Silent /\ norm = Silent /\ sound = <<{}, {}>>
  /\ window = NoFold

(* A band of one channel, of two on their own, of two together.            *)
Outcomes(tf) ==
  LET n == Width(band) * M
      Fill(ch) == IF Folds(tf) THEN Masked(ch) ELSE All(frame.blocks)
      Both == IF frame.channels = 1 THEN Fill(1) ELSE Fill(1) \cup Fill(2)
  IN IF Dual
     THEN {<<[cm |-> x.cm, held |-> x.held, kept |-> x.held],
             [cm |-> y.cm, held |-> y.held, kept |-> y.held]>> :
             x \in QuantBand(n, frame.blocks, tf, Fill(1), CopyHolds(1), Copies(tf), TRUE),
             y \in QuantBand(n, frame.blocks, tf, Fill(2), CopyHolds(2), Copies(tf), TRUE)}
     ELSE {<<o, [o EXCEPT !.kept = {}]>> :
             o \in IF frame.channels = 2
                   THEN QuantBandStereo(n, frame.blocks, tf, Both, CopyHolds(1), Copies(tf))
                   ELSE {[cm |-> x.cm, held |-> x.held, kept |-> x.held] :
                           x \in QuantBand(n, frame.blocks, tf, Both, CopyHolds(1), Copies(tf), TRUE)}}

DecodeBand ==
  /\ band < frame.end
  /\ \E tf \in TfChanges(frame.blocks) :
       /\ \E o \in Outcomes(tf) :
            /\ mask' = [c \in 1 .. 2 |-> [mask[c] EXCEPT ![band] = o[c].cm]]
            /\ sound' = <<o[1].held, o[2].held>>
            /\ norm' = IF Keeps(tf)
                       THEN [c \in 1 .. 2 |-> [Norm[c] EXCEPT ![band] = o[c].kept]] ELSE Norm
       /\ window' = IF Folds(tf) THEN [of |-> band, from |-> Effective, to |-> Effective + Width(band),
                                     keeps |-> Keeps(tf) \/ Last] ELSE NoFold
  /\ lowband' = LowbandAt
  /\ update' \in BOOLEAN
  /\ band' = band + 1
  /\ UNCHANGED frame

(* The next frame of the same kind.                                        *)
NextFrame ==
  /\ band = frame.end
  /\ frame' = frame
  /\ band' = frame.start
  /\ lowband' = NoBand
  /\ update' = TRUE
  /\ mask' = Silent /\ norm' = Silent /\ sound' = <<{}, {}>>
  /\ window' = NoFold

FoldingNext == DecodeBand \/ NextFrame

FoldingSpec == FoldingInit /\ [][FoldingNext]_foldingVars

-----------------------------------------------------------------------------
(* The state has its shape; in particular no mask has a bit of a block     *)
(* that the frame does not have.                                           *)
FoldingTypeOK ==
  /\ frame \in FramesAt /\ band \in frame.start .. frame.end
  /\ lowband \in FoldedBands \cup {NoBand} /\ update \in BOOLEAN
  /\ \A c \in 1 .. 2, b \in FoldedBands : mask[c][b] \subseteq All(frame.blocks)

(* A block that is marked as silent is silent: what is put there against   *)
(* the collapse of a band replaces nothing that was decoded or folded.     *)
OnlyTheSilentIsReplaced ==
  band > frame.start =>
    \A c \in 1 .. frame.channels : sound[c] \subseteq mask[c][band - 1]

(* lowband_in_out_mut: "lowband input/output windows unexpectedly overlap" *)
(* does not happen.  If it did, the band would be filled with noise, and   *)
(* later bands would find nothing in its place.                            *)
WindowsApart == window.keeps

(* A copy never reaches into the band it fills, and so it never repeats    *)
(* itself: it comes from bands that were decoded before.  Only the second  *)
(* band may be wider than all before it; special_hybrid_folding then has   *)
(* put a part of the first a second time behind it, which must suffice.    *)
ComesFromBelow ==
  LET place == Edge(window.of) - Edge(frame.start)
  IN window.of # NoBand => /\ window.from >= 0
                       /\ window.to <= IF window.of = frame.start + 1 THEN 2 * place ELSE place

(* What a band is copied from is spectrum of this frame and of lower       *)
(* bands, and is there.                                                    *)
FoldsAreSound ==
  /\ FoldingTypeOK
  /\ OnlyTheSilentIsReplaced
  /\ WindowsApart
  /\ ComesFromBelow
=============================================================================
