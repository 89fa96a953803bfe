----------------------------- MODULE CeltHistory -----------------------------
(***************************************************************************)
(* What CELT remembers from frame to frame, at both ends.  The energies of *)
(* the bands are sent as differences from those of the last frame, so the  *)
(* two ends have to keep the same ones, through changes of the number of   *)
(* channels and of the bands coded, silence and resets; a lost frame puts  *)
(* them apart until one is sent without prediction (intra).  The decoder   *)
(* also remembers how it concealed: by repeating the pitch, or, once that  *)
(* would be heard, by noise.                                               *)
(*                                                                         *)
(* An energy is a small number: a frame adds its difference to it.  The    *)
(* encoder has memory for two channels and may send one or two.            *)
(***************************************************************************)
EXTENDS Integers, FiniteSets

CONSTANTS
  Ranges,                     \* <<first, end>> of the bands a frame may code
  MaxFrames,                  \* bound: frames sent
  MaxLosses                   \* bound: frames concealed

Bands == 0..1
Channels == 1..2

ASSUME RangesAssumption ==
  /\ Ranges # {} /\ \A r \in Ranges : r[1] \in 0..1 /\ r[2] \in 1..2 /\ r[1] < r[2]
  /\ MaxFrames \in Nat /\ MaxLosses \in Nat

VARIABLES
  enc,                        \* old_band_e of the encoder
  air,                        \* the frame on its way, if any
  dec,                        \* old_ebands of the decoder
  loss_duration, skip_plc, prefilter_and_fold,
  frames_sent, lost,          \* frames so far
  last,                       \* what the decoder did last
  gap,                        \* how it concealed last, since it began anew
  good,                       \* frames received since the last concealment
  apart,                      \* the two ends may differ: see MayDiffer
  two                         \* the last frame had two channels

historyVars == <<enc, air, dec, loss_duration, skip_plc, prefilter_and_fold, frames_sent, lost,
          last, gap, good, apart, two>>

GreaterOf(a, b) == IF a > b THEN a ELSE b
LesserOf(a, b) == IF a < b THEN a ELSE b

Quietest == -28
Started == [ch \in Channels |-> [b \in Bands |-> 0]]
None == [channels |-> 0]

(* A frame: how many channels, which bands, whether it is predicted, and   *)
(* the differences: one for each channel.                                  *)
Frames == [channels : Channels, range : Ranges, intra : BOOLEAN, silence : BOOLEAN,
           q : [Channels -> 0..1]]

Coded(f) == f.range[1]..(f.range[2] - 1)

(* The energies that a frame leaves: from none if it is not predicted, or  *)
(* from those of the last one.                                             *)
Predicted(old, f) ==
  [ch \in Channels |-> [b \in Bands |->
     IF ch > f.channels \/ b \notin Coded(f) THEN old[ch][b]
     ELSE (IF f.intra THEN 0 ELSE GreaterOf(old[ch][b], -9)) + f.q[ch]]]

(* A silent frame leaves the quietest energies in the channels it has.     *)
Silenced(old, channels) ==
  [ch \in Channels |-> IF ch <= channels THEN [b \in Bands |-> Quietest] ELSE old[ch]]

\* Mutant: the second channel is left alone.
CopiedNot(old, f) == old

(* A frame of one channel leaves the second like the first.                *)
Copied(old, f) == IF f.channels = 1 THEN [ch \in Channels |-> old[1]] ELSE old

(* The bands that are not coded begin anew.                                *)
Cleared(old, f) ==
  [ch \in Channels |-> [b \in Bands |-> IF b \notin Coded(f) THEN 0 ELSE old[ch][b]]]

(***************************************************************************)
(* The encoder.                                                            *)
(***************************************************************************)
Encoded(f) ==
  LET coded == Predicted(enc, f)
      quiet == IF f.silence THEN Silenced(coded, f.channels) ELSE coded
  IN Cleared(Copied(quiet, f), f)

(* Two frames that a receiver without losses may take differently: the     *)
(* first of one channel after two is predicted from the left channel here, *)
(* and from the louder one there.                                          *)
MayDiffer(f) == f.channels = 1 /\ two /\ ~f.intra

Encode ==
  /\ air = None /\ frames_sent < MaxFrames
  /\ \E f \in Frames :
       /\ f.silence => ~f.intra /\ \A ch \in Channels : f.q[ch] = 0
       /\ f.channels = 1 => f.q[2] = 0
       /\ air' = f
       /\ enc' = Encoded(f)
       /\ apart' = IF f.intra \/ f.silence THEN apart ELSE apart \/ MayDiffer(f)
       /\ two' = (f.channels = 2)
  /\ frames_sent' = frames_sent + 1
  /\ UNCHANGED <<dec, loss_duration, skip_plc, prefilter_and_fold, lost, last, gap, good>>

(***************************************************************************)
(* The decoder.                                                            *)
(***************************************************************************)
(* A frame of one channel: the louder of the two is predicted from.        *)
Louder(old, f) ==
  IF f.channels = 1
  THEN [old EXCEPT ![1] = [b \in Bands |-> GreaterOf(old[1][b], old[2][b])]]
  ELSE old

(* After a loss a predicted frame lowers what it predicts from; by how much*)
(* is numerical, here by one.                                              *)
Lowered(old, f) ==
  IF ~f.intra /\ loss_duration # 0
  THEN [ch \in Channels |-> [b \in Bands |-> IF b \in Coded(f) THEN old[ch][b] - 1 ELSE old[ch][b]]]
  ELSE old

Decoded(f) ==
  LET coded == Predicted(Lowered(Louder(dec, f), f), f)
      quiet == IF f.silence THEN Silenced(coded, 2) ELSE coded
  IN Cleared(Copied(quiet, f), f)

Forgiving(f) == f.intra \/ f.silence

Decode ==
  /\ air # None
  /\ dec' = Decoded(air)
  /\ skip_plc' = IF loss_duration = 0 THEN FALSE ELSE skip_plc
  /\ prefilter_and_fold' = FALSE /\ loss_duration' = 0
  /\ last' = "frame" /\ good' = LesserOf(good + 1, 2)
  /\ apart' = IF Forgiving(air) THEN FALSE ELSE apart
  /\ air' = None
  /\ UNCHANGED <<enc, frames_sent, lost, gap, two>>

(* Losses are counted in the shortest frames; at 40 (100 ms) the pitch is  *)
(* given up.  The frames here have 20 ms.                                  *)
NoiseBased(start) == loss_duration >= 40 \/ start # 0 \/ skip_plc

(* Bound: beyond 48 the duration counts no further; the code stops at      *)
(* 10000.                                                                  *)
Conceal(start) ==
  /\ lost < MaxLosses
  /\ IF NoiseBased(start)
     THEN /\ dec' = [ch \in Channels |-> [b \in Bands |-> dec[ch][b] - 1]]
          /\ prefilter_and_fold' = FALSE /\ skip_plc' = TRUE
          /\ last' = "noise" /\ gap' = "noise"
     ELSE /\ prefilter_and_fold' = TRUE
          /\ last' = "pitch" /\ gap' = "pitch"
          /\ UNCHANGED <<dec, skip_plc>>
  /\ loss_duration' = LesserOf(loss_duration + 8, 48)
  /\ good' = 0 /\ lost' = lost + 1

(* A frame is lost on its way, or there was none to send.                  *)
LoseFrame ==
  /\ air # None
  /\ Conceal(air.range[1])
  /\ air' = None /\ apart' = TRUE
  /\ UNCHANGED <<enc, frames_sent, two>>

Pause ==
  /\ air = None
  /\ \E r \in Ranges : Conceal(r[1])
  /\ apart' = TRUE
  /\ UNCHANGED <<enc, air, frames_sent, two>>

(* Both ends begin anew (the front-ends do that where the mode changes).   *)
Reset ==
  /\ air = None
  /\ enc' = Started /\ dec' = Started
  /\ loss_duration' = 0 /\ skip_plc' = TRUE /\ prefilter_and_fold' = FALSE
  /\ last' = "reset" /\ gap' = "none" /\ good' = 0 /\ apart' = FALSE /\ two' = FALSE
  /\ UNCHANGED <<air, frames_sent, lost>>

HistoryInit ==
  /\ enc = Started /\ dec = Started /\ air = None
  /\ loss_duration = 0 /\ skip_plc = TRUE /\ prefilter_and_fold = FALSE
  /\ frames_sent = 0 /\ lost = 0 /\ last = "reset" /\ gap = "none" /\ good = 0
  /\ apart = FALSE /\ two = FALSE

HistoryNext == Encode \/ Decode \/ LoseFrame \/ Pause \/ Reset
HistorySpec == HistoryInit /\ [][HistoryNext]_historyVars

(***************************************************************************)
(* Properties.                                                             *)
(***************************************************************************)
HistoryTypeOK ==
  /\ \A m \in {enc, dec} : \A ch \in Channels, b \in Bands :
       m[ch][b] \in (Quietest - MaxLosses - MaxFrames)..MaxFrames
  /\ air \in Frames \cup {None}
  /\ loss_duration \in 0..48 /\ {skip_plc, prefilter_and_fold, apart, two} \subseteq BOOLEAN
  /\ last \in {"reset", "frame", "pitch", "noise"} /\ gap \in {"none", "pitch", "noise"}
  /\ good \in 0..2

CodedSometimes == UNION {r[1]..(r[2] - 1) : r \in Ranges}

(* Both ends predict from the same energies, unless something was lost     *)
(* since the last frame that does without prediction: through every change *)
(* of channels and bands, through silence and resets.                      *)
EnergiesAgree ==
  air = None /\ ~apart =>
    \A ch \in Channels, b \in CodedSometimes : enc[ch][b] = dec[ch][b]

(* The pitch is repeated only where there is a pitch to repeat: never from *)
(* an empty memory, never after noise in the same gap, nor after a single  *)
(* frame that ended a gap filled with noise.                               *)
PitchNeedsMemory ==
  [][lost' > lost /\ last' = "pitch" =>
       \/ last = "pitch"
       \/ last = "frame" /\ (gap = "noise" => good >= 2)]_historyVars

(* The end of a repeated pitch is folded into whatever follows it, once.   *)
FoldIsOwed == prefilter_and_fold <=> last = "pitch"

(* What is remembered serves the next frame: the energies both ends, the   *)
(* concealment the one decoder.                                            *)
MemoryServes ==
  /\ [](HistoryTypeOK /\ EnergiesAgree /\ FoldIsOwed)
  /\ PitchNeedsMemory
=============================================================================
