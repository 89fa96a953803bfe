----------------------------- MODULE MCCeltFrame -----------------------------
(***************************************************************************)
(* A CELT frame: its fields from the encoder to the decoder (CeltFrame),   *)
(* and how its bits are divided among the bands (CeltAllocating).  `part'  *)
(* says which of them a behaviour is about; the variables of the other     *)
(* stay as they are.                                                       *)
(***************************************************************************)
EXTENDS CeltFrame

VARIABLE part                 \* "frame" or "allocation"

Config(start, end, channels, lm, vbr, before, lfe) ==
  [start |-> start, end |-> end, channels |-> channels, lm |-> lm, vbr |-> vbr,
   before |-> before, lfe |-> lfe]

(* Frames that begin the packet, and frames that follow SILK.              *)
CeltOnly == {Config(0, 2, 1, lm, vbr, 8, FALSE) : lm \in {0, 3}, vbr \in BOOLEAN}
            \cup {Config(0, 2, 1, 3, TRUE, 8, TRUE)}
Hybrids == {Config(17, 19, 1, lm, TRUE, 39, FALSE) : lm \in {2, 3}}
           \cup {Config(17, 19, 1, 3, FALSE, 39, FALSE)}
Stereo == {Config(0, 1, 2, 3, TRUE, 8, FALSE)}

FewCosts == {8, 100}
TinySizes == {1, 2, 5, 14}
HybridSizes == {6, 9, 20}

MCConfigs == CeltOnly \cup Hybrids \cup Stereo
MCSizes(c) == IF c \in Hybrids THEN HybridSizes ELSE TinySizes

(* The whole band, the bands above SILK, and the smallest that the controls *)
(* of a custom mode can set.                                               *)
Wide == {<<0, 21>>}
Narrow == {<<0, 3>>, <<17, 19>>, <<17, 21>>}

Boosts(first, end) ==
  {[j \in first..(end - 1) |-> 0],
   [j \in first..(end - 1) |-> IF j = end - 1 THEN 96 ELSE 0]}
  \cup IF first > 0 THEN {[j \in first..(end - 1) |-> IF j = first + 1 THEN 48 ELSE 0]} ELSE {}

FramesOf(spans, channels, lms, trims) ==
  UNION {{[start |-> se[1], end |-> se[2], channels |-> channels, lm |-> lm,
           trim |-> t, offsets |-> b] : lm \in lms, t \in trims, b \in Boosts(se[1], se[2])} : se \in spans}

MonoFrames == FramesOf(Wide, 1, {3}, {2}) \cup FramesOf(Narrow, 1, {0, 3}, {8})
StereoFrames == FramesOf(Wide, 2, {3}, {8}) \cup FramesOf(Narrow, 2, {0, 2}, {2})

ManyBudgets == {-5, 8, 61, 333, 2500}

NoIntensity(f) == {0}
AfterStart(f) == {(f.start + f.end + 1) \div 2, f.end}

MCFrames == MonoFrames \cup StereoFrames
MCIntensityAt(f) == IF f.channels = 1 THEN NoIntensity(f) ELSE AfterStart(f)

MCInit ==
  \/ part = "frame" /\ Init /\ AllocInit
  \/ part = "allocation" /\ Init /\ AllocInit /\ cfg = Config(0, 2, 1, 0, FALSE, 8, FALSE) /\ size = 1

MCNext ==
  \/ part = "frame" /\ Next /\ UNCHANGED <<part, allocVars>>
  \/ part = "allocation" /\ AllocNext /\ UNCHANGED <<part, vars>>

MCSpec == MCInit /\ [][MCNext]_<<part, vars, allocVars>>
=============================================================================
