------------------------------ MODULE CeltRate ------------------------------
(***************************************************************************)
(* The constrained variable bit rate of the CELT encoder: a reservoir in   *)
(* eighths of a bit remembers by how much the last frames were larger than *)
(* the rate, limits the next frame before it is analysed, and hands back   *)
(* what a small frame saved.                                               *)
(*                                                                         *)
(* Only the sizes are modelled.  What a frame would like to have (target)  *)
(* comes from the analysis and from the drift of earlier targets: it may be*)
(* anything.                                                               *)
(***************************************************************************)
EXTENDS Integers

CONSTANTS
  Rates,                      \* eighths of a bit a frame may have on average
  MaxRate,
  Buffers,                    \* bytes a packet may have at most
  Targets,                    \* eighths a frame would like to have
  Headers,                    \* bytes the header needs (min_allowed)
  FreeSizes                   \* bytes of a frame without the constraint

(* The front-end conceals instead of encoding at less than three bytes a   *)
(* frame; a header is counted with at least one byte and two bytes more.   *)
ASSUME RatesAssumption ==
  /\ MaxRate \in Nat /\ Rates \subseteq 192..MaxRate
  /\ Buffers \subseteq Nat /\ \A b \in Buffers : b >= 2
  /\ Targets \subseteq Int
  /\ Headers \subseteq Nat /\ \A h \in Headers : h >= 3
  /\ FreeSizes \subseteq Nat

VARIABLES
  vbr_reservoir,
  vbr_rate,
  sent,                       \* the last frame: its rate and its bytes
  excess                      \* the most by which any run of frames up to
                              \* now is larger than its rate

vars == <<vbr_reservoir, vbr_rate, sent, excess>>

Least(a, b) == IF a < b THEN a ELSE b
Most(a, b) == IF a > b THEN a ELSE b

Init ==
  /\ vbr_reservoir = 0 /\ excess = 0 /\ vbr_rate \in Rates
  /\ sent = [rate |-> vbr_rate, bytes |-> 2]

(* The limit before anything is known of the frame.                        *)
MaxAllowed(r, buffer) ==
  Least(Most(2, (r + r - vbr_reservoir) \div 64), buffer)

(* What the frame is given, in bytes, of at most limit.                    *)
Available(target, header, limit) ==
  Least(limit, Most(header, (target + 32) \div 64))

(* A reservoir below zero: as many bytes as it is short of are added to the*)
(* frame.                                                                  *)
Adjust(res) == IF res < 0 THEN (-res) \div 64 ELSE 0

\* Mutant: savings are kept for later.
KeptAll(res) == res

(* What of the reservoir is kept: savings are not.                        *)
Kept(res) == Most(0, res)

Charged(bytes) == vbr_reservoir + 64 * bytes - vbr_rate

Emit(charged, bytes) ==
  /\ vbr_reservoir' = Kept(Charged(charged))
  /\ sent' = [rate |-> vbr_rate, bytes |-> bytes]
  /\ excess' = Most(0, excess + 64 * bytes - vbr_rate)
  /\ UNCHANGED vbr_rate

EncodeFrame ==
  \E buffer \in Buffers, target \in Targets, header \in Headers :
    LET limit == MaxAllowed(vbr_rate, buffer)
        given == Available(target, header, limit)
    IN Emit(given, Least(limit, given + Adjust(Charged(given))))

(* A silent frame has two bytes, and is charged for two.                   *)
EncodeSilence == Emit(2, 2)

(* A frame without the constraint (hybrid, or the caller's wish, or a      *)
(* constant rate) is not counted.                                          *)
EncodeFreely ==
  \E bytes \in FreeSizes :
    /\ sent' = [rate |-> vbr_rate, bytes |-> bytes]
    /\ excess' = 0
    /\ UNCHANGED <<vbr_reservoir, vbr_rate>>

(* The caller asks for another rate or for frames of another length; the   *)
(* reservoir stays what it is.                                             *)
SetRate ==
  /\ vbr_rate' \in Rates
  /\ UNCHANGED <<vbr_reservoir, sent, excess>>

ResetState ==
  /\ vbr_reservoir' = 0 /\ excess' = 0
  /\ UNCHANGED <<vbr_rate, sent>>

Next == EncodeFrame \/ EncodeSilence \/ EncodeFreely \/ SetRate \/ ResetState
Spec == Init /\ [][Next]_vars

(***************************************************************************)
(* Properties.                                                             *)
(***************************************************************************)
TypeOK ==
  /\ vbr_reservoir \in 0..MaxRate /\ vbr_rate \in Rates
  /\ sent \in [rate : Rates, bytes : Nat]
  /\ excess \in Nat

(* No run of frames is larger than its rate by more than the reservoir     *)
(* says, however the rate changed in between and however much the frames   *)
(* wanted: the bytes that a small frame gets back are counted too.         *)
ExcessIsCounted == excess <= vbr_reservoir

(* The encoder keeps the promise of a constrained rate with a buffer of one*)
(* frame at the highest rate.                                              *)
Contract == INSTANCE RateContract WITH Room <- MaxRate, level <- vbr_reservoir
KeepsTheContract == Contract!Spec

(* No frame is left with less than the two bytes that CELT needs.          *)
NoFrameStarves ==
  [][EncodeFrame => sent'.bytes >= 2]_vars

=============================================================================
