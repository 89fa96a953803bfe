----------------------------- MODULE SilkRateLoop -----------------------------
(***************************************************************************)
(* How a SILK frame is made to fit.  silk_encode_frame quantises the frame *)
(* and writes it to the range coder, and, when it has too many bits (or, at*)
(* a constant rate, too few), takes everything back, scales the gains and  *)
(* does it again, up to seven times.  In between it keeps the last version *)
(* that fits; at the end what was written, the memory of the quantiser and *)
(* the gain that the next frame's are steps from all have to be of the     *)
(* same version.                                                           *)
(*                                                                         *)
(* A version is named by its number.  The gains of a version are an id, as *)
(* in the code, where equal ids mean equal gains.  How many bits a version *)
(* has is numerical: any of a set.                                         *)
(***************************************************************************)
EXTENDS Integers

CONSTANTS
  MaxIter,                    \* max_iter
  MaxBits, Margin,            \* max_bits, bits_margin
  Bits,                       \* what versions may have
  StillBits,                  \* what a frame without pulses may have
  Ids                         \* gains

Previous == 0                 \* the gain index of the frame before
Nobody == -1                  \* no gains

(* The code has six.  With fewer than three a frame could be recalled in   *)
(* the last turn that was too large before, and what is in the range coder *)
(* would stay: it is only then that what was too large does not count.     *)
ASSUME RateLoopAssumption ==
  /\ MaxIter \in Nat /\ MaxIter >= 3 /\ MaxBits \in Nat /\ Margin \in 0..MaxBits
  /\ Bits \subseteq Nat /\ StillBits \subseteq Nat /\ Ids \subseteq Nat \ {0}

VARIABLES
  cbr,                        \* use_cbr
  turn,                       \* "try", "judge" or "done"
  iter, gain_mult, gains_id, n_bits,
  lower, upper,               \* [found, n_bits, mult, id]
  stream,                     \* what the range coder holds: [version, bits]
  state,                      \* what the encoder remembers: [nsq, indices, gain]
  best                        \* the stream and the state kept, or Nothing

rateVars == <<cbr, turn, iter, gain_mult, gains_id, n_bits, lower, upper, stream, state, best>>

Nothing == [stream |-> [version |-> 0, bits |-> 0], state |-> [nsq |-> 0, indices |-> 0, gain |-> 0]]
NotFound == [found |-> FALSE, n_bits |-> 0, mult |-> 0, id |-> Nobody]
Still == MaxIter + 2           \* the version without pulses: of no turn

Lesser(a, b) == IF a < b THEN a ELSE b
Greater(a, b) == IF a > b THEN a ELSE b

(***************************************************************************)
(* A turn of the loop: a version is made, unless its gains were seen.      *)
(***************************************************************************)
Known(id) == id = lower.id \/ id = upper.id

Recall ==
  /\ turn = "try" /\ Known(gains_id)
  /\ n_bits' = IF gains_id = lower.id THEN lower.n_bits ELSE upper.n_bits
  /\ turn' = "judge"
  /\ UNCHANGED <<cbr, iter, gain_mult, gains_id, lower, upper, stream, state, best>>

(* Nothing fitted and this was the last turn.                              *)
Overflows(b) == iter = MaxIter /\ ~lower.found /\ b > MaxBits

(* What is remembered of a frame without pulses: it repeats the last gain. *)
GivenUp == [nsq |-> iter + 1, indices |-> Previous, gain |-> Previous]

Quantise ==
  /\ turn = "try" /\ ~Known(gains_id)
  /\ \E b \in Bits :
       \/ /\ ~Overflows(b)
          /\ stream' = [version |-> iter + 1, bits |-> b]
          /\ state' = [nsq |-> iter + 1, indices |-> gains_id, gain |-> gains_id]
          /\ n_bits' = b
       \/ /\ Overflows(b)
          /\ \E s \in StillBits :
               stream' = [version |-> Still, bits |-> s] /\ n_bits' = s
          /\ state' = GivenUp
  /\ turn' = IF ~cbr /\ iter = 0 /\ n_bits' <= MaxBits THEN "done" ELSE "judge"
  /\ UNCHANGED <<cbr, iter, gain_mult, gains_id, lower, upper, best>>
(***************************************************************************)
(* What its bits lead to.                                                  *)
(***************************************************************************)

Restored == best.state

(* The last turn: the version that was kept, if this one does not fit.     *)
Finish ==
  /\ turn = "judge" /\ iter = MaxIter
  /\ IF lower.found /\ (gains_id = lower.id \/ n_bits > MaxBits)
     THEN stream' = best.stream /\ state' = Restored
     ELSE UNCHANGED <<stream, state>>
  /\ turn' = "done"
  /\ UNCHANGED <<cbr, iter, gain_mult, gains_id, n_bits, lower, upper, best>>

(* Between the two versions found, no nearer to either than a quarter.     *)
Toward(num, den) == IF num >= 0 THEN num \div den ELSE -((-num) \div den)

Interpolated(lo, up) ==
  LET diff == up.mult - lo.mult
      between == lo.mult + Toward(diff * (MaxBits - lo.n_bits), up.n_bits - lo.n_bits)
      far == lo.mult + (diff \div 4)
      near == up.mult - (diff \div 4)
  IN IF between > far THEN far ELSE IF between < near THEN near ELSE between

Scaled(lo, up) ==
  IF lo.found /\ up.found THEN Interpolated(lo, up)
  ELSE IF n_bits > MaxBits THEN Lesser(1024, (gain_mult * 3) \div 2)
  ELSE Greater(64, (gain_mult * 4) \div 5)

Counted(i) == i + 1

(* The gains are scaled and quantised again, from the last frame's.        *)
Again(lo, up) ==
  /\ lower' = lo /\ upper' = up
  /\ gain_mult' = Scaled(lo, up)
  /\ \E id \in Ids : gains_id' = id /\ state' = [state EXCEPT !.indices = id, !.gain = id]
  /\ iter' = Counted(iter)
  /\ turn' = "try"
  /\ UNCHANGED <<cbr, n_bits, stream>>

This == [found |-> TRUE, n_bits |-> n_bits, mult |-> gain_mult, id |-> gains_id]

(* Too large.  When nothing has fitted for two turns the quantiser is told *)
(* to save (lambda), and what was too large so far does not count.         *)
TooLarge ==
  /\ turn = "judge" /\ iter < MaxIter /\ n_bits > MaxBits
  /\ Again(lower, IF ~lower.found /\ iter >= 2 THEN NotFound ELSE This)
  /\ UNCHANGED best

\* Mutant: kept again only if it was never kept.
KeptOnce == IF lower.found THEN best ELSE [stream |-> stream, state |-> state]

Kept == IF gains_id # lower.id THEN [stream |-> stream, state |-> state] ELSE best

TooSmall ==
  /\ turn = "judge" /\ iter < MaxIter /\ n_bits < MaxBits - Margin
  /\ best' = Kept
  /\ Again(This, upper)

CloseEnough ==
  /\ turn = "judge" /\ iter < MaxIter /\ n_bits \in (MaxBits - Margin)..MaxBits
  /\ turn' = "done"
  /\ UNCHANGED <<cbr, iter, gain_mult, gains_id, n_bits, lower, upper, stream, state, best>>

RateInit ==
  /\ cbr \in BOOLEAN /\ turn = "try" /\ iter = 0 /\ gain_mult = 256
  /\ gains_id \in Ids /\ n_bits = 0 /\ lower = NotFound /\ upper = NotFound
  /\ stream = [version |-> 0, bits |-> 0]
  /\ state = [nsq |-> 0, indices |-> gains_id, gain |-> gains_id]
  /\ best = Nothing

RateNext == Recall \/ Quantise \/ Finish \/ TooLarge \/ TooSmall \/ CloseEnough

RateSpec == RateInit /\ [][RateNext]_rateVars /\ WF_rateVars(RateNext)

(***************************************************************************)
(* Properties.                                                             *)
(***************************************************************************)
RateTypeOK ==
  /\ cbr \in BOOLEAN /\ turn \in {"try", "judge", "done"}
  /\ iter \in 0..MaxIter /\ gain_mult \in 64..1024 /\ gains_id \in Ids
  /\ n_bits \in Bits \cup StillBits \cup {0}
  /\ {lower.mult, upper.mult} \subseteq {0} \cup (64..1024)
  /\ {lower.id, upper.id} \subseteq Ids \cup {Nobody}
  /\ stream.version \in (0..(MaxIter + 1)) \cup {Still}

(* The frame has the room it was given, or no pulses at all.               *)
FitsOrIsStill == turn = "done" => stream.bits <= MaxBits \/ stream.version = Still

(* What was written and what is remembered are of one version: the one     *)
(* that the decoder will have.                                             *)
OfOneVersion ==
  turn = "done" /\ stream.version # Still =>
    state.nsq = stream.version /\ state.gain = state.indices

(* A frame without pulses repeats the last gain, at both ends.             *)
StillRepeats == turn = "done" /\ stream.version = Still => state.gain = Previous

(* The pulses are given up only if no version fitted.                      *)
GivesUpLast == stream.version = Still => best = Nothing /\ ~lower.found

(* The version kept is the one whose gains and bits the search works with. *)
KeepsTheLower ==
  lower.found => /\ best.stream.bits = lower.n_bits /\ best.state.gain = lower.id
                 /\ best.state.nsq = best.stream.version

(* Of a frame that was written several times one version remains: the range*)
(* coder, the quantiser, the gains and what is kept for later are of one   *)
(* attempt.  It fits, or is the frame without pulses, the last resort.     *)
OneVersionRemains ==
  RateTypeOK /\ OfOneVersion /\ FitsOrIsStill /\ StillRepeats /\ GivesUpLast /\ KeepsTheLower
=============================================================================
