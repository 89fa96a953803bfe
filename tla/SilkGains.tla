------------------------------ MODULE SilkGains ------------------------------
(***************************************************************************)
(* The gains of SILK.  A gain is a level on a logarithmic scale; the first *)
(* of a packet is sent as it is, the others as steps from the one before,  *)
(* and both ends remember the last.  A step up that could leave the scale  *)
(* counts double, so that its top is reached with few symbols.  The ends   *)
(* come apart where a packet is lost, or replaced by a coarser copy that   *)
(* came with the one after it, and have to find each other again: a sent   *)
(* level is not taken as it is, the decoder falls by no more than Slack.   *)
(*                                                                         *)
(* One step of the model is a subframe of 5 ms.                            *)
(***************************************************************************)
EXTENDS Integers

CONSTANTS
  Levels,                     \* N_LEVELS_QGAIN
  Down, Up,                   \* the largest steps, MIN_ and MAX_DELTA_GAIN_QUANT
  Slack,                      \* how far the decoder falls at a sent level
  Fresh,                      \* last_gain_index of a new channel and after a loss
  Raised,                     \* lbrr_gain_increases that occur
  Raw                         \* what the logarithm of a gain may come to

ASSUME GainsAssumption ==
  /\ Levels \in Nat /\ Down \in Nat /\ Up \in Nat /\ Slack \in Nat /\ Fresh \in Nat
  /\ Levels > Up /\ Up > Down /\ Slack > Down /\ Slack >= Fresh /\ Fresh < Levels
  /\ 2 * Up > Levels + Down
  /\ Raised \subseteq Nat /\ Raw \subseteq Int

VARIABLES
  encGain,                        \* last_gain_index of the encoder
  decGain,                        \* that of the decoder
  way,                        \* what became of the packet: received, lost, copied
  first                       \* the last subframe began a packet

gainVars == <<encGain, decGain, way, first>>

Ways == {"received", "lost", "copied"}

Least(a, b) == IF a < b THEN a ELSE b
Most(a, b) == IF a > b THEN a ELSE b
Limit(a, low, high) == Most(low, Least(a, high))

(* The level of a gain, with some hysteresis towards the last.             *)
Level(raw, prev) == Limit(IF raw < prev THEN raw + 1 ELSE raw, 0, Levels - 1)

(* From here on a step counts double.                                      *)
Threshold(prev) == 2 * Up - Levels + prev

Step(d, prev) ==
  IF d > Threshold(prev) THEN prev + 2 * d - Threshold(prev) ELSE prev + d

(***************************************************************************)
(* The encoder: what is sent for a gain, and what it remembers then.       *)
(***************************************************************************)
SentLevel(raw, prev) == Most(Level(raw, prev), prev - Down)

SentStep(raw, prev) ==
  LET d == Level(raw, prev) - prev
      t == Threshold(prev)
  IN Limit(IF d > t THEN t + (d - t + 1) \div 2 ELSE d, -Down, Up)

AfterStep(d, prev) ==
  IF d > Threshold(prev) THEN Least(Step(d, prev), Levels - 1) ELSE Step(d, prev)
(***************************************************************************)
(* The decoder.                                                            *)
(***************************************************************************)

TakenLevel(ind, prev) == Limit(Most(prev - Slack, ind), 0, Levels - 1)

\* Mutant: no step counts double.
TakenStepPlain(d, prev) == Limit(prev + d, 0, Levels - 1)

TakenStep(d, prev) == Limit(Step(d, prev), 0, Levels - 1)

\* Mutant: a loss changes nothing.
AfterLossKept(prev) == prev

(* After a concealment the decoder is ready for any level.                 *)
AfterLoss(prev) == Fresh

(***************************************************************************)
(* The subframes.                                                          *)
(***************************************************************************)
(* The first of a packet.                                                  *)
SendLevel(raw, w) ==
  LET ind == SentLevel(raw, encGain)
  IN /\ encGain' = ind
     /\ way' = w /\ first' = TRUE
     /\ \/ w = "received" /\ decGain' = TakenLevel(ind, decGain)
        \/ w = "lost" /\ decGain' = AfterLoss(decGain)
        \/ w = "copied" /\ \E more \in Raised : decGain' = TakenLevel(Least(ind + more, Levels - 1), decGain)
        \/ w = "copied" /\ UNCHANGED decGain

(* One of the others.  A copy that begins behind the first frame of its    *)
(* packet holds a step, raised as if it were a level, and is read as one.  *)
SendStep(raw) ==
  LET d == SentStep(raw, encGain)
  IN /\ encGain' = AfterStep(d, encGain)
     /\ first' = FALSE /\ UNCHANGED way
     /\ \/ way = "received" /\ decGain' = TakenStep(d, decGain)
        \/ way = "lost" /\ decGain' = AfterLoss(decGain)
        \/ way = "copied" /\ \/ decGain' = TakenStep(d, decGain)
                             \/ UNCHANGED decGain
                             \/ \E more \in Raised :
                                  decGain' = TakenLevel(Least(d + Down + more, Levels - 1), decGain)

(* Both ends begin anew with another sampling rate.                        *)
Restart ==
  /\ encGain' = Fresh /\ decGain' = Fresh
  /\ way' = "received" /\ first' = FALSE

Received == \E raw \in Raw : SendLevel(raw, "received")

GainsInit == encGain = Fresh /\ decGain = Fresh /\ way = "received" /\ first = FALSE

GainsNext ==
  \/ \E raw \in Raw, w \in Ways : SendLevel(raw, w)
  \/ \E raw \in Raw : SendStep(raw)
  \/ Restart

(* While the encoder is used there is a next packet: a frame has two or    *)
(* four subframes, a packet three frames at most.                          *)
GainsSpec == GainsInit /\ [][GainsNext]_gainVars /\ WF_gainVars(\E raw \in Raw, w \in Ways : SendLevel(raw, w))

(***************************************************************************)
(* Properties.                                                             *)
(***************************************************************************)
GainsTypeOK == /\ encGain \in 0..(Levels - 1) /\ decGain \in 0..(Levels - 1)
          /\ way \in Ways /\ first \in BOOLEAN

Gap(a, b) == Most(a - b, b - a)

(* Ends that agree go on to agree, and ends that do not come no further    *)
(* apart, over every subframe that is received.                            *)
NeverFurtherApart ==
  [][way' = "received" => Gap(encGain', decGain') <= Gap(encGain, decGain)]_gainVars

(* The first packet that is received after a concealed one puts both ends  *)
(* together: the gains after a loss are those that were meant.             *)
TogetherAfterLoss ==
  [][way = "lost" /\ way' = "received" => encGain' = decGain']_gainVars

(* Each packet received brings the ends closer by what the decoder may     *)
(* fall more than the encoder.                                             *)
CloserByEveryPacket ==
  [][first' /\ way' = "received" =>
       Gap(encGain', decGain') <= Most(0, Gap(encGain, decGain) - (Slack - Down))]_gainVars

=============================================================================
