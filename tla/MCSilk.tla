------------------------------- MODULE MCSilk -------------------------------
(***************************************************************************)
(* SILK: packets between two ends (SilkLink), the gains in them (SilkGains)*)
(* and the loop that makes a frame fit (SilkRateLoop).  `part' says which  *)
(* of them a behaviour is about; the variables of the others stay as they  *)
(* are.                                                                    *)
(***************************************************************************)
EXTENDS SilkLink, SilkGains, SilkRateLoop

VARIABLE part                 \* "link", "gains" or "rate"

(* One channel with copies, losses and changes of duration and rate; with  *)
(* copies in packets of three frames; two channels without copies, one     *)
(* frame to a packet.                                                      *)
MCSetups ==
  [mono   |-> [chans |-> {1}, ms |-> {20, 40}, fs |-> {8, 16}, fec |-> TRUE],
   long   |-> [chans |-> {1}, ms |-> {60}, fs |-> {12}, fec |-> TRUE],
   stereo |-> [chans |-> {2}, ms |-> {10, 20}, fs |-> {8, 16}, fec |-> FALSE]]

(* Logarithms of gains over all the scale, for 64 levels; the ones below   *)
(* -1 (down to -72) give the level of -1.  The steps between two of them   *)
(* are small, of both limits, and beyond them.                             *)
SomeRaw == {-1, 0, 1, 2, 5, 9, 16, 27, 31, 36, 37, 45, 58, 62, 63, 64}

(* The ends of lbrr_gain_increases: 7, or down to 3 when many packets are  *)
(* lost.                                                                   *)
FewRaised == {3, 7}

(* Of the 20 bits a version may have, with a margin of 5: far too few, too *)
(* few by one, just enough of the margin, all of the room, one too many,   *)
(* and far too many.                                                       *)
SomeBits == {6, 14, 15, 20, 21, 40}

NoLink == setup = "none" /\ Start
NoRate == RateInit /\ cbr = FALSE /\ gains_id = 1

MCInit ==
  \/ part = "link" /\ Init /\ GainsInit /\ NoRate
  \/ part = "gains" /\ NoLink /\ GainsInit /\ NoRate
  \/ part = "rate" /\ NoLink /\ GainsInit /\ RateInit

MCNext ==
  \/ part = "link" /\ Next /\ UNCHANGED <<part, gainVars, rateVars>>
  \/ part = "gains" /\ GainsNext /\ UNCHANGED <<part, vars, rateVars>>
  \/ part = "rate" /\ RateNext /\ UNCHANGED <<part, vars, gainVars>>

MCSpec == MCInit /\ [][MCNext]_<<part, vars, gainVars, rateVars>>
=============================================================================
