---------------------------- MODULE RateContract ----------------------------
(***************************************************************************)
(* What a constrained variable bit rate promises to a channel with a       *)
(* buffer of Room eighths of a bit: the frames may be larger than the rate *)
(* gives them, but what they are too large together never exceeds Room.    *)
(***************************************************************************)
EXTENDS Integers

CONSTANTS
  Rates,                      \* numbers
  Room                        \* a number

VARIABLES
  sent,                       \* the last frame: its rate and its bytes
  level,                      \* what the channel's buffer holds at most
  excess                      \* the most by which any run of frames up to
                              \* now is larger than its rate

vars == <<sent, level, excess>>

AtLeastZero(x) == IF x > 0 THEN x ELSE 0

Frames == [rate : Rates, bytes : Nat]
Charge(f) == 64 * f.bytes - f.rate

Init == sent \in Frames /\ level = 0 /\ excess = 0

(* A frame of any size that the level still allows.                        *)
Send ==
  /\ sent' \in Frames
  /\ level' \in 0..Room
  /\ level' >= level + Charge(sent')
  /\ excess' = AtLeastZero(excess + Charge(sent'))

(* Whoever lifts the constraint begins to count anew.                      *)
Restart ==
  /\ sent' \in Frames
  /\ level' \in {0, level}
  /\ excess' = 0

Next == Send \/ Restart
Spec == Init /\ [][Next]_vars

(* No run of frames is larger than its rate by more than the room.         *)
KeepsToTheRate == excess <= level /\ level <= Room
=============================================================================
