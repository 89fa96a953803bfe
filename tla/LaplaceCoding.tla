----------------------------- MODULE LaplaceCoding -----------------------------
(***************************************************************************)
(* Differences of band energies are sent with a Laplace distribution: zero *)
(* has `start` of the 2^15 places, every further magnitude a share that    *)
(* decays, the negative value before the positive one, and where nothing   *)
(* is left of the share each value has one place.  The encoder computes a  *)
(* value's place, and changes a value for which there is no place; the     *)
(* decoder searches for the value.  The latents of deep redundancy are     *)
(* sent with a sign and a magnitude in digits of base seven.               *)
(***************************************************************************)
EXTENDS Integers, Sequences, SequencesExt

CONSTANTS
  Models,           \* <<start, decay>> in use
  Decays, Zeros,    \* of the other distribution, before << 7
  MaxMagnitude      \* to which values of it are tried

LaplaceAssumption ==
  /\ \A d \in Models : d[1] \in 1 .. 32767 /\ d[2] \in 0 .. 16383
  /\ Decays \subseteq 1 .. 255 /\ Zeros \subseteq 1 .. 254
  /\ MaxMagnitude \in Nat \ {0}

VARIABLES
  start, decay,     \* the distribution
  at                \* the place that is looked at, or the value

vars == <<start, decay, at>>

Whole == 32768
Least(a, b) == IF a < b THEN a ELSE b
Most(a, b) == IF a < b THEN b ELSE a

Freq1(fs, d) == ((Whole - 32 - fs) * (16384 - d)) \div Whole

Signed(v, neg) == IF neg THEN -v ELSE v

-----------------------------------------------------------------------------
(* ec_laplace_encode: the magnitude it arrives at, and its places.         *)
RECURSIVE Climb(_, _, _, _, _)
Climb(fl, fs, i, v, d) ==
  IF fs > 0 /\ i < v THEN Climb(fl + 2 * fs + 2, (2 * fs * d) \div Whole, i + 1, v, d)
  ELSE [fl |-> fl, fs |-> fs, i |-> i]

LastStep(fl, neg) == (Whole - fl + (IF neg THEN 1 ELSE 0)) \div 2

InTail(v, neg, c) ==
  LET di == Least(v - c.i, LastStep(c.fl, neg) - 1)
      fl == c.fl + 2 * di + (IF neg THEN 0 ELSE 1)
  IN [value |-> Signed(c.i + di, neg), fl |-> fl, fs |-> Least(1, Whole - fl)]

Encode(value, fs, d) ==
  LET neg == value < 0
      v == Signed(value, neg)
      c == Climb(fs, Freq1(fs, d), 1, v, d)
  IN IF v = 0 THEN [value |-> 0, fl |-> 0, fs |-> fs]
     ELSE IF c.fs = 0 THEN InTail(v, neg, c)
     ELSE [value |-> value, fl |-> c.fl + (IF neg THEN 0 ELSE c.fs + 1), fs |-> c.fs + 1]

-----------------------------------------------------------------------------
(* ec_laplace_decode.                                                      *)
RECURSIVE Search(_, _, _, _, _)
Search(fl, fs, v, fm, d) ==
  IF fs > 1 /\ fm >= fl + 2 * fs
    THEN Search(fl + 2 * fs, ((2 * fs - 2) * d) \div Whole + 1, v + 1, fm, d)
  ELSE [fl |-> fl, fs |-> fs, v |-> v]

\* Mutant: the share does not count the place each value has in any case.
DecodeShort(fm, fs, d) ==
  LET c == Search(fs, Freq1(fs, d), 1, fm, d)
      di == IF c.fs <= 1 THEN (fm - c.fl) \div 2 ELSE 0
      fl == c.fl + 2 * di
      v == c.v + di
  IN IF fm < fs THEN [value |-> 0, fl |-> 0, fs |-> fs]
     ELSE IF fm < fl + c.fs THEN [value |-> -v, fl |-> fl, fs |-> c.fs]
     ELSE [value |-> v, fl |-> fl + c.fs, fs |-> Least(c.fs, Whole - fl - c.fs)]

Decode(fm, fs, d) ==
  LET c == Search(fs, Freq1(fs, d) + 1, 1, fm, d)
      di == IF c.fs <= 1 THEN (fm - c.fl) \div 2 ELSE 0
      fl == c.fl + 2 * di
      v == c.v + di
  IN IF fm < fs THEN [value |-> 0, fl |-> 0, fs |-> fs]
     ELSE IF fm < fl + c.fs THEN [value |-> -v, fl |-> fl, fs |-> c.fs]
     ELSE [value |-> v, fl |-> fl + c.fs, fs |-> Least(c.fs, Whole - fl - c.fs)]

-----------------------------------------------------------------------------
(* The other distribution: what is left of 2^15 after each symbol.         *)
SignLeft(p0) == LET rest == Whole - p0 IN <<rest, rest \div 2, 0>>

DigitsLeft(d) ==
  LET left[i \in 1 .. 7] ==
        IF i = 1 THEN Most(7, d) ELSE Most(8 - i, (left[i - 1] * d) \div Whole)
  IN [i \in 1 .. 8 |-> IF i = 8 THEN 0 ELSE left[i]]
(* The digits of a magnitude: sevens, and one that is less.                *)

Digits(v) ==
  LET r == v - 1 IN [i \in 1 .. r \div 7 + 1 |-> Least(7, r - 7 * (i - 1))]

(* The decoder adds digits up to the first that is no seven; <<value, how  *)
(* many it took>>.                                                         *)
RECURSIVE Summed(_, _, _)
Summed(digits, i, v) ==
  IF i > Len(digits) THEN <<v, i>>
  ELSE IF digits[i] = 7 THEN Summed(digits, i + 1, v + 7) ELSE <<v + digits[i], i>>

-----------------------------------------------------------------------------
Init ==
  /\ \E d \in Models : start = d[1] /\ decay = d[2]
  /\ at = 0

(* Behind the places of a value are those of another.                      *)
NextValue ==
  /\ \E q \in {Decode(at, start, decay)} : q.fl + q.fs < Whole /\ at' = q.fl + q.fs
  /\ UNCHANGED <<start, decay>>

Spec == Init /\ [][NextValue]_vars

LatentInit ==
  /\ \E p0 \in Zeros, r \in Decays : start = 128 * p0 /\ decay = 128 * r
  /\ at = 1

Larger == at < MaxMagnitude /\ at' = at + 1 /\ UNCHANGED <<start, decay>>

LatentSpec == LatentInit /\ [][Larger]_vars

-----------------------------------------------------------------------------
(* A value has the places the encoder gives it, begins where the one       *)
(* before ends, and the decoder finds it in the first and in the last of   *)
(* them.                                                                   *)
EveryPlaceHasAValue ==
  \E q \in {Decode(at, start, decay)} :
    /\ q.fl = at /\ q.fs > 0 /\ q.fl + q.fs <= Whole
    /\ Encode(q.value, start, decay) = q
    /\ Decode(at + q.fs - 1, start, decay) = q

(* A value beyond the last is sent as the last of its sign, and the        *)
(* encoder is told: it goes on from the value the decoder has.             *)
ToldWhatIsSent ==
  \E q \in {Decode(at, start, decay)} :
    q.fl + q.fs = Whole =>
      \A v \in {q.value - 1, q.value, q.value + 1, q.value + 1000, -q.value - 1, -q.value - 1000} :
        \E sent \in {Encode(v, start, decay)} :
          /\ sent.fl >= 0 /\ sent.fs > 0 /\ sent.fl + sent.fs <= Whole
          /\ Decode(sent.fl, start, decay) = sent
          /\ v > q.value => sent.value = q.value
          /\ v < -q.value => sent.value \in {-q.value, 1 - q.value}

(* A magnitude is read back from its digits, all of them.                  *)
DigitsAreRead ==
  Summed(Digits(at), 1, 1) = <<at, Len(Digits(at))>>

(* Every sign and every digit has a place of its own.                      *)
EverySymbolHasPlace ==
  \A left \in {SignLeft(start), DigitsLeft(decay)} :
    /\ left[1] < Whole
    /\ \A i \in 2 .. Len(left) : left[i] < left[i - 1]
=============================================================================
