---------------------------- MODULE CeltPitchFilter ----------------------------
(***************************************************************************)
(* The pitch filter of CELT.  The encoder takes the pitch out of its input *)
(* with a comb filter and sends its parameters, the decoder puts it back.  *)
(* Both pass from one filter to the next over 2.5 ms, but not in the same  *)
(* place of a frame: what the decoder plays lags by an overlap of 2.5 ms,  *)
(* so it plays the last unit of a frame with the frame after it.  For a    *)
(* frame of a single unit it therefore needs the filters of three frames.  *)
(* After a concealment that repeats the pitch, the memory that the next    *)
(* frame overlaps is filtered first, as if the encoder had done it.        *)
(*                                                                         *)
(* Time is counted in units of 2.5 ms.  A filter is applied from one set   *)
(* of parameters to another: a pair.                                       *)
(***************************************************************************)
EXTENDS Integers

CONSTANTS
  History,                    \* COMBFILTER_MAXPERIOD
  MinPeriod,                  \* COMBFILTER_MINPERIOD
  Found,                      \* pitches the search may come to
  Tapsets,
  Sizes                       \* units of a frame

Octaves == 6
TwoTo == [k \in 0..7 |-> <<1, 2, 4, 8, 16, 32, 64, 128>>[k + 1]]
Largest == (MinPeriod + 1) * TwoTo[Octaves]

ASSUME FilterAssumption ==
  /\ MinPeriod \in Nat /\ MinPeriod > 2 /\ History \in Nat /\ History > MinPeriod + 2
  /\ History <= Largest
  /\ Found \subseteq Nat /\ \A p \in Found : p >= MinPeriod
  /\ Sizes \subseteq Nat \ {0}

VARIABLES
  pre,                        \* the encoder's filter: prefilter_period, _gain, _tapset
  laid,                       \* the pair of the last unit of its last frame
  old, cur,                   \* postfilter_*_old and postfilter_* of the decoder
  fold,                       \* prefilter_and_fold
  tail,                       \* the pair the decoder's overlap memory was filtered with
  restart,                    \* the encoder began anew, the decoder has not heard of it
  run,                        \* frames played since the last concealment, a longer one
                              \* counted twice, up to Enough
  heard                       \* of the last frame played: run and fold before it, the
                              \* pair of the memory, and those of its units

filterVars == <<pre, laid, old, cur, fold, tail, restart, run, heard>>

Off == [period |-> 0, tapset |-> 0, on |-> FALSE]
Still == <<Off, Off>>
Enough == 2
Nothing == [since |-> 0, folded |-> FALSE, memory |-> Still, was |-> <<>>, undone |-> <<>>]

(* With a gain of zero neither period nor tapset make a difference.        *)
Filter(f) == IF f.on THEN f ELSE Off
Pair(a, b) == <<Filter(a), Filter(b)>>

Shorter(a, b) == IF a < b THEN a ELSE b

(***************************************************************************)
(* The wire: an octave, and the place in it.                               *)
(***************************************************************************)
Base == MinPeriod + 1

Octave(p) == CHOOSE k \in 0..6 : p + 1 >= Base * TwoTo[k] /\ p + 1 < Base * TwoTo[k + 1]

Sent(f) ==
  IF f.on THEN [on |-> TRUE, octave |-> Octave(f.period),
                low |-> f.period + 1 - Base * TwoTo[Octave(f.period)], tapset |-> f.tapset]
  ELSE [on |-> FALSE]

Got(w) ==
  IF w.on THEN [period |-> Base * TwoTo[w.octave] + w.low - 1, tapset |-> w.tapset, on |-> TRUE]
  ELSE Off
(***************************************************************************)
(* The encoder (run_prefilter).                                            *)
(***************************************************************************)

Period(p) == Shorter(p, History - 2)

(* What the search and the decision to use it may come to.  A frame behind *)
(* SILK's bands, a silent one or one of a few bytes has no filter.         *)
Choices(kind, tapset) ==
  {[period |-> MinPeriod, tapset |-> tapset, on |-> FALSE]}
  \cup IF kind = "plain" THEN {[period |-> Period(p), tapset |-> tapset, on |-> on] : p \in Found, on \in BOOLEAN}
       ELSE {}

(* The pairs of a frame of n units that begins with filter from.           *)
Units(from, to, n) == [i \in 1..n |-> IF i = 1 THEN Pair(from, to) ELSE Pair(to, to)]

(***************************************************************************)
(* The decoder.                                                            *)
(***************************************************************************)
(* The pairs of a frame: the first unit is still that of the frame before. *)
Played(to, n) ==
  [i \in 1..n |-> CASE i = 1 -> Pair(old, cur)
                    [] i = 2 -> Pair(cur, to)
                    [] OTHER -> Pair(to, to)]

\* Mutant: the frame before is forgotten after a short frame too.
OldAfterAlways(to, n) == to

(* After a longer frame nothing is left of the filter before it.           *)
OldAfter(to, n) == IF n > 1 THEN to ELSE cur

(* The memory the new frame overlaps: after a repeated pitch it is sound   *)
(* that was played, and is filtered with the last filter.                  *)
Memory == IF fold THEN Pair(cur, cur) ELSE tail

(***************************************************************************)
(* Frames.                                                                 *)
(***************************************************************************)
(* The encoder's units as the decoder gets them: a unit late.              *)
Late(units) == [i \in DOMAIN units |-> IF i = 1 THEN laid ELSE units[i - 1]]

Receive(f, n) ==
  LET units == Units(pre, f, n)
      w == Got(Sent(f))
  IN /\ ~restart
     /\ pre' = f /\ laid' = units[n]
     /\ heard' = [since |-> run, folded |-> fold, memory |-> Memory,
                  was |-> Late(units), undone |-> Played(w, n)]
     /\ old' = OldAfter(w, n) /\ cur' = w
     /\ fold' = FALSE /\ tail' = units[n]
     /\ run' = Shorter(Enough, run + IF n > 1 THEN 2 ELSE 1)
     /\ UNCHANGED restart

(* A frame is lost: the decoder repeats the pitch or plays noise.          *)
Lose(f, n) ==
  /\ ~restart
  /\ pre' = f /\ laid' = Units(pre, f, n)[n]
  /\ \/ fold' = TRUE
     \/ fold' = FALSE
  /\ tail' = Still /\ run' = 0 /\ heard' = Nothing
  /\ UNCHANGED <<old, cur, restart>>

(* A frame of two bytes.                                                   *)
PrefillKind == "tiny"

(* The encoder begins anew, when it was not used for a while, and may be   *)
(* given the 2.5 ms before as a frame that is not sent.                    *)
Restart ==
  /\ restart' = TRUE
  /\ \/ pre' = Off /\ laid' = Still
     \/ \E tapset \in Tapsets : \E f \in Choices(PrefillKind, tapset) : pre' = f /\ laid' = Pair(Off, f)
  /\ UNCHANGED <<old, cur, fold, tail, run, heard>>

(* The decoder does with the first frame of it that it receives.  The      *)
(* frames before went to SILK, whose loss is SILK's.                       *)
Restarted ==
  /\ restart /\ restart' = FALSE
  /\ old' = Off /\ cur' = Off /\ fold' = FALSE /\ tail' = Still
  /\ run' = Enough /\ heard' = Nothing
  /\ UNCHANGED <<pre, laid>>

Filtered == UNION {Choices(kind, tapset) : kind \in {"plain", "other"}, tapset \in Tapsets}

Received == \E f \in Filtered, n \in Sizes : Receive(f, n)
Lost == \E f \in Filtered, n \in Sizes : Lose(f, n)

FilterInit ==
  /\ pre = Off /\ laid = Still /\ old = Off /\ cur = Off /\ fold = FALSE
  /\ tail = Still /\ restart = FALSE /\ run = Enough /\ heard = Nothing

FilterNext == Received \/ Lost \/ Restart \/ Restarted

FilterSpec == FilterInit /\ [][FilterNext]_filterVars

(***************************************************************************)
(* Properties.                                                             *)
(***************************************************************************)
Filters == [period : 0..(History - 2), tapset : Tapsets \cup {0}, on : BOOLEAN]

FilterTypeOK ==
  /\ {pre, old, cur} \subseteq Filters
  /\ {laid, tail} \subseteq Filters \X Filters
  /\ fold \in BOOLEAN /\ restart \in BOOLEAN /\ run \in 0..Enough
  /\ DOMAIN heard.was = DOMAIN heard.undone

(* Every unit is played with the filter that it was encoded with, through  *)
(* all changes of filters and frame sizes.                                 *)
MirrorsTheEncoder ==
  heard.since = Enough => heard.was = heard.undone

(* After a loss the filters come together within two units: from the first *)
(* frame received all but the one it shares with the frame that is missing.*)
MendsAfterLoss ==
  \A i \in DOMAIN heard.was :
    /\ i > 2 - heard.since => heard.was[i] = heard.undone[i]
    /\ i = 2 - heard.since => heard.was[i][2] = heard.undone[i][2]

(* What concealment leaves for the next frame to overlap is filtered with  *)
(* the filter that the next frame then takes out of it.                    *)
FoldIsUndone ==
  heard.folded => heard.memory[2] = heard.undone[1][2]

(* A filter reaches no further back than either end remembers, and the     *)
(* period has a place on the wire.                                         *)
PeriodFits ==
  pre.on => /\ pre.period + 2 <= History
            /\ Octave(pre.period) < Octaves
            /\ Got(Sent(pre)) = pre

(* What the encoder's filter takes out the decoder's puts back: the same   *)
(* filters in the same place, after a loss as soon as can be, and on sound *)
(* that was concealed as well.                                             *)
FiltersAgree ==
  /\ FilterTypeOK
  /\ MirrorsTheEncoder
  /\ MendsAfterLoss
  /\ FoldIsUndone
  /\ PeriodFits
=============================================================================
