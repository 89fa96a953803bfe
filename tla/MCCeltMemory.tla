---------------------------- MODULE MCCeltMemory ----------------------------
(***************************************************************************)
(* What CELT remembers from frame to frame and from band to band: the      *)
(* reservoir of the variable rate (CeltRate), the energies (CeltHistory),  *)
(* the pitch filter (CeltPitchFilter), the masks and copies of the bands   *)
(* (BandFolding).  `part' says which of them a behaviour is about; the     *)
(* variables of the others stay as they are.                               *)
(***************************************************************************)
EXTENDS CeltRate, CeltHistory, CeltPitchFilter, BandFolding

VARIABLE part                 \* "rate", "history", "filter" or "folding"

(* Rates that are multiples of a byte and not; targets below nothing and   *)
(* above every buffer.                                                     *)
SomeRates == {192, 264, 448}
SomeBuffers == {2, 3, 20}
SomeTargets == {-100, 90, 350, 2000}

(* All bands, and the upper or the lower ones.                             *)
ManyRanges == {<<0, 2>>, <<1, 2>>, <<0, 1>>}

(* The shortest and the longest pitch that the search can find.            *)
SomePitches == {15, 1024}

(* Bands as they are in the code, narrow ones first, but fewer.            *)
SomeBands == <<0, 1, 2, 3, 5, 8, 12>>
Six == {<<0, 6>>}

NoFolding == FoldingInit /\ frame = CHOOSE f \in FramesAt : Admitted(f)
NoRate == Init /\ vbr_rate = MaxRate

MCInit ==
  \/ part = "rate" /\ Init /\ HistoryInit /\ FilterInit /\ NoFolding
  \/ part = "history" /\ NoRate /\ HistoryInit /\ FilterInit /\ NoFolding
  \/ part = "filter" /\ NoRate /\ HistoryInit /\ FilterInit /\ NoFolding
  \/ part = "folding" /\ NoRate /\ HistoryInit /\ FilterInit /\ FoldingInit

MCNext ==
  \/ part = "rate" /\ Next /\ UNCHANGED <<part, historyVars, filterVars, foldingVars>>
  \/ part = "history" /\ HistoryNext /\ UNCHANGED <<part, vars, filterVars, foldingVars>>
  \/ part = "filter" /\ FilterNext /\ UNCHANGED <<part, vars, historyVars, foldingVars>>
  \/ part = "folding" /\ FoldingNext /\ UNCHANGED <<part, vars, historyVars, filterVars>>

MCSpec == MCInit /\ [][MCNext]_<<part, vars, historyVars, filterVars, foldingVars>>
=============================================================================
