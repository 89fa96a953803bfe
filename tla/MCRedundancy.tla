----------------------------- MODULE MCRedundancy -----------------------------
(***************************************************************************)
(* What looks at sound ahead of the packet it belongs to, or behind it:    *)
(* the encoder's analysis (SignalAnalysis), its deep redundancy            *)
(* (DredEncoder), and the concealment that is fed from it                  *)
(* (NeuralConcealment).  They share no state; `part' says which of them a  *)
(* behaviour is about, and the others' variables stay as they are.         *)
(***************************************************************************)
EXTENDS SignalAnalysis, DredEncoder, NeuralConcealment

VARIABLE part                 \* "analysis", "dred" or "conceal"

(* 40 ms in 20, 80 in 40, 120 in 60 and in 20.                             *)
SomeSeveral == {<<16, 8>>, <<32, 16>>, <<48, 24>>, <<48, 8>>}

(* Every position of the features relative to 10 ms.                       *)
SomeOffsets == {-3, 0, 2, 3}

NoDredding == DredInit /\ delay = 64
NoConcealing == ConcealInit /\ ~always

MCInit ==
  \/ part = "analysis" /\ AnalysisInit /\ NoDredding /\ NoConcealing
  \/ part = "dred" /\ AnalysisInit /\ DredInit /\ NoConcealing
  \/ part = "conceal" /\ AnalysisInit /\ NoDredding /\ ConcealInit

MCNext ==
  \/ part = "analysis" /\ AnalysisNext /\ UNCHANGED <<part, dredVars, concealVars>>
  \/ part = "dred" /\ DredNext /\ UNCHANGED <<part, analysisVars, concealVars>>
  \/ part = "conceal" /\ ConcealNext /\ UNCHANGED <<part, analysisVars, dredVars>>

MCSpec == MCInit /\ [][MCNext]_<<part, analysisVars, dredVars, concealVars>>
=============================================================================
