--------------------------- MODULE NeuralConcealment ---------------------------
(***************************************************************************)
(* How CELT fills a gap from the redundancy of the packet behind it.  The  *)
(* caller parses that packet, says for each lost frame how far before the  *)
(* packet it begins, and the decoder hands the features of that time to    *)
(* the neural concealment.  That one works in blocks of 10 ms at 16 kHz,   *)
(* ahead of what is played, and takes two features for history when it     *)
(* begins; frames have other lengths, and a gap may begin without          *)
(* redundancy.                                                             *)
(*                                                                         *)
(* Sound is not here: of a block it is known which time it describes.      *)
(* Units are 2.5 ms, or 40 samples at 16 kHz.                              *)
(***************************************************************************)
EXTENDS Integers, Sequences, SequencesExt

CONSTANTS
  Sizes,                      \* of frames, in units
  Gaps,                       \* how far ahead the packet with redundancy may be
  Offsets,                    \* dred_offset
  Counts                      \* nb_latents

ASSUME ConcealmentAssumption ==
  /\ Sizes \subseteq {1, 2, 4, 8} /\ Gaps \subseteq Nat \ {0}
  /\ Offsets \subseteq Int /\ Counts \subseteq Nat

Block == 160                  \* PLC_FRAME_SIZE
Ahead == 56                   \* (SINC_ORDER + overlap) / 3
Worn == 80                    \* losses after which there is noise only

VARIABLES
  always,                     \* complexity >= 5: without features too
  loss, skip,                 \* loss_duration, skip_plc
  blend,                      \* of LpcNetPlcState: 1 while its last block was concealment
  queue,                      \* fec: the times that its features describe, unread; fec_skip
  filled,                     \* fec_fill_pos > 0
  blocks,                     \* plc_pcm: where in the next frame each begins, and what it is of
  dred,                       \* the packet behind the gap
  gap,                        \* of this gap: was it filled by the network from its beginning
  played                      \* of the last frame

concealVars == <<always, loss, skip, blend, queue, filled, blocks, dred, gap, played>>

NoDred == [left |-> 0]
NoGap == [whole |-> TRUE, misled |-> FALSE, guessed |-> 0]
Nothing == [times |-> <<>>, skip |-> 0]

(* plc_fill.                                                               *)
Fill(bs) == IF bs = <<>> THEN 0 ELSE Last(bs).at + Block
Shortest(a, b) == IF a < b THEN a ELSE b
Longest(a, b) == IF a < b THEN b ELSE a

-----------------------------------------------------------------------------
(* inject_dred_fec_features: feature number j describes 10 ms that end     *)
(* 10 j ms before the time the packet states.                              *)

Asked(u) ==
  LET history == IF blend = 0 THEN 2 ELSE 0
      base == (dred.left + dred.offset) \div 4
  IN [i \in 1 .. history + Longest(1, u \div 4) |-> history - i - 1 + base]

There(j) == j \in 0 .. 4 * dred.count - 1
TimeOf(j) == dred.left + dred.offset - 1 - 4 * (j + 1)

Injected(u) ==
  [times |-> LET there == SelectSeq(Asked(u), There) IN [i \in DOMAIN there |-> TimeOf(there[i])],
   skip |-> Len(SelectSeq(Asked(u), LAMBDA j : j > 4 * dred.count - 1))]

-----------------------------------------------------------------------------
(* get_fec_or_pred.                                                        *)
Reads(q) == q.times # <<>> /\ q.skip = 0
After(q) == IF Reads(q) THEN [q EXCEPT !.times = Tail(@)]
                        ELSE [q EXCEPT !.skip = Longest(0, @ - 1)]

\* Mutant: no features are taken for history.
SettledAtOnce(st) == st.queue

Settled(st) == IF st.blend = 0 THEN After(After(st.queue)) ELSE st.queue

(* lpcnet_plc_conceal.                                                     *)
Concealed(st, i) ==
  LET q == Settled(st)
      at == Fill(st.blocks)
      off == IF Reads(q) THEN 40 * Head(q.times) - at ELSE 0
  IN [blend |-> 1, queue |-> After(q),
      blocks |-> Append(st.blocks, [at |-> at, known |-> Reads(q), off |-> off, old |-> FALSE])]

(* celt_decode_lost's loop: as much as the frame and its overlap need.     *)
BlocksFor(bs, u) == (Longest(0, 40 * u + Ahead - Fill(bs)) + Block - 1) \div Block

Network(q, u) ==
  LET bs == IF loss = 0 THEN <<>> ELSE blocks
  IN FoldLeft(Concealed, [blend |-> IF loss = 0 THEN 0 ELSE blend, queue |-> q, blocks |-> bs],
              [i \in 1 .. BlocksFor(bs, u) |-> i])
(* plc_pcm is moved up by the frame.                                       *)

Moved(bs, u) ==
  LET left == SelectSeq(bs, LAMBDA b : b.at + Block > 40 * u)
  IN [i \in DOMAIN left |-> [left[i] EXCEPT !.at = @ - 40 * u]]

Aged(bs) == [i \in DOMAIN bs |-> [bs[i] EXCEPT !.old = TRUE]]
Later(q, u) == [q EXCEPT !.times = [i \in DOMAIN @ |-> @[i] - u]]

(* celt_decode_lost with the features q.                                   *)
Noisy(some) == ~some /\ (skip \/ loss >= Worn)

Lose(q, some, u, covered) ==
  /\ queue' = Later(IF Noisy(some) \/ ~(always \/ some) THEN q ELSE Network(q, u).queue, u)
  /\ filled' = some
  /\ loss' = Shortest(Worn, loss + u)
  /\ dred' = IF dred.left > u THEN [dred EXCEPT !.left = @ - u] ELSE NoDred
  /\ IF Noisy(some)
     THEN /\ skip' = TRUE
          /\ blocks' = Aged(blocks) /\ played' = <<>>
          /\ gap' = [gap EXCEPT !.whole = FALSE]
          /\ UNCHANGED blend
     ELSE /\ UNCHANGED skip
          /\ IF always \/ some
             THEN \E st \in {Network(q, u)} :
                    /\ blend' = st.blend
                    /\ blocks' = Moved(st.blocks, u)
                    /\ played' = SelectSeq(st.blocks, LAMBDA b : b.at < 40 * u)
                    /\ LET from == IF loss = 0 THEN 0 ELSE Len(blocks)
                           new == SubSeq(st.blocks, from + 1, Len(st.blocks))
                       IN gap' = [gap EXCEPT
                                    !.misled = @ \/ (loss = 0 /\ some /\ blend # 0),
                                    !.guessed = Shortest(3, @ + IF covered
                                      THEN Len(SelectSeq(new, LAMBDA b : ~b.known)) ELSE 0)]
             ELSE /\ blend' = IF loss = 0 THEN 0 ELSE blend
                  /\ blocks' = Aged(blocks) /\ played' = <<>>
                  /\ gap' = [gap EXCEPT !.whole = FALSE]

(* A packet that is lost, and no redundancy for it.                        *)
Lost ==
  \E u \in Sizes :
    /\ dred.left = 0 \/ u <= dred.left
    /\ Lose(queue, filled, u, FALSE)
    /\ UNCHANGED always

(* opus_decoder_dred_decode.                                               *)
DredDecode ==
  \E u \in Sizes :
    /\ u <= dred.left
    /\ Lose(Injected(u), Injected(u).times # <<>>, u, \A i \in DOMAIN Asked(u) : There(Asked(u)[i]))
    /\ UNCHANGED always

(* A packet arrives with redundancy, behind a gap that is not yet filled.  *)
Arrives ==
  /\ dred = NoDred
  /\ \E left \in Gaps, offset \in Offsets, count \in Counts :
       dred' = [left |-> left, offset |-> offset, count |-> count]
  /\ played' = <<>>
  /\ UNCHANGED <<always, loss, skip, blend, queue, filled, blocks, gap>>

(* A CELT frame that arrived.                                              *)
Good ==
  /\ dred.left = 0
  /\ loss' = 0
  /\ skip' = (skip /\ loss # 0)
  /\ blocks' = Aged(blocks) /\ played' = <<>>
  /\ gap' = NoGap
  /\ UNCHANGED <<always, blend, queue, filled, dred>>

ConcealInit ==
  /\ always \in BOOLEAN
  /\ loss = 0 /\ skip = TRUE /\ blend = 0 /\ queue = Nothing /\ filled = FALSE
  /\ blocks = <<>> /\ dred = NoDred /\ gap = NoGap /\ played = <<>>

(* OPUS_RESET_STATE.                                                       *)
ResetConceal ==
  /\ UNCHANGED always
  /\ loss' = 0 /\ skip' = TRUE /\ blend' = 0 /\ queue' = Nothing /\ filled' = FALSE
  /\ blocks' = <<>> /\ dred' = NoDred /\ gap' = NoGap /\ played' = <<>>

ConcealNext == Lost \/ DredDecode \/ Arrives \/ Good \/ ResetConceal

ConcealSpec == ConcealInit /\ [][ConcealNext]_concealVars

-----------------------------------------------------------------------------
(* The state has its shape.  So little is left of the blocks that those of *)
(* the next frame have room in plc_pcm, which has 640 samples.             *)
ConcealTypeOK ==
  /\ loss \in 0 .. Worn /\ skip \in BOOLEAN /\ blend \in {0, 1}
  /\ Fill(blocks) \in 0 .. Ahead + Block - 1
  /\ played # <<>> => blocks # <<>>

(* What is played in a gap that is filled by the network from its          *)
(* beginning was made for it, and what was made from a feature is of the   *)
(* time it is played at: not more than 2.5 ms before and 15 ms behind.     *)
(* Not so when the features were chosen for a gap that goes on, and one    *)
(* begins (gap.misled).                                                    *)
InTime ==
  gap.whole /\ ~gap.misled =>
    \A i \in DOMAIN played :
      /\ ~played[i].old
      /\ played[i].known => played[i].off \in -40 .. 240

(* When there are features for all of the gap, not more than 10 ms of it   *)
(* are guessed, whatever lengths its frames have.                          *)
GuessesOnce == gap.whole /\ ~gap.misled => gap.guessed <= 1

(* A gap that is filled by the network from its beginning is filled with   *)
(* what was lost, as far as it is known.                                   *)
GapIsFilled ==
  /\ ConcealTypeOK
  /\ InTime
  /\ GuessesOnce
=============================================================================
