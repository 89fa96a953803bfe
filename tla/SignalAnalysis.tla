---------------------------- MODULE SignalAnalysis ----------------------------
(***************************************************************************)
(* The encoder's view of what kind of sound it codes.  The input is looked *)
(* at in blocks of 20 ms, wherever packets begin and end; what is found is *)
(* kept in a ring, and the encoder reads the slot of the frame at hand and *)
(* some around it.  A packet that is coded in several frames goes over the *)
(* same slots twice: once as a whole, then, from the same place, frame by  *)
(* frame.  Nothing ties the reader's place to the writer's but that both   *)
(* count the same audio.                                                   *)
(*                                                                         *)
(* Time is counted in units of 2.5 ms.                                     *)
(***************************************************************************)
EXTENDS Integers, FiniteSets

CONSTANTS
  DetectSize,                 \* DETECT_SIZE, slots of the ring
  Packets,                    \* units of a packet
  Several,                     \* packets of several frames: units, and units of a frame
  MaxLag                      \* units by which failures may set the reader back

BlockUnits == 8                    \* 480 samples at 24 kHz
Buffer == 12                  \* ANALYSIS_BUF_SIZE
Early == 4                    \* INITIAL_MEM_FILL
Spare == 5                    \* slots that are not filled in advance

Durations == 1 .. 48          \* units of a packet: up to 120 ms

(* A packet is looked at as a whole, and what is asked about is never so   *)
(* long ago that its slot has been written again.                          *)
ASSUME RingAssumption ==
  /\ DetectSize \in Nat /\ DetectSize > Spare /\ MaxLag \in Nat
  /\ Packets \subseteq Durations /\ Several \subseteq Durations \X Durations
  /\ \A p \in Several : p[1] % p[2] = 0
  /\ \A units \in Packets \cup {p[1] : p \in Several} :
       /\ units < BlockUnits * (DetectSize - Spare)
       /\ MaxLag + units < BlockUnits * (DetectSize - 1)

VARIABLES
  tonal,                      \* mem_fill, write_pos, read_pos, read_subframe, analysis_offset
  age,                        \* of each slot: blocks finished since; -1 if never written
  series,                     \* coded frame by frame: units of one, units left; the saved
                              \* read state
  seen,                       \* the last reading: the audio it was for, and where it looked
  lag                         \* units whose frames were never coded because one before failed

analysisVars == <<tonal, age, series, seen, lag>>

Slots == 0 .. DetectSize - 1
Up(p) == (p + 1) % DetectSize
Down(p) == IF p = 0 THEN DetectSize - 1 ELSE p - 1
Lower(a, b) == IF a < b THEN a ELSE b
Higher(a, b) == IF a > b THEN a ELSE b

Fresh == [fill |-> Early, write |-> 0, read |-> 0, sub |-> 0, offset |-> 0]
Empty == [s \in Slots |-> -1]
NotInFrames == [frame |-> 0, left |-> 0, first |-> FALSE, read |-> 0, sub |-> 0]
NothingSeen == [from |-> 0, to |-> 0, ended |-> 0, at |-> -1, newer |-> {}, older |-> {}]

(***************************************************************************)
(* Writing.  A chunk either fits the buffer or completes a block, which    *)
(* takes the next slot; the last 10 ms of a block are kept for the next.   *)
(***************************************************************************)
Finished(s) ==
  [p \in Slots |-> IF p = s.t.write THEN 0 ELSE IF s.age[p] = -1 THEN -1 ELSE s.age[p] + 1]

Chunk(s, units) ==
  IF s.t.fill + units < Buffer
  THEN [s EXCEPT !.t.fill = @ + units]
  ELSE [t |-> [s.t EXCEPT !.fill = Early + units - (Buffer - @), !.write = Up(@)],
        age |-> Finished(s)]

(* run_analysis: chunks of 20 ms and what is left, without what was looked *)
(* at before.                                                              *)
Looked(units) ==
  LET most == Lower((DetectSize - Spare) * BlockUnits, units)
      new == most - tonal.offset
      fed[n \in 0 .. new \div BlockUnits] ==
        IF n = 0 THEN [t |-> tonal, age |-> age] ELSE Chunk(fed[n - 1], BlockUnits)
      whole == fed[new \div BlockUnits]
      rest == new % BlockUnits
  IN [(IF rest = 0 THEN whole ELSE Chunk(whole, rest)) EXCEPT !.t.offset = most - units]

(***************************************************************************)
(* Reading: tonality_get_info.                                             *)
(***************************************************************************)
(* The reader's place moves on by what it was asked for.                   *)
MovedOn(t, units) ==
  [t EXCEPT !.sub = (@ + units) % BlockUnits,
            !.read = (@ + (t.sub + units) \div BlockUnits) % DetectSize]

\* Mutant: a slot that is not finished is read all the same.
PlaceUnfinished(t, units) ==
  IF units > BlockUnits /\ t.read # t.write THEN Up(t.read) ELSE t.read

(* A long frame is judged by the slot behind its first; a slot that is not *)
(* finished by the one before it.                                          *)
Place(t, units) ==
  LET next == IF units > BlockUnits /\ t.read # t.write THEN Up(t.read) ELSE t.read
  IN IF next = t.write THEN Down(next) ELSE next

(* The slots up to the writer's, and those behind it, from one on: the     *)
(* walks stop in front of the slot that is written next.                   *)
Onwards(t, from, most) ==
  {(from + i) % DetectSize : i \in 1 .. Lower(most, (t.write - from - 1) % DetectSize)}
Backwards(t, from, most) ==
  {(from - i) % DetectSize : i \in 1 .. Lower(most, (from - t.write - 1) % DetectSize)}

Lookahead(t) == (t.write - t.read) % DetectSize

(* Three slots ahead for tonality and bandwidth, six with those behind;    *)
(* all ahead for the probabilities of music and speech, and when few of    *)
(* those are there, up to fifteen behind.  With many, music is judged from *)
(* five slots further on.                                                  *)
Newer(t, pos) ==
  LET start == IF Lookahead(t) > 15 THEN (pos + 5) % DetectSize ELSE pos
  IN Onwards(t, pos, 3) \cup {start} \cup Onwards(t, start, DetectSize)
Earlier(t, pos, blocks) ==
  Backwards(t, pos, 6 - Cardinality(Onwards(t, pos, 3)))
    \cup (IF Lookahead(t) < 10 THEN Backwards(t, pos, Lower(15, Higher(blocks - 1, 0))) ELSE {})

(* What the frame from one time to another is told; a slot that was never  *)
(* written says so.                                                        *)
Reading(s, from, to) ==
  LET pos == Place(s.t, to - from)
      blocks == Cardinality({p \in Slots : s.age[p] # -1})
  IN [from |-> from, to |-> to, ended |-> Early - s.t.fill, at |-> s.age[pos],
      newer |-> {s.age[p] : p \in IF s.age[pos] = -1 THEN {} ELSE Newer(s.t, pos)},
      older |-> {s.age[p] : p \in IF s.age[pos] = -1 THEN {} ELSE Earlier(s.t, pos, blocks)}]

-----------------------------------------------------------------------------
AnalysisInit ==
  /\ tonal = Fresh
  /\ age = Empty
  /\ series = NotInFrames
  /\ seen = NothingSeen
  /\ lag = 0

(* run_analysis for a packet: look at it, and tell what it is.             *)
Analyse(units) ==
  LET s == Looked(units)
  IN /\ tonal' = MovedOn(s.t, units)
     /\ age' = s.age
     /\ seen' = Reading(s, -units - lag, -lag)

(* A packet of one frame.                                                  *)
EncodeWhole ==
  /\ series.left = 0
  /\ \E units \in Packets : Analyse(units)
  /\ UNCHANGED <<series, lag>>

(* A packet of several.                                                    *)
EncodeSeveral ==
  /\ series.left = 0
  /\ \E p \in Several :
       /\ Analyse(p[1])
       /\ series' = [frame |-> p[2], left |-> p[1], first |-> TRUE,
                     read |-> tonal.read, sub |-> tonal.sub]
  /\ UNCHANGED lag

(* Before the first frame the place is taken back to where it was.         *)
Restored ==
  IF series.first THEN [tonal EXCEPT !.read = series.read, !.sub = series.sub] ELSE tonal

(* One of the frames.                                                      *)
EncodeFrame ==
  /\ series.left > 0
  /\ tonal' = MovedOn(Restored, series.frame)
  /\ seen' = Reading([t |-> Restored, age |-> age], -series.left - lag,
                     series.frame - series.left - lag)
  /\ series' = IF series.left = series.frame THEN NotInFrames
               ELSE [series EXCEPT !.left = @ - series.frame, !.first = FALSE]
  /\ UNCHANGED <<age, lag>>

(* A frame cannot be coded and the call fails: the frames that are left    *)
(* are never asked about.                                                  *)
Fail ==
  /\ series.left > 0
  /\ lag + series.left <= MaxLag
  /\ tonal' = Restored
  /\ lag' = lag + series.left
  /\ series' = NotInFrames
  /\ UNCHANGED <<age, seen>>

(* A packet at a low complexity, OPUS_RESET_STATE.                         *)
ResetAnalysis ==
  /\ series.left = 0
  /\ tonal' = Fresh
  /\ age' = Empty
  /\ seen' = NothingSeen
  /\ lag' = 0
  /\ UNCHANGED series

AnalysisNext == EncodeWhole \/ EncodeSeveral \/ EncodeFrame \/ Fail \/ ResetAnalysis

AnalysisSpec == AnalysisInit /\ [][AnalysisNext]_analysisVars

-----------------------------------------------------------------------------
(* The state has its shape: between calls the buffer is never full, and    *)
(* nothing is looked at in advance.                                        *)
AnalysisTypeOK ==
  /\ tonal \in [fill : Early .. Buffer - 1, write : Slots, read : Slots,
                sub : 0 .. BlockUnits - 1, offset : {0}]
  /\ \A p \in Slots : age[p] \in -1 .. DetectSize - 1
  /\ series.left \in 0 .. 48
  /\ lag \in 0 .. MaxLag

(* A frame is told about itself: the block that is read overlaps it, or,   *)
(* when it is too short to have finished one, ended less than 20 ms before *)
(* it began.  Where calls have failed, it is told about the audio as long  *)
(* before it as the frames that were given up.  Only before the first      *)
(* block is it told nothing.                                               *)
ToldAboutItself ==
  LET ended == seen.ended - BlockUnits * seen.at
  IN IF seen.at = -1 THEN \A p \in Slots : age[p] = -1
     ELSE ended > seen.from - BlockUnits /\ ended - BlockUnits < seen.to

(* Between packets the reader is behind the writer by what the buffer      *)
(* holds and by what failed, however the audio was cut into packets and    *)
(* frames: reading a packet twice does not move it twice.                  *)
CountsTheSame ==
  series.left = 0 =>
    LET behind == BlockUnits * (tonal.write - tonal.read) + tonal.fill - Early - tonal.sub
    IN behind % (BlockUnits * DetectSize) = lag

(* Around the slot that is read, what is taken for later is later, and     *)
(* what is taken for earlier is earlier: no walk passes the place where    *)
(* the newest block and the oldest meet.                                   *)
InOrder ==
  /\ \A a \in seen.newer : a \in 0 .. seen.at
  /\ \A a \in seen.older : a = -1 \/ a > seen.at

(* The reader is where the writer's audio is: by the count of both, by     *)
(* what a frame is told, and in every walk around it.                      *)
JudgedByItsOwn ==
  /\ AnalysisTypeOK
  /\ CountsTheSame
  /\ ToldAboutItself
  /\ InOrder
=============================================================================
