------------------------------ MODULE DredEncoder ------------------------------
(***************************************************************************)
(* Deep redundancy: every packet may carry a coarse description of the     *)
(* sound before it, from which a receiver that lost the packets before it  *)
(* fills the gap.  The encoder collects its input at 16 kHz, makes a       *)
(* latent of every 20 ms, keeps the last of them, and remembers for every  *)
(* 2.5 ms whether there was activity.  A packet has every second latent,   *)
(* newest first, without the silence in front and behind, and says when    *)
(* the newest ends.                                                        *)
(*                                                                         *)
(* What a latent says is not here.  It is known when its sound ended.      *)
(***************************************************************************)
EXTENDS Integers, Sequences, FiniteSets

CONSTANTS
  Latents,                    \* DRED_NUM_REDUNDANCY_FRAMES
  Memory,                     \* DRED_ACTIVITY_MEM_LEN
  DredSizes,                      \* samples of a frame at 16 kHz
  Delays,                     \* extra_delay at 16 kHz: the delay buffer, or nothing
  Chunks,                     \* dred_chunks
  Fits,                       \* how many latents there may be room for
  Changes,                    \* bound: how often the remembered activity changes
  Indexes                     \* which frames of a packet may carry the redundancy

ASSUME DredAssumption ==
  /\ Latents \in Nat /\ Latents % 2 = 0 /\ Latents > 0
  /\ Memory = 8 * Latents
  /\ \A p \in DredSizes : p \in 40 .. 960 /\ p % 40 = 0
  /\ Delays \subseteq {0, 64}
  /\ Chunks \subseteq 1 .. Latents \div 2 /\ Fits \subseteq Nat /\ Indexes \subseteq 0 .. 5

DFrame == 320                 \* 2 * DRED_FRAME_SIZE
SilkDelay == 11               \* DRED_SILK_ENCODER_DELAY
Newest == 40                  \* the newest latent is said to end this late

VARIABLES
  delay,                      \* of this encoder
  fill,                       \* input_buffer_fill
  offset,                     \* dred_offset, in 2.5 ms
  latent,                     \* latent_offset: what is too new
  extra,                      \* last_extra_dred_offset
  history,                    \* of latents_buffer the filled part, newest first: how long ago
                              \* the sound ended, and whether input was missed or repeated since
  activity,                   \* dred_activity_mem, newest first
  packet,                     \* what the last packet has
  inside                      \* nothing beyond dred_activity_mem was asked for

dredVars == <<delay, fill, offset, latent, extra, history, activity, packet, inside>>

NoPacket == [sent |-> <<>>]
Fewer(a, b) == IF a < b THEN a ELSE b

(***************************************************************************)
(* dred_compute_latents, in pieces of at most 20 ms.                       *)
(***************************************************************************)
Pieces(p) == [i \in 1 .. (p + DFrame - 1) \div DFrame |-> Fewer(DFrame, p - DFrame * (i - 1))]

StartsAt(d, f) == (40 + d - f + 20) \div 40

Older(h, p) == [i \in DOMAIN h |-> [h[i] EXCEPT !.ago = @ + p]]
Broken(h) == [i \in DOMAIN h |-> [ago |-> 0, since |-> TRUE]]

\* Mutant: the latents that are too new are not counted.
PieceAllNew(st, p) ==
  LET f == st.fill + p IN
  IF f < DFrame THEN [st EXCEPT !.fill = f, !.history = Older(@, p)]
  ELSE [fill |-> f - DFrame,
        history |-> SubSeq(<<[ago |-> f - DFrame, since |-> FALSE]>> \o Older(st.history, p),
                           1, Fewer(Len(st.history) + 1, Latents)),
        offset |-> st.offset + (IF st.offset < 6 THEN 8 ELSE 0),
        latent |-> st.latent]

(* A latent that ends more than a frame after the packet begins is what    *)
(* the packet has anyway: it is left out.                                  *)
Piece(st, p) ==
  LET f == st.fill + p IN
  IF f < DFrame THEN [st EXCEPT !.fill = f, !.history = Older(@, p)]
  ELSE [fill |-> f - DFrame,
        history |-> SubSeq(<<[ago |-> f - DFrame, since |-> FALSE]>> \o Older(st.history, p),
                           1, Fewer(Len(st.history) + 1, Latents)),
        offset |-> st.offset + (IF st.offset < 6 THEN 8 ELSE 0),
        latent |-> st.latent + (IF st.offset < 6 THEN 0 ELSE 1)]

Fed(p, h) ==
  LET pieces == Pieces(p)
      fed[n \in 0 .. Len(pieces)] ==
        IF n = 0 THEN [fill |-> fill, history |-> h, offset |-> StartsAt(delay, fill), latent |-> 0]
        ELSE Piece(fed[n - 1], pieces[n])
  IN fed[Len(pieces)]

Spells(mem) == Cardinality({i \in 2 .. Memory : mem[i] # mem[i - 1]}) <= Changes

Remembered(p, active) == SubSeq([i \in 1 .. p \div 40 |-> active] \o activity, 1, Memory)
(***************************************************************************)
(* dred_encode_silk_frame.                                                 *)
(***************************************************************************)
(* dred_voice_active: a latent says something of 40 ms.                    *)

Voice(mem, l) == \E i \in 1 .. 16 : 8 * l + i <= Memory /\ mem[8 * l + i]
Beyond(mem, l) == ~Voice(mem, l) /\ 8 * l + 16 > Memory

Delayed(mem) == mem[1] /\ extra > 0

(* The first latent that is sent: after silence the ones that the packet   *)
(* before left out, and in any case what is silent.                        *)
Start(mem, st) == IF Delayed(mem) THEN extra ELSE st.latent
First(mem, st) ==
  LET from == Start(mem, st)
      there == {l \in from .. Len(st.history) - 1 : Voice(mem, l)}
  IN IF from >= Len(st.history) THEN from
     ELSE IF there = {} THEN Len(st.history)
          ELSE CHOOSE l \in there : \A k \in there : l <= k

Skipped(mem, st) == First(mem, st) - Start(mem, st)

(* All that is asked for lies in the memory.                               *)
Inside(mem, st) ==
  \A l \in Start(mem, st) .. Fewer(First(mem, st), Len(st.history) - 1) : ~Beyond(mem, l)

(* How many are kept of those that were tried: up to the last that is      *)
(* active or follows one that is.                                          *)
Kept(mem, from, tries) ==
  LET heard(i) == Voice(mem, from + 2 * i)
      keep == {i \in 0 .. tries - 1 : heard(i) \/ (i > 0 /\ heard(i - 1))}
  IN IF keep = {} THEN 0 ELSE 1 + CHOOSE i \in keep : \A j \in keep : j <= i

(* The offset on its way: a byte more when it does not fit in five bits.   *)
Written(total) == IF total > 31 THEN [more |-> total \div 32, rest |-> total % 32]
                                ELSE [more |-> 0, rest |-> total]
Read(w, index, p) == 16 - w.rest - 32 * w.more + index * (p \div 40)

Total(off, skipped) == 16 - (off - 8 * skipped)

(* The packet's frame number `index` sends.  Room is there for `fits`.     *)
Sent(mem, st, chunks, fits, index, p) ==
  LET from == First(mem, st)
      most == Fewer(2 * chunks, Len(st.history) - from - 1)
      tries == Fewer(fits, (most + 1) \div 2)
      kept == IF most > 0 THEN Kept(mem, from, tries) ELSE 0
      skipped == from - Start(mem, st)
  IN IF kept = 0 \/ (kept = 1 /\ skipped > 0) THEN NoPacket
     ELSE [sent |-> [i \in 1 .. kept |-> st.history[from + 2 * i - 1]],
           says |-> Read(Written(Total(st.offset, skipped)), index, p),
           late |-> Delayed(mem), index |-> index, size |-> p, from |-> from,
           start |-> Start(mem, st), tried |-> tries]

-----------------------------------------------------------------------------
DredInit ==
  /\ delay \in Delays
  /\ fill = SilkDelay /\ offset = 0 /\ latent = 0 /\ extra = 0
  /\ history = <<>> /\ activity = [i \in 1 .. Memory |-> FALSE]
  /\ packet = NoPacket /\ inside = TRUE

(* A frame whose packet has redundancy if there is room for any, or a      *)
(* frame that is not the first of its packet, or not sent at all.          *)
Take(p, active, h) ==
  \E st \in {Fed(p, h)}, mem \in {Remembered(p, active)} :
    /\ fill' = st.fill /\ offset' = st.offset /\ latent' = st.latent /\ history' = st.history
    /\ activity' = mem
    /\ \/ packet' = NoPacket /\ UNCHANGED <<extra, inside>>
       \/ /\ Inside(mem, st)
          /\ extra' = IF Delayed(mem) THEN 0 ELSE Skipped(mem, st)
          /\ \E chunks \in Chunks, fits \in Fits, index \in Indexes :
               packet' = Sent(mem, st, chunks, fits, index, p)
          /\ UNCHANGED inside
       \/ /\ ~Inside(mem, st)
          /\ inside' = FALSE /\ packet' = NoPacket /\ UNCHANGED extra
    /\ UNCHANGED delay

Encode ==
  /\ inside
  /\ \E p \in DredSizes, active \in BOOLEAN :
       Spells(Remembered(p, active)) /\ Take(p, active, history)

(* A frame that failed for want of room is encoded a second time.          *)
EncodeAgain ==
  /\ inside
  /\ \E p \in DredSizes, active \in BOOLEAN :
       \E st \in {Fed(p, history)} :
         /\ Spells(Remembered(p, active))
         /\ fill' = st.fill /\ history' = Broken(st.history)
         /\ activity' = Remembered(p, active)
         /\ offset' = st.offset /\ latent' = st.latent /\ packet' = NoPacket
  /\ UNCHANGED <<delay, extra, inside>>

(* A call that is refused for want of room: the frame is not looked at.    *)
PassOver ==
  /\ inside /\ packet' = NoPacket
  /\ history' = Broken(history)
  /\ UNCHANGED <<delay, fill, offset, latent, extra, activity, inside>>

(* dred_duration = 0: the input so far waits where it is.                  *)
EncodeWithout ==
  /\ inside
  /\ history' = <<>> /\ activity' = [i \in 1 .. Memory |-> FALSE]
  /\ packet' = NoPacket
  /\ UNCHANGED <<delay, fill, offset, latent, extra, inside>>

(* OPUS_RESET_STATE, and the encoder that comes after one that is gone.    *)
ResetDred ==
  /\ UNCHANGED delay
  /\ fill' = SilkDelay /\ offset' = 0 /\ latent' = 0 /\ extra' = 0
  /\ history' = <<>> /\ activity' = [i \in 1 .. Memory |-> FALSE]
  /\ packet' = NoPacket /\ inside' = TRUE

DredNext == Encode \/ EncodeAgain \/ PassOver \/ EncodeWithout \/ ResetDred

DredSpec == DredInit /\ [][DredNext]_dredVars

-----------------------------------------------------------------------------
(* The state has its shape.  debug_assert!(total_offset >= 0) holds.       *)
DredTypeOK ==
  /\ delay \in Delays /\ inside \in BOOLEAN
  /\ fill \in 0 .. DFrame - 1 /\ latent \in Nat /\ extra \in 0 .. Latents
  /\ Len(history) <= Latents /\ Len(activity) = Memory
  /\ packet # NoPacket => packet.says <= 16 + packet.index * (packet.size \div 40)

(* What a packet says of the time of its latents is right to the half of   *)
(* 2.5 ms, whatever sizes the frames had, wherever in a frame a latent     *)
(* ended, however many were left out as too new or as silent, and          *)
(* whichever frame of its packet carries it.  Not so for latents older     *)
(* than a frame that was missed or encoded twice; and not so in the first  *)
(* packet after silence, which leaves out the latents that the one before  *)
(* took for silent without saying so (so does the reference).              *)
TimesAreTrue ==
  \A i \in DOMAIN packet.sent :
    ~packet.late /\ ~packet.sent[i].since =>
      LET true == (1 + packet.index) * packet.size + delay - packet.sent[i].ago
          said == 40 * packet.says - Newest - 2 * DFrame * (i - 1)
      IN said - true \in -20 .. 20

(* Activity that was tried for a packet with redundancy is in it: what is  *)
(* left out in front and behind is silent, although activity is kept for   *)
(* frames and latents end anywhere in one.  Not so in the oldest latent    *)
(* that was tried: its sound begins up to 20 ms before the 40 ms in which  *)
(* activity is looked for, and what is there alone is not heard.           *)
ActivityIsSent ==
  packet # NoPacket =>
    \A e \in 1 .. Fewer(Memory, 8 * (packet.from + 2 * packet.tried)) :
      LET of == (40 * (e - 1) + 20 - fill) \div DFrame
      IN activity[e] /\ of \in packet.start .. packet.from + 2 * packet.tried - 1
           => of \in packet.from .. packet.from + 2 * Len(packet.sent) - 1

(* What the redundancy says is true, and says all that there is to say.    *)
RedundancyIsTrue ==
  /\ DredTypeOK
  /\ TimesAreTrue
  /\ ActivityIsSent
=============================================================================
