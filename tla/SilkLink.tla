------------------------------ MODULE SilkLink ------------------------------
(***************************************************************************)
(* A SILK encoder and a SILK decoder with a network between them that may  *)
(* lose packets.  The encoder packs one packet per call of silk_encode;    *)
(* the receiver decodes what arrives, conceals what does not, or, when the *)
(* packet after a lost one arrives, decodes the redundant copies of the    *)
(* lost one first (the calls of OpusDecoder::decode_frame).  A stretch of  *)
(* CELT packets restarts the encoder with a prefill and resets the         *)
(* decoder; a receiver may also be reset, or join late.                    *)
(***************************************************************************)
EXTENDS Integers, Sequences, FiniteSets

CONSTANTS
  Setups,           \* what the ends may be used for, by name: records of Setup, below
  Types,            \* signal types that occur
  MaxPackets,       \* bound: packets encoded
  MaxConceals       \* bound: concealment calls

\* Internal channel counts, packet durations in milliseconds and internal rates in
\* kHz that the encoder may use, and whether redundant copies are asked for
\* (lbrr_coded).
Setup == [chans: SUBSET {1, 2}, ms: SUBSET {10, 20, 40, 60}, fs: SUBSET {8, 12, 16},
          fec: BOOLEAN]

ASSUME ParametersAreSilk ==
  /\ \A s \in DOMAIN Setups : Setups[s] \in Setup
  /\ Types \subseteq {"inactive", "unvoiced", "voiced"}
  /\ MaxPackets \in Nat /\ MaxConceals \in Nat

(***************************************************************************)
(* What one SILK packet holds and how its two ends go through it:          *)
(* silk_encode (silk/enc_api.rs) writes it, silk_decode (silk/dec_api.rs)  *)
(* reads it back one frame at a time.  Nothing in the stream names what    *)
(* comes next: both ends derive it from state they keep, and a reader that *)
(* derives anything else reads garbage from there on.                      *)
(*                                                                         *)
(* Channel 0 is mid (or mono), channel 1 is side; frames count from 0.     *)
(* Audio is abstract: a frame is its signal type and a number naming it,   *)
(* and a channel's prediction memory (LTP buffer, NLSF, gain) is the name  *)
(* of the frame that last went into it, 0 when it is cleared.              *)
(***************************************************************************)

Side == 1
Channels(chans) == 0 .. chans - 1

\* Frames in a packet of ms milliseconds, and subframes in each of them.
FramesPerPacket(ms) == IF ms \in {40, 60} THEN ms \div 20 ELSE 1
Subframes(ms) == IF ms = 10 THEN 2 ELSE 4

\* For each frame of a packet, three at most, and for each channel of a frame.
EachFrame(Do(_, _), s, frames) ==
  LET one == Do(s, 0)
      two == Do(one, 1)
  IN  IF frames = 1 THEN one ELSE IF frames = 2 THEN two ELSE Do(two, 2)
EachChannel(Do(_, _), s, chans) == IF chans = 2 THEN Do(Do(s, 0), 1) ELSE Do(s, 0)

\* An end with another channel c.
With(end, c, ch) == [end EXCEPT !.ch = [end.ch EXCEPT ![c] = ch]]

Voiced(type) == type = "voiced"

(***************************************************************************)
(* How the indices of a frame are laid out.  `ec` is the side-information  *)
(* context of the channel: the type and lag last coded.                    *)
(***************************************************************************)
Layout(coding, flagged, type, ec, shape) ==
  [gain     |-> IF coding = "conditional" THEN "delta" ELSE "absolute",
   table    |-> IF flagged THEN "vad" ELSE "no vad",
   lag      |-> IF Voiced(type) /\ coding = "conditional" /\ Voiced(ec.type)
                  THEN ec.lag ELSE 0,                 \* 0: an absolute lag
   ltpScale |-> Voiced(type) /\ coding = "independent",
   shape    |-> shape]

EcAfter(ec, type, name) ==
  [type |-> type, lag |-> IF Voiced(type) THEN name ELSE ec.lag]
EcFresh == [type |-> "inactive", lag |-> 0]

(***************************************************************************)
(* The encoder.  `pick` gives for each frame the type of its mid signal,   *)
(* that of its side signal ("absent": mid only) and the channels whose     *)
(* speech is strong enough for a redundant copy.                           *)
(***************************************************************************)
NoCopies == [k \in 1 .. 3 |-> [type |-> "inactive", name |-> 0, made |-> <<0, 0>>]]

EncChannelFresh ==
  [fs |-> 0, fresh |-> TRUE, lbrr |-> {}, copy |-> NoCopies, ec |-> EcFresh, mem |-> 0]

EncFresh == [chans |-> 1, ms |-> 0, midOnly |-> FALSE,
             ch |-> [c \in {0, 1} |-> EncChannelFresh]]

\* More internal channels than before: the new ones start afresh.
Widened(enc, chans) ==
  IF chans > enc.chans
    THEN [With(enc, Side, EncChannelFresh) EXCEPT !.midOnly = FALSE]
    ELSE enc

\* Mutant: the memory outlives a change of rate.
SetupFsKeeps(c, fs) == IF c.fs = fs THEN c ELSE [c EXCEPT !.fs = fs, !.fresh = TRUE]

SetupFs(c, fs) == IF c.fs = fs THEN c ELSE [c EXCEPT !.fs = fs, !.fresh = TRUE, !.mem = 0]

\* Mutant: copies outlive a change of rate.
ClearLbrrNever(c, transition) == IF transition THEN [c EXCEPT !.lbrr = {}] ELSE c

\* Redundant copies made for packets of another shape are dropped.
ClearLbrr(c, transition) == IF c.fresh \/ transition THEN [c EXCEPT !.lbrr = {}] ELSE c

Controlled(enc, chans, ms, fs) ==
  LET transition == ms # enc.ms \/ chans # enc.chans
  IN  [enc EXCEPT !.chans = chans, !.ms = ms,
         !.ch = [c \in {0, 1} |-> IF c < chans
                                    THEN ClearLbrr(SetupFs(enc.ch[c], fs), transition)
                                    ELSE enc.ch[c]]]

\* A prefill call: both channels start over and hear 10 ms that are not coded.
Prefilled(enc, chans, fs, midOnly) ==
  LET wide == Widened(enc, chans)
      blank == [wide EXCEPT !.ch = [c \in {0, 1} |-> IF c < chans THEN EncChannelFresh
                                                                    ELSE wide.ch[c]]]
  IN  [Controlled(blank, chans, 10, fs) EXCEPT
         !.midOnly = IF chans = 2 THEN midOnly ELSE @]

EncShape(enc, c) == <<Subframes(enc.ms), enc.ch[c].fs>>

EncCoding(frame, c, midOnly) ==
  IF frame - c <= 0 THEN "independent"
  ELSE IF c = Side /\ midOnly THEN "independent, no LTP scaling"
  ELSE "conditional"

\* A redundant copy is coded against the copy of the frame before it, if any.
LbrrCoding(lbrr, frame) ==
  IF frame > 0 /\ frame - 1 \in lbrr THEN "conditional" ELSE "independent"

FrameItem(c, frame, layout, type, name, mem, made) ==
  [kind |-> "frame", channel |-> c, frame |-> frame, layout |-> layout,
   type |-> type, name |-> name, mem |-> mem, made |-> made]

\* One redundant copy onto the stream `s` (an encoder and the items so far).
WriteCopy(s, frame, c) ==
  LET ch == s.enc.ch[c]
      copy == ch.copy[frame + 1]
      layout == Layout(LbrrCoding(ch.lbrr, frame), TRUE, copy.type, ch.ec, EncShape(s.enc, c))
  IN  IF frame \notin ch.lbrr THEN s
      ELSE [enc   |-> With(s.enc, c, [ch EXCEPT !.ec = EcAfter(@, copy.type, copy.name)]),
            items |-> Append(s.items, FrameItem(c, frame, layout, copy.type, copy.name, 0,
                                                 copy.made))]

\* Every copy is sent once, in the packet after its own.
CopiesSent(enc, chans) ==
  [enc EXCEPT !.ch = [c \in {0, 1} |-> IF c < chans THEN [enc.ch[c] EXCEPT !.lbrr = {}]
                                                ELSE enc.ch[c]]]

\* The flags of a channel, if its packet has more than one frame to tell apart.
WriteLbrrFlags(enc, c, frames) ==
  IF enc.ch[c].lbrr # {} /\ frames > 1
    THEN <<[kind |-> "lbrr flags", channel |-> c, set |-> enc.ch[c].lbrr]>> ELSE <<>>

\* The LBRR part of a packet: the flags of each channel, then the copies, frame by
\* frame and, within a frame, channel by channel.
WriteLbrr(enc, chans, frames) ==
  LET flags == WriteLbrrFlags(enc, 0, frames)
               \o (IF chans = 2 THEN WriteLbrrFlags(enc, Side, frames) ELSE <<>>)
      Copies(acc, frame) == EachChannel(LAMBDA a, c : WriteCopy(a, frame, c), acc, chans)
      s == EachFrame(Copies, [enc |-> enc, items |-> flags], frames)
  IN  [enc |-> CopiesSent(s.enc, chans), items |-> s.items]

\* The side channel's memory is cleared by its first frame after mid-only ones.
SideReset(enc) == With(enc, Side, [enc.ch[Side] EXCEPT !.mem = 0, !.fresh = TRUE])

WriteStereo(s, pick) ==
  LET midOnly == pick.side = "absent"
      vad == ~midOnly /\ pick.side # "inactive"
      enc == IF ~midOnly /\ s.enc.midOnly THEN SideReset(s.enc) ELSE s.enc
      pred == Append(s.items, [kind |-> "predictors"])
  IN  [enc |-> enc,
       items |-> IF vad THEN pred ELSE Append(pred, [kind |-> "mid only", set |-> midOnly])]

\* Signal type the encoder gives channel c in this frame.
TypeOf(pick, c) == IF c = Side THEN pick.side ELSE pick.mid

\* One channel of one frame: the redundant copy is kept for the next packet.
WriteFrame(s, frame, c, pick, fec, name) ==
  LET ch == s.enc.ch[c]
      type == TypeOf(pick, c)
      layout == Layout(EncCoding(frame, c, s.enc.midOnly), type # "inactive", type, ch.ec,
                       EncShape(s.enc, c))
      kept == fec /\ c \in pick.strong
  IN  IF type = "absent" THEN s
      ELSE [enc |-> With(s.enc, c,
                      [ch EXCEPT !.fresh = FALSE, !.mem = name, !.ec = EcAfter(@, type, name),
                                 !.lbrr = IF kept THEN @ \cup {frame} ELSE @,
                                 !.copy = IF kept
                                            THEN [k \in 1 .. 3 |->
                                                   IF k = frame + 1
                                                     THEN [type |-> type, name |-> name,
                                                           made |-> EncShape(s.enc, c)]
                                                     ELSE ch.copy[k]]
                                            ELSE @]),
            items |-> Append(s.items, FrameItem(c, frame, layout, type, name, ch.mem,
                                            EncShape(s.enc, c)))]

\* Names are unique to a packet, a frame and a channel.
NameOf(packet, frame, c) == 8 * packet + 2 * frame + c

WriteSlot(s, frame, pick, chans, fec, packet) ==
  LET stereo == IF chans = 2 THEN WriteStereo(s, pick) ELSE s
      both == EachChannel(LAMBDA a, c : WriteFrame(a, frame, c, pick, fec, NameOf(packet, frame, c)),
                          stereo, chans)
  IN  IF chans = 2 THEN [both EXCEPT !.enc = [@ EXCEPT !.midOnly = pick.side = "absent"]] ELSE both

\* silk_encode for one packet; `picks` has one element per frame.
Encoded(enc, chans, ms, fs, picks, fec, packet) ==
  LET ready == Controlled(Widened(enc, chans), chans, ms, fs)
      frames == FramesPerPacket(ms)
      lbrr == WriteLbrr(ready, chans, frames)
      s == EachFrame(LAMBDA a, f : WriteSlot(a, f, picks[f + 1], chans, fec, packet), lbrr, frames)
  IN  [enc |-> s.enc,
       packet |-> [chans |-> chans, ms |-> ms, fs |-> fs, number |-> packet, items |-> s.items,
                   vad |-> [c \in {0, 1} |-> {f \in 0 .. frames - 1 :
                              /\ c < chans
                              /\ TypeOf(picks[f + 1], c) \notin {"inactive", "absent"}}],
                   lbrr |-> [c \in {0, 1} |-> c < chans /\ ready.ch[c].lbrr # {}]]]

(***************************************************************************)
(* The decoder.  A read is a record `r`: the decoder so far, the position  *)
(* in the packet's items, whether every read so far found what it expected *)
(* (`ok`), and the frames that went into a channel (`heard`).              *)
(***************************************************************************)
Concealed == 1                        \* prediction memory of a concealed frame

DecChannelFresh ==
  [n |-> 0, frames |-> 0, sub |-> 4, fs |-> 0, vad |-> {}, lbrr |-> {}, ec |-> EcFresh,
   type |-> "inactive", mem |-> 0, lost |-> FALSE]

DecFresh == [chans |-> 1, midOnly |-> FALSE, ch |-> [c \in {0, 1} |-> DecChannelFresh]]

\* silk_reset_decoder: the channel counts stay.
DecReset(dec) == [DecFresh EXCEPT !.chans = dec.chans]

DecSetFs(c, fs) ==
  IF c.fs = fs THEN c ELSE [c EXCEPT !.fs = fs, !.mem = 0, !.type = "inactive"]

Begun(c, newPacket) == IF newPacket THEN [c EXCEPT !.n = 0] ELSE c

\* What silk_decode does to the channels before it reads anything.
DecPrepared(dec, newPacket, chans, ms, fs) ==
  LET Inited(c) == IF chans > dec.chans THEN DecChannelFresh ELSE Begun(c, newPacket)
      first == Inited(dec.ch[0]).n = 0
      Sized(c) == IF first THEN [c EXCEPT !.frames = FramesPerPacket(ms), !.sub = Subframes(ms)]
                           ELSE c
  IN  [dec EXCEPT !.chans = chans,
         !.ch = [c \in {0, 1} |-> IF c < chans THEN DecSetFs(Sized(Inited(dec.ch[c])), fs)
                                                 ELSE dec.ch[c]]]

Coming(r, items) == IF r.pos <= Len(items) THEN items[r.pos].kind ELSE "end"
Take(r, items, kind) ==
  IF Coming(r, items) = kind THEN [r EXCEPT !.pos = @ + 1] ELSE [r EXCEPT !.ok = FALSE]

ReadFrame(r, items, c, flagged, coding) ==
  LET ch == r.dec.ch[c]
      item == items[r.pos]
      mine == Layout(coding, flagged, item.type, ch.ec, <<ch.sub, ch.fs>>)
  IN  IF ~r.ok \/ Coming(r, items) # "frame" THEN [r EXCEPT !.ok = FALSE]
      ELSE [r EXCEPT !.pos = @ + 1, !.ok = mine = item.layout /\ item.channel = c,
                     !.dec = With(r.dec, c, [ch EXCEPT !.ec = EcAfter(@, item.type, item.name)])]

\* LBRR flags of one channel: a set of frames, all of them when there is one.
ReadLbrrFlags(r, packet, c) ==
  LET only == r.dec.ch[c].frames = 1
      flags == IF ~packet.lbrr[c] THEN {} ELSE IF only THEN {0} ELSE packet.items[r.pos].set
  IN  IF packet.lbrr[c] /\ ~only /\ Coming(r, packet.items) # "lbrr flags"
        THEN [r EXCEPT !.ok = FALSE]
        ELSE [r EXCEPT !.pos = IF packet.lbrr[c] /\ ~only THEN @ + 1 ELSE @,
                       !.dec = With(r.dec, c, [r.dec.ch[c] EXCEPT !.lbrr = flags,
                                                                  !.vad = packet.vad[c]])]

\* A redundant copy that a regular decode passes over.
SkipCopy(r, packet, frame, c) ==
  LET lbrr == r.dec.ch[c].lbrr
      stereo == packet.chans = 2 /\ c = 0
      pred == IF stereo THEN Take(r, packet.items, "predictors") ELSE r
      only == IF stereo /\ frame \notin r.dec.ch[Side].lbrr
                THEN Take(pred, packet.items, "mid only") ELSE pred
  IN  IF ~r.ok \/ frame \notin lbrr THEN r
      ELSE ReadFrame(only, packet.items, c, TRUE, LbrrCoding(lbrr, frame))

\* decode_vad_and_lbrr, at the first frame of a packet.
ReadHeader(r, packet, flag) ==
  LET flags == EachChannel(LAMBDA a, c : IF a.ok THEN ReadLbrrFlags(a, packet, c) ELSE a,
                           r, packet.chans)
      Copies(acc, frame) ==
        EachChannel(LAMBDA a, c : SkipCopy(a, packet, frame, c), acc, packet.chans)
  IN  IF flag # "normal" THEN flags ELSE EachFrame(Copies, flags, FramesPerPacket(packet.ms))

SilentSide(side, flag, n) == IF flag = "normal" THEN n \notin side.vad ELSE n \notin side.lbrr

\* The predictors and the mid-only flag of this frame; `only` is the latter.
ReadStereo(r, packet, flag) ==
  LET n == r.dec.ch[0].n
      coded == flag = "normal" \/ (flag = "lbrr" /\ n \in r.dec.ch[0].lbrr)
      pred == Take(r, packet.items, "predictors")
      flagged == Take(pred, packet.items, "mid only")
  IN  IF r.dec.chans = 1 THEN [r |-> r, only |-> FALSE]
      ELSE IF ~r.ok \/ ~coded THEN [r |-> r, only |-> r.dec.midOnly]
      ELSE IF ~SilentSide(r.dec.ch[Side], flag, n) THEN [r |-> pred, only |-> FALSE]
      ELSE [r |-> flagged, only |-> flagged.ok /\ packet.items[pred.pos].set]

\* Mutant: copies are coded like the frames themselves.
DecCodingAlike(dec, flag, frame, c) == IF frame <= 0 THEN "independent" ELSE "conditional"

DecCoding(dec, flag, frame, c) ==
  IF frame <= 0 THEN "independent"
  ELSE IF flag = "lbrr" THEN LbrrCoding(dec.ch[c].lbrr, frame)
  ELSE IF c = Side /\ dec.midOnly THEN "independent, no LTP scaling"
  ELSE "conditional"

\* A frame that is not coded, and one that is: `read` is the reader past its item.
ConcealChannel(r, c) ==
  [r EXCEPT !.dec = With(@, c, [r.dec.ch[c] EXCEPT !.n = @ + 1, !.mem = Concealed, !.lost = TRUE])]

HearChannel(r, read, flag, c, item) ==
  LET ch == r.dec.ch[c]
  IN  [read EXCEPT !.dec = With(@, c, [read.dec.ch[c] EXCEPT !.n = @ + 1, !.mem = item.name,
                                          !.type = item.type, !.lost = FALSE]),
                   !.heard = @ \cup {[flag |-> flag, channel |-> c, frame |-> ch.n,
                                      name |-> item.name, before |-> ch.mem,
                                      meant |-> item.mem,
                                      fits |-> item.made = <<ch.sub, ch.fs>>]}]

\* silk_decode_frame on one channel: decode what is coded, conceal the rest.
DecodeChannel(r, packet, flag, c) ==
  LET ch == r.dec.ch[c]
      coded == flag = "normal" \/ (flag = "lbrr" /\ ch.n \in ch.lbrr)
      frame == r.dec.ch[0].n - c
      read == ReadFrame(r, packet.items, c, flag = "lbrr" \/ ch.n \in ch.vad,
                        DecCoding(r.dec, flag, frame, c))
  IN  IF ~r.ok THEN r
      ELSE IF ~coded THEN ConcealChannel(r, c)
      ELSE IF ~read.ok THEN read
      ELSE HearChannel(r, read, flag, c, packet.items[r.pos])

\* Whether the side channel is decoded, or concealed, in this frame.
HasSide(r, flag, chans, only) ==
  LET side == r.dec.ch[Side]
  IN  CASE flag = "normal" -> ~only
        [] flag = "loss"   -> ~r.dec.midOnly
        [] flag = "lbrr"   -> ~r.dec.midOnly \/ (chans = 2 /\ side.n \in side.lbrr)

\* A frame without a side channel.
PassSide(r) == [r EXCEPT !.dec = With(@, Side, [r.dec.ch[Side] EXCEPT !.n = @ + 1])]

\* One call of silk_decode; a lost frame has a packet without items.
Decoded(dec, flag, newPacket, packet, pos) ==
  LET ready == DecPrepared(dec, newPacket, packet.chans, packet.ms, packet.fs)
      r0 == [dec |-> ready, pos |-> pos, ok |-> TRUE, heard |-> {}]
      r1 == IF flag # "loss" /\ ready.ch[0].n = 0 THEN ReadHeader(r0, packet, flag) ELSE r0
      stereo == ReadStereo(r1, packet, flag)
      back == packet.chans = 2 /\ ~stereo.only /\ dec.midOnly
      side == [stereo.r.dec.ch[Side] EXCEPT !.mem = 0, !.type = "inactive"]
      r2 == IF back THEN [stereo.r EXCEPT !.dec = With(@, Side, side)] ELSE stereo.r
      mid == DecodeChannel(r2, packet, flag, 0)
      both == IF packet.chans = 1 \/ ~mid.ok THEN mid
              ELSE IF HasSide(r2, flag, packet.chans, stereo.only)
                THEN DecodeChannel(mid, packet, flag, Side)
              ELSE PassSide(mid)
  IN  IF flag = "loss" THEN both ELSE [both EXCEPT !.dec = [@ EXCEPT !.midOnly = stereo.only]]

-----------------------------------------------------------------------------
VARIABLES
  setup,      \* one of Setups
  enc,        \* the encoder's memory
  dec,        \* the decoder's memory
  packet,     \* the packet on its way or being decoded
  phase,      \* "idle", "sent", "decoding" or "misread"
  flag,       \* how the packet is being decoded: "normal" or "lbrr"
  pos,        \* position in its items
  calls,      \* calls of silk_decode made for it
  control,    \* what dec_control holds of the last packet; no channels: not SILK
  celt,       \* whether CELT packets went before the next SILK one
  gap,        \* whether the decoder missed anything since both last started over
  missing,    \* whether the packet before this one was lost and is not yet replaced
  heard,      \* frames the last decoder call put into its channels
  conceals    \* concealment calls so far

vars == <<setup, enc, dec, packet, phase, flag, pos, calls, control, celt, gap, missing, heard, conceals>>

NoPacket == [chans |-> 0, ms |-> 0, fs |-> 0, number |-> 0, items |-> <<>>,
             vad |-> [c \in {0, 1} |-> {}], lbrr |-> [c \in {0, 1} |-> FALSE]]

Start ==
  /\ enc = EncFresh /\ dec = DecFresh
  /\ packet = NoPacket
  /\ phase = "idle" /\ flag = "normal" /\ pos = 1 /\ calls = 0
  /\ control = [chans |-> 0, fs |-> 0]
  /\ celt = FALSE /\ gap = FALSE /\ missing = FALSE
  /\ heard = {} /\ conceals = 0

Init == setup \in DOMAIN Setups /\ Start

Fec == Setups[setup].fec

---------------------------------------------------------------------------
(* Encoder *)

\* What the analysis may find in a frame.  Speech that is strong enough for a
\* redundant copy is not inactive, and a side that is not coded has none.
Picks(chans) ==
  {p \in [mid: Types, side: (IF chans = 2 THEN Types ELSE {}) \cup {"absent"},
          strong: SUBSET Channels(chans)] :
     /\ Fec \/ p.strong = {}
     /\ \A c \in p.strong : TypeOf(p, c) \notin {"inactive", "absent"}}

Encode ==
  /\ phase = "idle"
  /\ packet.number < MaxPackets
  /\ \E chans \in Setups[setup].chans, ms \in Setups[setup].ms,
        fs \in Setups[setup].fs, heldMid \in BOOLEAN :
       /\ heldMid => (celt /\ chans = 2)
       /\ \E picks \in [1 .. FramesPerPacket(ms) -> Picks(chans)] :
            \E start \in {IF celt THEN Prefilled(enc, chans, fs, heldMid) ELSE enc} :
              \E done \in {Encoded(start, chans, ms, fs, picks, Fec, packet.number + 1)} :
                enc' = done.enc /\ packet' = done.packet
  /\ phase' = "sent" /\ celt' = FALSE /\ heard' = {} /\ pos' = 1 /\ calls' = 0
  /\ UNCHANGED <<setup, dec, flag, control, gap, missing, conceals>>

\* The signal is coded by CELT for a while; `received`: the decoder hears some
\* of it, and starts SILK over at the next SILK frame.
Interlude(received) ==
  /\ phase = "idle" /\ packet.number > 0 /\ ~celt
  /\ celt' = TRUE
  /\ dec' = IF received THEN DecReset(dec) ELSE dec
  /\ control' = IF received THEN [chans |-> 0, fs |-> 0] ELSE control
  /\ gap' = ~received
  /\ missing' = FALSE /\ heard' = {}
  /\ UNCHANGED <<setup, enc, packet, phase, flag, pos, calls, conceals>>

---------------------------------------------------------------------------
(* Network *)

Lose ==
  /\ phase = "sent"
  /\ phase' = "idle" /\ gap' = TRUE /\ missing' = TRUE
  /\ UNCHANGED <<setup, enc, dec, packet, flag, pos, calls, control, celt, heard, conceals>>

---------------------------------------------------------------------------
(* Receiver *)

\* The packet is decoded, or first the copies it carries of the lost one.
Receive ==
  /\ phase = "sent"
  /\ flag' \in IF missing THEN {"normal", "lbrr"} ELSE {"normal"}
  /\ phase' = "decoding" /\ pos' = 1 /\ calls' = 0 /\ heard' = {}
  /\ control' = [chans |-> packet.chans, fs |-> packet.fs]
  /\ UNCHANGED <<setup, enc, dec, packet, celt, gap, missing, conceals>>

\* One call of silk_decode for a frame of the packet.
DecodeFrame ==
  /\ phase = "decoding"
  /\ \E r \in {Decoded(dec, flag, calls = 0, packet, pos)} :
       /\ dec' = r.dec /\ heard' = r.heard /\ pos' = r.pos /\ calls' = calls + 1
       /\ LET last == calls + 1 = FramesPerPacket(packet.ms)
              rest == r.pos # Len(packet.items) + 1
          IN  /\ phase' = CASE ~r.ok \/ (last /\ flag = "normal" /\ rest) -> "misread"
                            [] r.ok /\ last /\ flag = "normal" /\ ~rest -> "idle"
                            [] r.ok /\ last /\ flag = "lbrr" -> "sent"
                            [] OTHER -> "decoding"
              /\ missing' = (missing /\ ~last)
  /\ UNCHANGED <<setup, enc, packet, flag, control, celt, gap, conceals>>

\* silk_decode makes whole frames of audio: for less than 10 ms it fails, but its
\* memory has moved on, and the caller plays zeros.
PayloadMs(ms) == IF ms < 10 THEN 10 ELSE ms

Conceal(ms) ==
  /\ phase = "idle" /\ control.chans > 0
  /\ conceals < MaxConceals
  /\ \E r \in {Decoded(dec, "loss", TRUE,
                       [NoPacket EXCEPT !.chans = control.chans, !.fs = control.fs,
                                        !.ms = PayloadMs(ms)], 1)} :
       dec' = r.dec
  /\ heard' = {}
  /\ gap' = TRUE
  /\ conceals' = conceals + 1
  /\ UNCHANGED <<setup, enc, packet, phase, flag, pos, calls, control, celt, missing>>

\* OPUS_RESET_STATE, or a receiver that joins late.
ResetReceiver ==
  /\ phase = "idle" /\ packet.number > 0 /\ dec # DecFresh
  /\ dec' = DecFresh
  /\ control' = [chans |-> 0, fs |-> 0]
  /\ gap' = TRUE
  /\ missing' = FALSE
  /\ heard' = {}
  /\ UNCHANGED <<setup, enc, packet, phase, flag, pos, calls, celt, conceals>>

Next ==
  \/ Encode
  \/ \E received \in BOOLEAN : Interlude(received)
  \/ Lose
  \/ Receive
  \/ DecodeFrame
  \/ \E ms \in {5, 10, 20} : Conceal(ms)
  \/ ResetReceiver

Spec == Init /\ [][Next]_vars

---------------------------------------------------------------------------
(* Properties *)

TypeOK ==
  /\ phase \in {"idle", "sent", "decoding", "misread"} /\ flag \in {"normal", "lbrr"}
  /\ \A c \in {0, 1} : /\ dec.ch[c].n \in 0 .. 3 /\ dec.ch[c].frames \in 0 .. 3
                       /\ dec.ch[c].vad \cup dec.ch[c].lbrr \subseteq 0 .. 2
                       /\ enc.ch[c].lbrr \subseteq 0 .. 2
  /\ pos \in 1 .. Len(packet.items) + 1

\* Whatever was lost before and however the receiver filled the hole, the
\* decoder finds in every packet what the encoder put there: the same items in
\* the same order, laid out the same way, predicted from the same lag, and all of
\* them, for what follows SILK's part is taken for the redundancy flag or for CELT's
\* part.  Both derive this from their own memory (silk_encode's conditional coding,
\* conditional_coding_for_channel in the decoder).
InStep == phase # "misread"

\* While nothing was missed, each channel is decoded from the prediction memory
\* it was encoded with, through changes of rate, duration and channel count,
\* mid-only stretches and restarts.
MemoryAgrees == gap \/ \A h \in heard : h.before = h.meant

\* The redundant copies a receiver decodes in place of a lost packet are copies
\* of that packet's frames, each in its own place: copies from before a restart
\* or of frames of another length are never sent.
CopiesOfTheLostPacket ==
  \A h \in heard : h.flag = "lbrr" =>
    h.name = NameOf(packet.number - 1, h.frame, h.channel) /\ h.fits

\* The two channels of a stereo decoder stay together: frame counter, frame
\* count, frame length and rate.  silk_decode sizes both from the first one.
ChannelsTogether ==
  dec.chans = 2 => \A f \in {"n", "frames", "sub", "fs"} : dec.ch[0][f] = dec.ch[1][f]

\* Decoder and encoder predict from the same, and the two channels of a decoder go
\* through it together.
MemoriesAgree == TypeOK /\ MemoryAgrees /\ ChannelsTogether
===========================================================================
