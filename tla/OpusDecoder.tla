----------------------------- MODULE OpusDecoder -----------------------------
(***************************************************************************)
(* The top-level decoder of opus_decoder.rs: decode_native_with and the    *)
(* decode_frame it calls, which decide for every frame which of SILK and   *)
(* CELT runs, from which memory, and how a lost or truncated packet is     *)
(* concealed.                                                              *)
(*                                                                         *)
(* Durations are counted in units of 2.5 ms (f2_5 in the code); the API    *)
(* sample rate only scales them.  Bandwidth, band limits and stream        *)
(* channels do not influence this control flow and are left out, as is the *)
(* audio itself: what is kept of it is the memory each coder predicts from *)
(* (its lineage), because playing audio predicted from a stale memory is   *)
(* what the mode switches, the resets and the redundancy exist to prevent. *)
(***************************************************************************)
EXTENDS Integers

CONSTANTS
    Requests,    \* frame_size arguments callers use, in units of 2.5 ms
    MaxFrames    \* bound on the frames of one packet (48 in the format)

ASSUME RequestsAssumption == Requests \subseteq Nat \ {0}
ASSUME MaxFramesAssumption == MaxFrames \in 1..48

F2_5 == 1
F5   == 2
F10  == 4
F20  == 8
F40  == 16
F60  == 24
MaxPacket == 48    \* 120 ms

Min(a, b) == IF a <= b THEN a ELSE b

Modes == {"silk", "hybrid", "celt"}

\* Frame durations a TOC byte can announce in each mode.
FrameSizes(m) ==
    CASE m = "celt"   -> {F2_5, F5, F10, F20}
      [] m = "hybrid" -> {F10, F20}
      [] m = "silk"   -> {F10, F20, F40, F60}

Packets ==
    {p \in [mode : Modes, size : 1..F60, frames : 1..MaxFrames] :
        p.size \in FrameSizes(p.mode) /\ p.frames * p.size <= MaxPacket}

NoPacket == [mode |-> "none", size |-> 0, frames |-> 0]

(***************************************************************************)
(* What the bits of one frame can say.  "lost" is a frame of at most one   *)
(* byte (DTX), "overrun" a redundancy size larger than the frame,          *)
(* "discarded" one that overlaps what was already read.                    *)
(***************************************************************************)
Payloads(m) ==
    CASE m = "celt"   -> {"lost", "plain"}
      [] m = "silk"   -> {"lost", "plain", "celt_to_silk", "silk_to_celt"}
      [] m = "hybrid" -> {"lost", "plain", "celt_to_silk", "silk_to_celt",
                          "overrun", "discarded"}

(***************************************************************************)
(* The memory a coder predicts the next frame from: "reset" after an       *)
(* initialisation, "full" or "hybrid" when CELT last ran on all bands or   *)
(* on those above SILK, "live" when SILK has just run, and "stale" once    *)
(* audio was output that this memory has not seen.                         *)
(***************************************************************************)
CeltMemory == {"reset", "full", "hybrid", "stale"}
SilkMemory == {"reset", "live", "stale"}

CeltAfter(m) == IF m = "hybrid" THEN "hybrid" ELSE "full"
Missed(mem)  == IF mem = "reset" THEN "reset" ELSE "stale"

Decoder == [mode : Modes \cup {"none"},
            frameSize : 1..F60,
            prevMode : Modes \cup {"none"},
            prevRedundancy : BOOLEAN,
            lastPacketDuration : Nat,
            celt : CeltMemory,
            silk : SilkMemory]

(***************************************************************************)
(* What one decode_frame call put in the caller's pcm: the memories the    *)
(* audio was predicted from ("unused" when that coder was not heard) and   *)
(* where the audio before a mode switch was faded from.                    *)
(***************************************************************************)
Heard == [celt : CeltMemory \cup {"unused"},
          silk : SilkMemory \cup {"unused"},
          redundant : CeltMemory \cup {"unused"},
          fade : {"unused", "silence", "audio"},
          mode : Modes \cup {"none"},
          hardSwitch : BOOLEAN]

Nothing == [celt |-> "unused", silk |-> "unused", redundant |-> "unused",
            fade |-> "unused", mode |-> "none", hardSwitch |-> FALSE]

VARIABLES
    dec,     \* struct OpusDecoder
    call,    \* the locals of the decode_native_with call in progress
    heard    \* history: what the last decode_frame step put in the pcm

vars == <<dec, call, heard>>

(***************************************************************************)
(* decode_frame(None, 0, pcm, n), n at most 20 ms: concealment of one      *)
(* frame.  Only the memories of the coders that run are touched; Conceal   *)
(* below accounts for the one that does not.                               *)
(***************************************************************************)
ConcealMode(d) == IF d.prevRedundancy THEN "celt" ELSE d.prevMode

ConcealSize(m, n) ==
    CASE n \in (F10 + 1)..(F20 - 1)               -> F10
      [] m # "celt" /\ n \in (F5 + 1)..(F10 - 1) -> F5
      [] OTHER                                    -> n

\* CELT rejects a duration that is not one of its frame sizes.
Concealable(d, n) ==
    ConcealMode(d) = "celt" => ConcealSize("celt", n) \in FrameSizes("celt")

AfterConceal(d, m) ==
    [d EXCEPT !.prevMode = m,
              !.prevRedundancy = FALSE,
              !.celt = IF m = "silk" THEN @ ELSE CeltAfter(m),
              !.silk = IF m = "celt" THEN @ ELSE "live"]

\* silk_decode refuses the slice of a frame shorter than 10 ms, and the
\* caller replaces the audio by zeros.
ConcealedSource(m, n) == IF m = "silk" /\ n < F10 THEN "silence" ELSE "audio"

\* Audio of mode m was output: the coder that did not run has missed it.
Lapse(d, m) ==
    [d EXCEPT !.celt = IF m = "silk" THEN Missed(@) ELSE @,
              !.silk = IF m = "celt" THEN Missed(@) ELSE @]

HeardConcealed(d, m) ==
    [Nothing EXCEPT !.celt = IF m = "silk" THEN "unused" ELSE d.celt,
                    !.silk = IF m = "celt" THEN "unused" ELSE d.silk,
                    !.mode = m]

OkResult(d, n, h) == [ok |-> TRUE, dec |-> d, size |-> n, heard |-> h,
                     error |-> "none"]
ErrResult(e, d)   == [ok |-> FALSE, dec |-> d, size |-> 0, heard |-> Nothing,
                     error |-> e]

(***************************************************************************)
(* decode_frame(None, 0, pcm, n): n is first cut to the duration of the    *)
(* last packet's frames.  Above 20 ms it is concealed in chunks of 20 ms   *)
(* and a rest, and a chunk that comes back shorter than asked for fails    *)
(* the call.  A chunk leaves the state as the chunk before it did, so the  *)
(* two or three iterations come down to one chunk and the rest.            *)
(***************************************************************************)
Conceal(d, n) ==
    LET m    == ConcealMode(d)
        cut  == Min(Min(n, MaxPacket), d.frameSize)
        part == IF cut <= F20 THEN cut ELSE cut % F20
        next == Lapse(AfterConceal(d, m), m)
        left == IF cut <= F20 THEN d ELSE next
    IN  CASE m = "none" -> OkResult(d, cut, Nothing)
          [] m # "none" /\ part # 0 /\ ~Concealable(d, part) ->
               ErrResult("BadArgument", left)
          [] m # "none" /\ cut > F20 /\ ConcealSize(m, part) # part ->
               ErrResult("InternalError", next)
          [] OTHER ->
               OkResult(next, IF cut <= F20 THEN ConcealSize(m, cut) ELSE cut,
                        HeardConcealed(d, m))

(***************************************************************************)
(* decode_frame on the bits of a frame of the packet whose header is in d. *)
(***************************************************************************)
IsCelt(m) == m = "celt"

\* A change between CELT-only and the modes with SILK since the last frame.
Switches(d) == d.prevMode # "none" /\ (IsCelt(d.mode) # IsCelt(d.prevMode))

\* Mutant: the redundancy flag survives the sanity check that discards it.
RedundantThoughDiscarded(bits) ==
    bits \in {"celt_to_silk", "silk_to_celt", "discarded"}

Redundant(bits) == bits \in {"celt_to_silk", "silk_to_celt"}

\* `transition': the switch is hidden by a fade from concealed audio.  A
\* redundant frame in this packet, or in the one before a switch to CELT,
\* takes the place of the fade.
Fades(d, bits) ==
    /\ Switches(d)
    /\ ~Redundant(bits)
    /\ IsCelt(d.mode) => ~d.prevRedundancy

\* The decoder once the audio to fade from has been concealed.  The call
\* precedes CELT and follows SILK, whose memory it leaves alone in that case.
Faded(d, bits) ==
    IF Fades(d, bits) THEN AfterConceal(d, ConcealMode(d)) ELSE d

SilkRestarts(d) == ~IsCelt(d.mode) /\ IsCelt(d.prevMode)

\* A redundant frame at the start of this one continues the CELT memory.
AfterLeadingRedundancy(mem, bits) ==
    IF bits = "celt_to_silk" THEN "full" ELSE mem

\* Mutant: the leading redundant frame is played whatever came before.
PlaysAnyRedundancy(d, bits) == bits = "celt_to_silk"

\* The leading redundant frame is only played if CELT was running before.
PlaysLeadingRedundancy(d, bits) ==
    bits = "celt_to_silk" /\ (d.prevMode # "silk" \/ d.prevRedundancy)

\* Two and a half milliseconds of CELT silence let hybrid's upper bands ring out.
FlushesHybrid(d, bits) ==
    /\ d.mode = "silk"
    /\ d.prevMode = "hybrid"
    /\ ~(bits = "celt_to_silk" /\ d.prevRedundancy)

\* Mutant: the memory a redundant frame prepared is thrown away.
CeltAlwaysRestarts(d) == d.mode # "silk" /\ d.prevMode \notin {"none", d.mode}

\* Mutant: leaving hybrid for CELT-only is not taken for a change of mode.
CeltRestartsAfterSilk(d) ==
    d.mode # "silk" /\ d.prevMode = "silk" /\ ~d.prevRedundancy

CeltRestarts(d) ==
    /\ d.mode # "silk"
    /\ d.prevMode \notin {"none", d.mode}
    /\ ~d.prevRedundancy

\* The memory CELT decodes the frame itself from.
CeltSource(d, bits) ==
    IF CeltRestarts(Faded(d, bits)) THEN "reset"
    ELSE AfterLeadingRedundancy(Faded(d, bits).celt, bits)

AfterDecode(d, bits) ==
    [d EXCEPT
        !.prevMode = d.mode,
        !.prevRedundancy = (bits = "silk_to_celt"),
        !.celt = CASE bits = "silk_to_celt" -> "full"
                   [] bits # "silk_to_celt" /\ d.mode = "silk" ->
                        Missed(AfterLeadingRedundancy(Faded(d, bits).celt, bits))
                   [] OTHER -> CeltAfter(d.mode),
        !.silk = IF IsCelt(d.mode) THEN Missed(@) ELSE "live"]

HeardDecoded(d, bits) ==
    [celt      |-> IF d.mode # "silk" \/ FlushesHybrid(d, bits)
                   THEN CeltSource(d, bits) ELSE "unused",
     silk      |-> CASE IsCelt(d.mode)  -> "unused"
                     [] SilkRestarts(d) -> "reset"
                     [] OTHER           -> d.silk,
     redundant |-> IF PlaysLeadingRedundancy(d, bits) THEN d.celt ELSE "unused",
     fade      |-> IF Fades(d, bits)
                   THEN ConcealedSource(ConcealMode(d), Min(d.frameSize, F5))
                   ELSE "unused",
     mode      |-> d.mode,
     hardSwitch |-> /\ Switches(d)
                    /\ ~Fades(d, bits)
                    /\ ~PlaysLeadingRedundancy(d, bits)
                    /\ ~(IsCelt(d.mode) /\ d.prevRedundancy)]

\* decode_frame with n units of pcm left.  A redundancy size beyond the frame
\* fails it after SILK has run; a lost frame is concealed.
DecodeFrame(d, bits, n) ==
    CASE bits = "lost"    -> Conceal(d, n)
      [] bits = "overrun" -> ErrResult("BadArgument", [d EXCEPT !.silk = "live"])
      [] OTHER -> OkResult(AfterDecode(d, bits), d.frameSize, HeardDecoded(d, bits))

(***************************************************************************)
(* decode_native_with: its arguments and its place in its loops.  `kind'   *)
(* is what the call does, `want' the units it promised, `done' those it    *)
(* has written, `frames' the frames of its packet still to decode, `saved' *)
(* the duration of the last packet when it began, `of' and `result' what   *)
(* the last call was and how it ended.                                     *)
(***************************************************************************)
Kinds == {"idle", "conceal", "decode", "recover"}

Calls == [kind : Kinds,
          want : Nat,
          done : Nat,
          frames : Nat,
          saved : Nat,
          packet : Packets \cup {NoPacket},
          result : {"none", "ok", "BadArgument", "InternalError"},
          of : Kinds]

Init ==
    /\ dec = [mode |-> "none", frameSize |-> F2_5, prevMode |-> "none",
              prevRedundancy |-> FALSE, lastPacketDuration |-> 0,
              celt |-> "reset", silk |-> "reset"]
    /\ call = [kind |-> "idle", want |-> 0, done |-> 0, frames |-> 0,
               saved |-> 0, packet |-> NoPacket, result |-> "none", of |-> "idle"]
    /\ heard = Nothing

Enter(kind, want, packet) ==
    /\ call.kind = "idle"
    /\ call' = [kind |-> kind, want |-> want, done |-> 0, frames |-> packet.frames,
                saved |-> dec.lastPacketDuration, packet |-> packet,
                result |-> "none", of |-> kind]
    /\ heard' = Nothing

Leave(result, done) ==
    call' = [call EXCEPT !.kind = "idle", !.done = done, !.packet = NoPacket,
                         !.result = result]

\* Mutant: the duration is reported before the packet is decoded.
WithEarlyDuration(d, p) ==
    [d EXCEPT !.mode = p.mode, !.frameSize = p.size,
              !.lastPacketDuration = p.frames * p.size]

WithHeader(d, p) == [d EXCEPT !.mode = p.mode, !.frameSize = p.size]

\* No packet: conceal n units.
CallConceal(n) ==
    /\ Enter("conceal", n, NoPacket)
    /\ UNCHANGED dec

\* A packet, no FEC: a buffer too small for it is refused before anything changes.
CallDecode(p) ==
    /\ \E n \in Requests : p.frames * p.size <= n
    /\ Enter("decode", p.frames * p.size, p)
    /\ dec' = WithHeader(dec, p)

\* FEC: recover the n units before packet p.  Without SILK on both sides, or
\* with less room than a frame of p, they are concealed as if p were absent.
CallRecover(p, n) ==
    /\ IF n < p.size \/ IsCelt(p.mode) \/ IsCelt(dec.mode)
       THEN Enter("conceal", n, NoPacket)
       ELSE Enter("recover", n, p)
    /\ UNCHANGED dec

\* Units concealed before a call is done with concealing.
ConcealTarget ==
    CASE call.kind = "conceal" -> call.want
      [] call.kind = "recover" -> call.want - call.packet.size
      [] OTHER                 -> 0

\* One turn of the concealment loop, in a call of its own or in the leading
\* part of a recovery.  A turn that writes nothing is refused.
ConcealStep ==
    LET r    == Conceal(dec, ConcealTarget - call.done)
        done == call.done + r.size
    IN  /\ call.done < ConcealTarget
        /\ heard' = r.heard
        /\ \/ /\ ~r.ok \/ r.size = 0
              /\ dec' = r.dec
              /\ Leave(IF r.ok THEN "InternalError" ELSE r.error, call.done)
           \/ /\ r.ok /\ r.size # 0
              /\ done < ConcealTarget
              /\ dec' = r.dec
              /\ call' = [call EXCEPT !.done = done]
           \/ /\ r.ok
              /\ done >= ConcealTarget
              /\ dec' = [r.dec EXCEPT !.lastPacketDuration = done]
              /\ IF call.kind = "conceal"
                 THEN Leave("ok", done)
                 ELSE call' = [call EXCEPT !.done = done]

\* One frame of a packet.
DecodeStep ==
    /\ call.kind = "decode"
    /\ \E bits \in Payloads(dec.mode) :
          LET r    == DecodeFrame(dec, bits, call.want - call.done)
              done == call.done + r.size
          IN  /\ heard' = r.heard
              /\ \/ /\ ~r.ok
                    /\ dec' = r.dec
                    /\ Leave(r.error, call.done)
                 \/ /\ r.ok
                    /\ call.frames > 1
                    /\ dec' = r.dec
                    /\ call' = [call EXCEPT !.done = done, !.frames = @ - 1]
                 \/ /\ r.ok
                    /\ call.frames = 1
                    /\ dec' = [r.dec EXCEPT !.lastPacketDuration = done]
                    /\ Leave("ok", done)

\* The frame recovered from the redundant copy in packet p.  SILK reads it and
\* no redundancy; hybrid's CELT half is concealed.
RecoverStep ==
    /\ call.kind = "recover"
    /\ call.done = ConcealTarget
    /\ \E bits \in {"lost", "plain"} :
          LET r == DecodeFrame(WithHeader(dec, call.packet), bits, call.packet.size)
          IN  /\ r.ok
              /\ heard' = r.heard
              /\ dec' = [r.dec EXCEPT !.lastPacketDuration = call.want]
              /\ Leave("ok", call.done + r.size)

\* OPUS_RESET_STATE.
ResetState ==
    /\ call.kind = "idle"
    /\ dec' = [mode |-> "none", frameSize |-> F2_5, prevMode |-> "none",
               prevRedundancy |-> FALSE, lastPacketDuration |-> 0,
               celt |-> "reset", silk |-> "reset"]
    /\ heard' = Nothing
    /\ call' = [call EXCEPT !.result = "none"]

Call ==
    \/ \E n \in Requests : CallConceal(n)
    \/ \E p \in Packets : CallDecode(p)
    \/ \E p \in Packets, n \in Requests : CallRecover(p, n)

Step == ConcealStep \/ DecodeStep \/ RecoverStep

Next == Call \/ Step \/ ResetState

\* A call, once made, runs until it returns; nobody has to make another.
Spec == Init /\ [][Next]_vars /\ WF_vars(Step)

(***************************************************************************)
(* The inductive invariant.                                                *)
(***************************************************************************)
\* How the memories and the last redundancy follow from the mode of the last
\* frame: what decode_frame relies on when it decides to reset, to continue
\* or to play a redundant frame.
Lineage(d) ==
    /\ d.mode # "none" => d.frameSize \in FrameSizes(d.mode)
    /\ d.frameSize \in {F2_5, F5, F10, F20, F40, F60}
    /\ CASE d.prevMode = "none"   -> d.celt = "reset" /\ d.silk # "stale"
         [] d.prevMode = "celt"   -> d.celt = "full"
         [] d.prevMode = "hybrid" -> d.celt \in {"hybrid", "full"} /\ d.silk = "live"
         [] d.prevMode = "silk"   -> d.celt # "hybrid" /\ d.silk = "live"
    /\ d.prevRedundancy => d.celt = "full" /\ d.prevMode \in {"silk", "hybrid"}
    /\ d.prevMode = "silk" /\ ~d.prevRedundancy => d.celt \in {"reset", "stale"}

\* Where a call in progress stands in its loops.
CallShape ==
    /\ call.kind = "idle" => call.packet = NoPacket
    /\ call.kind = "conceal" => call.done < call.want
    /\ call.kind = "recover" =>
         /\ call.packet \in Packets
         /\ call.packet.mode # "celt"
         /\ call.done + call.packet.size <= call.want
    /\ call.kind = "decode" =>
         /\ call.packet \in Packets
         /\ dec.mode = call.packet.mode
         /\ dec.frameSize = call.packet.size
         /\ call.frames > 0
         /\ call.want = call.done + call.frames * call.packet.size

(***************************************************************************)
(* Correctness.                                                            *)
(***************************************************************************)
\* Every field of the decoder and of the call in progress keeps its type.
TypeOK ==
    /\ dec \in Decoder
    /\ call \in Calls
    /\ heard \in Heard

\* Between any two frames the memories, the redundancy flag and the mode of the
\* last frame agree, and a call in progress is within its bounds.
Inductive == TypeOK /\ Lineage(dec) /\ CallShape

\* No audio is predicted from a memory that missed audio already output: the
\* resets of decode_frame (silk_reset_decoder, CELT's ResetState) and the
\* redundant frames cover every order of modes, losses and failed packets.
NoStaleAudio ==
    "stale" \notin {heard.celt, heard.silk, heard.redundant}

\* CELT-only audio never continues from a hybrid memory, in which the bands
\* below SILK's limit were not coded, in decode_frame's choice of when to reset.
NoMissingBands ==
    heard.mode = "celt" => heard.celt \in {"reset", "full"}

\* A switch between CELT-only and SILK that decode_frame does not hide by a
\* fade or a redundant frame is one whose frame has spent its redundancy on
\* the next switch.
SwitchesHidden ==
    heard.hardSwitch => dec.prevRedundancy

\* A call of decode_native_with that succeeds has written exactly the units it
\* promised, whatever the frames in it were, and reports them as the duration
\* of the last packet (the debug_asserts on pcm_count and ret).
ExactDelivery ==
    call.kind = "idle" /\ call.result = "ok" =>
        /\ call.done = call.want
        /\ dec.lastPacketDuration = call.want

\* The CELT memory a redundant frame prepared at the end of a frame is the one
\* the CELT half of the next frame continues from, even if that one is lost.
RedundancyCarriesOver ==
    [][dec.prevRedundancy /\ heard'.mode \in {"celt", "hybrid"}
         => heard'.celt = "full"]_vars

\* The decoder keeps the promise of DecodeContract, and every call returns: each
\* decode_frame call of the loops of decode_native_with writes something.
Promise ==
    INSTANCE DecodeContract WITH
        want     <- IF call.kind = "idle" THEN 0 ELSE call.want,
        got      <- call.done,
        answer   <- IF call.result \in {"none", "ok"} THEN call.result
                    ELSE "error",
        duration <- IF call.kind = "idle" THEN dec.lastPacketDuration
                    ELSE call.saved

KeepsPromise == Promise!Contract

(***************************************************************************)
(* What comments, tests and assertions of the repository say and the code  *)
(* does not do.                                                            *)
(***************************************************************************)
\* Concealing any multiple of 2.5 ms does not fail inside the decoder.
ConcealmentIsConsistent == call.result # "InternalError"

===============================================================================
