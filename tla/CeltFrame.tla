------------------------------ MODULE CeltFrame ------------------------------
(***************************************************************************)
(* One CELT frame from the encoder to the decoder.  Hardly any field of it *)
(* announces itself: whether the next one is there depends on how much of  *)
(* the packet is used, and each end computes that from its own position    *)
(* and from the size of the packet.  But the encoder decides about the     *)
(* fields of the header while the packet still has its full size, and cuts *)
(* it to the variable rate afterwards; the decoder knows only the final    *)
(* size.                                                                   *)
(*                                                                         *)
(* A field on the tape is its kind, its value and its cost in eighths of a *)
(* bit; positions are counted in eighths too.  What the values mean for    *)
(* the sound is left out, and how the bits are divided among the bands is  *)
(* an arbitrary division of the same bits (CeltAllocating shows that both  *)
(* ends compute the same one from the same inputs).                        *)
(***************************************************************************)
EXTENDS CeltAllocating

CONSTANTS
  Configs,                    \* what the frame is: see ConfigsAssumption
  Sizes(_),                   \* bytes the packet of a configuration may have at first
  CoarseCosts,                \* eighths a band's energy may cost
  MaxBoosts                   \* bound: steps of boost of one band

(* start, end: the bands; lm: the frame's size; before: the position where *)
(* the frame begins, 8 unless SILK has written into the packet before; lfe:*)
(* the frame is of the low frequency channel.                              *)
ASSUME ConfigsAssumption ==
  /\ \A c \in Configs :
       /\ c.start \in {0, 17} /\ c.end \in 1..21 /\ c.start < c.end
       /\ c.channels \in 1..2 /\ c.lm \in 0..3 /\ c.vbr \in BOOLEAN /\ c.lfe \in BOOLEAN
       /\ c.before \in Nat /\ c.before >= 8
       /\ Sizes(c) \subseteq Nat \ {0}
  /\ CoarseCosts \subseteq Nat /\ MaxBoosts \in Nat

VARIABLES
  cfg, size,                  \* nb_compressed_bytes
  tape,                       \* the fields written
  tell,                       \* the encoder's position
  stage,
  e,                          \* what the encoder has decided so far
  d                           \* what the decoder has read

vars == <<cfg, size, tape, tell, stage, e, d>>

Hybrid(c) == c.start # 0
Span(c) == c.start..(c.end - 1)

(* ec_tell: whole bits, of a position in eighths.                          *)
Bits(t) == (t + 7) \div 8

(* A flag that is 1 with probability 2^-logp: 1 costs logp bits, 0 next to *)
(* nothing.                                                                *)
FlagCost(logp, v) ==
  IF v = 1 \/ logp = 1 THEN 8 * logp
  ELSE IF logp = 2 THEN 4 ELSE IF logp = 3 THEN 2 ELSE 1
Flag(kind, logp, v) == [kind |-> kind, v |-> v, cost |-> FlagCost(logp, v)]
Field(kind, v, cost) == [kind |-> kind, v |-> v, cost |-> cost]

Write(x) == /\ tape' = Append(tape, x)
            /\ tell' = tell + x.cost
Skipped == UNCHANGED <<tape, tell>>
Budget == 8 * size

Init ==
  /\ cfg \in Configs /\ size \in Sizes(cfg)
  /\ tape = << >> /\ tell = cfg.before
  /\ stage = "silence"
  /\ e = [silence |-> FALSE]
  /\ d = << >>

(***************************************************************************)
(* The encoder: celt_encode_with_ec.                                       *)
(***************************************************************************)
(* Only a frame that begins the packet can say that it is silent.  A silent*)
(* one has two bytes, if the rate may vary, and counts as full at once.    *)
EncodeSilence ==
  /\ stage = "silence"
  /\ IF Bits(tell) = 1
     THEN \E silent \in BOOLEAN :
            LET n == IF silent /\ cfg.vbr THEN Least(size, 2) ELSE size
                x == Flag("silence", 15, IF silent THEN 1 ELSE 0)
                at == tell + x.cost
            IN /\ size' = n
               /\ tape' = Append(tape, x)
               /\ tell' = IF silent THEN at + 8 * (8 * n - Bits(at)) ELSE at
               /\ e' = [silence |-> silent, tell |-> IF silent THEN 8 * n ELSE 1]
     ELSE /\ e' = [silence |-> FALSE, tell |-> Bits(tell)]
          /\ UNCHANGED <<size, tape, tell>>
  /\ stage' = "prefilter"
  /\ UNCHANGED <<cfg, d>>

(* The position that the code looks at here is the one before the silence  *)
(* flag.                                                                   *)
PrefilterEnabled ==
  /\ size > (IF cfg.lfe THEN 3 ELSE 12 * cfg.channels)
  /\ ~Hybrid(cfg) /\ ~e.silence
  /\ e.tell + 16 <= Budget

EncodePrefilter ==
  /\ stage = "prefilter"
  /\ \/ /\ PrefilterEnabled
        /\ \E pitch \in {77, 117} :
             /\ tape' = tape \o <<Flag("prefilter", 1, 1), Field("pitch", pitch, pitch),
                                  Field("tapset", 1, 16)>>
             /\ tell' = tell + 8 + pitch + 16
     \/ IF ~Hybrid(cfg) /\ e.tell + 16 <= Budget
        THEN Write(Flag("prefilter", 1, 0)) ELSE Skipped
  /\ stage' = "transient"
  /\ UNCHANGED <<cfg, size, e, d>>

EncodeTransient ==
  /\ stage = "transient"
  /\ IF cfg.lm > 0 /\ Bits(tell) + 3 <= Budget
     THEN \E v \in {0, 1} : /\ Write(Flag("transient", 3, v))
                            /\ e' = [transient |-> v]
     ELSE Skipped /\ e' = [transient |-> 0]
  /\ stage' = "intra"
  /\ UNCHANGED <<cfg, size, d>>

(* quant_coarse_energy: whether the energies are predicted from the last   *)
(* frame's.                                                                *)
EncodeIntra ==
  /\ stage = "intra"
  /\ IF Bits(tell) + 3 <= Budget
     THEN \E v \in {0, 1} : Write(Flag("intra", 3, v))
     ELSE Skipped
  /\ e' = [transient |-> e.transient, band |-> cfg.start, channel |-> 0]
  /\ stage' = "coarse"
  /\ UNCHANGED <<cfg, size, d>>

(* A band's energy in one of three codes, or in none, by what is left.     *)
CoarseCode(left) ==
  IF left >= 15 THEN "laplace" ELSE IF left >= 2 THEN "small"
  ELSE IF left >= 1 THEN "sign" ELSE "none"

NextChannel(r) ==
  IF r.channel + 1 < cfg.channels THEN [r EXCEPT !.channel = @ + 1]
  ELSE [r EXCEPT !.channel = 0, !.band = @ + 1]

EncodeCoarse ==
  /\ stage = "coarse" /\ e.band < cfg.end
  /\ LET code == CoarseCode(Budget - Bits(tell))
     IN \/ /\ code = "laplace"
           /\ \E c \in CoarseCosts : Write(Field("laplace", c, c))
        \/ /\ code = "small"
           /\ \E c \in {8, 16} : Write(Field("small", c, c))
        \/ /\ code = "sign"
           /\ \E v \in {0, 1} : Write(Flag("sign", 1, v))
        \/ /\ code = "none"
           /\ Skipped
  /\ e' = NextChannel(e)
  /\ UNCHANGED <<cfg, size, stage, d>>

(* tf_encode: one bit is kept for the choice of the table.                 *)
TfReserved(c, transient, at, budget) ==
  c.lm > 0 /\ Bits(at) + (IF transient = 1 THEN 2 ELSE 4) < budget
TfLogp(transient, first) ==
  IF transient = 1 THEN IF first THEN 2 ELSE 4 ELSE IF first THEN 4 ELSE 5

BeginTf ==
  /\ stage = "coarse" /\ e.band = cfg.end
  /\ e' = [transient |-> e.transient, band |-> cfg.start, current |-> 0, changed |-> 0,
           reserved |-> TfReserved(cfg, e.transient, tell, Budget)]
  /\ stage' = "tf"
  /\ UNCHANGED <<cfg, size, tape, tell, d>>

TfBudget(reserved, budget) == IF reserved THEN budget - 1 ELSE budget

(* Bound: only the first flag may tell of a change.                        *)
EncodeTf ==
  /\ stage = "tf" /\ e.band < cfg.end
  /\ LET logp == TfLogp(e.transient, e.band = cfg.start)
     IN IF Bits(tell) + logp <= TfBudget(e.reserved, Budget)
        THEN \E flip \in IF e.band = cfg.start THEN {0, 1} ELSE {0} :
               LET res == (e.current + flip) % 2
               IN /\ Write(Flag("tf", logp, flip))
                  /\ e' = [e EXCEPT !.band = @ + 1, !.current = res,
                                    !.changed = Most(@, res)]
        ELSE Skipped /\ e' = [e EXCEPT !.band = @ + 1]
  /\ UNCHANGED <<cfg, size, stage, d>>

(* Whether the two tables differ (TF_SELECT_TABLE).                        *)
TablesDiffer(lm, transient, changed) ==
  \/ transient = 1 /\ lm >= 2
  \/ changed = 1 /\ lm >= 1

EncodeTfSelect ==
  /\ stage = "tf" /\ e.band = cfg.end
  /\ IF e.reserved /\ TablesDiffer(cfg.lm, e.transient, e.changed)
     THEN Write(Flag("select", 1, 1)) ELSE Skipped
  /\ stage' = "spread"
  /\ UNCHANGED <<cfg, size, e, d>>

EncodeSpread ==
  /\ stage = "spread"
  /\ IF Bits(tell) + 4 <= Budget
     THEN \E c \in {5, 32} : Write(Field("spread", c, c)) ELSE Skipped
  /\ e' = [transient |-> e.transient, band |-> cfg.start, logp |-> 6, loop |-> 6,
           boost |-> 0, boosts |-> << >>, total |-> 0]
  /\ stage' = "boost"
  /\ UNCHANGED <<cfg, size, d>>

(***************************************************************************)
(* Boosts: a flag for each step, as long as there is room beside the boosts*)
(* so far, and the band can take more.                                     *)
(***************************************************************************)
Quanta(c, band) ==
  LET width == c.channels * Width(band) * 2^c.lm
  IN Least(8 * width, Most(48, width))

MoreBoost(c, band, at, loop, boost, room) ==
  /\ at + 8 * loop < room
  /\ boost < InitCaps[c.lm, c.channels][band]

EndBand(r) ==
  [r EXCEPT !.band = @ + 1, !.boosts = Append(@, r.boost), !.boost = 0,
            !.logp = IF r.boost > 0 THEN Most(2, @ - 1) ELSE @,
            !.loop = IF r.boost > 0 THEN Most(2, r.logp - 1) ELSE r.logp]

EncodeBoost ==
  /\ stage = "boost" /\ e.band < cfg.end
  /\ IF MoreBoost(cfg, e.band, tell, e.loop, e.boost, 8 * Budget - e.total)
     THEN \/ /\ Write(Flag("boost", e.loop, 0))
             /\ e' = EndBand(e)
          \/ /\ e.boost < MaxBoosts * Quanta(cfg, e.band)
             /\ Write(Flag("boost", e.loop, 1))
             /\ e' = [e EXCEPT !.boost = @ + Quanta(cfg, e.band),
                               !.total = @ + Quanta(cfg, e.band), !.loop = 1]
     ELSE Skipped /\ e' = EndBand(e)
  /\ UNCHANGED <<cfg, size, stage, d>>

TrimFits(at, room) == at + 48 <= room

EncodeTrim ==
  /\ stage = "boost" /\ e.band = cfg.end
  /\ IF TrimFits(tell, 8 * Budget - e.total)
     THEN \E c \in {12, 48} : Write(Field("trim", c, c)) ELSE Skipped
  /\ stage' = "shrink"
  /\ UNCHANGED <<cfg, size, e, d>>

(* The variable rate asks for any size; the packet becomes that, but keeps *)
(* what the header needs and two bytes more, and never grows.              *)
\* Mutant: the header's place is rounded down.
MinAllowedDown ==
  (tell + e.total) \div 64

MinAllowed ==
  LET header == ((tell + e.total + 63) \div 64) + 2
  IN IF Hybrid(cfg) THEN Most(header, (cfg.before + (37 * 8) + e.total + 63) \div 64)
     ELSE header

Silent ==
  Len(tape) > 0 /\ tape[1].kind = "silence" /\ tape[1].v = 1

Shrink ==
  /\ stage = "shrink"
  /\ size' \in IF ~cfg.vbr THEN {size}
               ELSE IF Silent THEN {Least(size, 2)}
               ELSE {Least(size, MinAllowed + n) : n \in {0, 1, 3}} \cup {size}
  /\ stage' = "allocate"
  /\ UNCHANGED <<cfg, tape, tell, e, d>>

(***************************************************************************)
(* The rest has its place in the packet as it is now.                      *)
(***************************************************************************)
Reserve(c, transient, left) ==
  IF transient = 1 /\ c.lm >= 2 /\ left >= 8 * (c.lm + 2) THEN 8 ELSE 0

(* Some divisions of the bits: all to the first band, which is then the    *)
(* last one coded, half, or all to the last one, with or without a bit of  *)
(* energy for the first.                                                   *)
Divisions(c, left) ==
  LET n == Most(left, 0)
      symbols == IF n >= 8 THEN 8 ELSE 0
  IN {LET fine == x[1]
          rest == n - symbols - fine
          first == (rest * x[2]) \div 2
      IN [side |-> symbols, fine |-> fine,
          coded |-> IF x[2] = 2 THEN c.start + 1 ELSE c.end,
          pulses |-> [j \in Span(c) |->
                        (IF j = c.start THEN first ELSE 0)
                        + (IF j = c.end - 1 THEN rest - first ELSE 0)]] :
       x \in {y \in {<<0, 0>>, <<8 * c.channels, 1>>, <<0, 2>>} : y[1] <= n - symbols}}

Allocate ==
  /\ stage = "allocate"
  /\ LET left == 8 * Budget - tell - 1
         rsv == Reserve(cfg, e.transient, left)
     IN \E a \in Divisions(cfg, left - rsv) :
          /\ tape' = tape \o <<Field("side", a.side, a.side), Field("fine", a.fine, a.fine)>>
          /\ tell' = tell + a.side + a.fine
          /\ e' = [bits |-> left - rsv, boosts |-> e.boosts, rsv |-> rsv, a |-> a,
                   band |-> cfg.start, balance |-> 0]
  /\ stage' = "bands"
  /\ UNCHANGED <<cfg, size, d>>

(* quant_all_bands: what a band may use is what it was given and its part  *)
(* of what others left, shared with the next two that are coded, and never *)
(* more than there is; a band that is not coded has nothing.               *)
BandBudget(a, band, at, balance, total) ==
  LET remaining == total - at - 1
      parts == Least(3, a.coded - band)
      share == IF balance >= 0 THEN balance \div parts ELSE -((-balance) \div parts)
  IN IF band < a.coded THEN Most(0, Least(remaining + 1, a.pulses[band] + share)) ELSE 0

Balance(r, c, at) == IF r.band = c.start THEN r.balance ELSE r.balance - at

EncodeBand ==
  /\ stage = "bands" /\ e.band < cfg.end
  /\ LET total == 8 * Budget - e.rsv
         balance == Balance(e, cfg, tell)
         b == BandBudget(e.a, e.band, tell, balance, total)
     IN \E cost \in {0, b} :
          /\ Write(Field("band", b, cost))
          /\ e' = [e EXCEPT !.band = @ + 1, !.balance = balance + e.a.pulses[e.band] + tell]
  /\ UNCHANGED <<cfg, size, stage, d>>

(* Bits that are left refine the energies, a bit for each channel.         *)
FinalBits(c, at, budget) ==
  LET left == Most(budget - Bits(at), 0)
  IN Least(c.channels * (left \div c.channels), c.channels * Cardinality(Span(c)))

Finalise ==
  /\ stage = "bands" /\ e.band = cfg.end
  /\ LET collapse == IF e.rsv > 0 THEN <<Field("collapse", 1, 8)>> ELSE << >>
         at == IF e.rsv > 0 THEN tell + 8 ELSE tell
         final == FinalBits(cfg, at, Budget)
     IN /\ tape' = tape \o collapse \o <<Field("final", final, 8 * final)>>
        /\ tell' = at + 8 * final
  /\ stage' = "sent"
  /\ UNCHANGED <<cfg, size, e, d>>

(***************************************************************************)
(* The decoder: prepare_frame and celt_decode_with_ec.  It reads the tape  *)
(* with conditions of its own; r.ok says that each field it reads is the   *)
(* one that was written there.                                             *)
(***************************************************************************)
NoField == Field("nothing", 0, 0)
Peek(r) == IF r.pos <= Len(tape) THEN tape[r.pos] ELSE NoField
Read(r, kind) ==
  [r EXCEPT !.pos = @ + 1, !.tell = @ + Peek(r).cost, !.v = Peek(r).v,
            !.ok = @ /\ Peek(r).kind = kind]

Started == [pos |-> 1, tell |-> cfg.before, v |-> 0, ok |-> TRUE, transient |-> 0]

(* A packet that is used up before it begins counts as silence.            *)
ReadSilence(r) ==
  LET x == IF Bits(r.tell) >= Budget THEN [r EXCEPT !.v = 1]
           ELSE IF Bits(r.tell) = 1 THEN Read(r, "silence") ELSE [r EXCEPT !.v = 0]
  IN IF x.v = 1 THEN [x EXCEPT !.tell = @ + 8 * (Budget - Bits(@))] ELSE x

ReadPrefilter(r) ==
  IF cfg.start = 0 /\ Bits(r.tell) + 16 <= Budget
  THEN LET on == Read(r, "prefilter")
           pitch == Read(on, "pitch")
       IN IF on.v = 0 THEN on
          ELSE IF Bits(pitch.tell) + 2 <= Budget THEN Read(pitch, "tapset") ELSE pitch
  ELSE r

ReadTransient(r) ==
  IF cfg.lm > 0 /\ Bits(r.tell) + 3 <= Budget
  THEN LET x == Read(r, "transient") IN [x EXCEPT !.transient = x.v]
  ELSE r

ReadIntra(r) == IF Bits(r.tell) + 3 <= Budget THEN Read(r, "intra") ELSE r

ReadCoarse(r) ==
  LET C[n \in 0..(cfg.channels * Cardinality(Span(cfg)))] ==
        IF n = 0 THEN r
        ELSE LET x == C[n - 1]
                 code == CoarseCode(Budget - Bits(x.tell))
             IN IF code = "none" THEN x ELSE Read(x, code)
  IN C[cfg.channels * Cardinality(Span(cfg))]

ReadTf(r) ==
  LET reserved == TfReserved(cfg, r.transient, r.tell, Budget)
      T[n \in 0..Cardinality(Span(cfg))] ==
        IF n = 0 THEN [r |-> r, current |-> 0, changed |-> 0]
        ELSE LET t == T[n - 1]
                 logp == TfLogp(r.transient, n = 1)
                 x == Read(t.r, "tf")
                 res == (t.current + x.v) % 2
             IN IF Bits(t.r.tell) + logp <= TfBudget(reserved, Budget)
                THEN [r |-> x, current |-> res, changed |-> Most(t.changed, res)]
                ELSE t
      flags == T[Cardinality(Span(cfg))]
  IN IF reserved /\ TablesDiffer(cfg.lm, r.transient, flags.changed)
     THEN Read(flags.r, "select") ELSE flags.r

ReadSpread(r) == IF Bits(r.tell) + 4 <= Budget THEN Read(r, "spread") ELSE r

(* The decoder takes the boosts off the bits that are left for them.       *)
ReadBoosts(r) ==
  LET limit == 8 * Budget
      B[n \in 0..(Len(tape) + Cardinality(Span(cfg)))] ==
        IF n = 0
        THEN [r |-> r, band |-> cfg.start, logp |-> 6, loop |-> 6, boost |-> 0,
              boosts |-> << >>, room |-> limit]
        ELSE LET s == B[n - 1]
                 x == Read(s.r, "boost")
             IN IF s.band = cfg.end THEN s
                ELSE IF ~MoreBoost(cfg, s.band, s.r.tell, s.loop, s.boost, s.room) THEN EndBand(s)
                ELSE IF x.v = 0 THEN EndBand([s EXCEPT !.r = x])
                ELSE [s EXCEPT !.r = x, !.boost = @ + Quanta(cfg, s.band),
                               !.room = @ - Quanta(cfg, s.band), !.loop = 1]
  IN B[Len(tape) + Cardinality(Span(cfg))]

ReadTrim(s) == IF TrimFits(s.r.tell, s.room) THEN Read(s.r, "trim") ELSE s.r

(* The bits the bands are coded against: with the feature fixed_point all  *)
(* of them, in the default float build what the boosts left of them.       *)
FrameTotal(fixed_point, room) == IF fixed_point THEN 8 * Budget ELSE room

(* The same inputs give the same division; others give another.            *)
ReadAllocation(fixed_point, r, s) ==
  LET left == 8 * Budget - r.tell - 1
      rsv == Reserve(cfg, r.transient, left)
      same == <<left - rsv, rsv, s.boosts>> = <<e.bits, e.rsv, e.boosts>>
      x == Read(Read(r, "side"), "fine")
  IN [r |-> [x EXCEPT !.ok = @ /\ same], rsv |-> rsv,
      total |-> FrameTotal(fixed_point, s.room) - rsv]

ReadBands(al) ==
  LET B[n \in 0..Cardinality(Span(cfg))] ==
        IF n = 0 THEN [r |-> al.r, band |-> cfg.start, balance |-> 0, alike |-> TRUE]
        ELSE LET s == B[n - 1]
                 balance == Balance(s, cfg, s.r.tell)
                 b == BandBudget(e.a, s.band, s.r.tell, balance, al.total)
             IN [r |-> Read(s.r, "band"), band |-> s.band + 1,
                 balance |-> balance + e.a.pulses[s.band] + s.r.tell,
                 alike |-> s.alike /\ b = Peek(s.r).v]
  IN B[Cardinality(Span(cfg))]

ReadFinal(r, rsv) ==
  LET x == IF rsv > 0 THEN Read(r, "collapse") ELSE r
      y == Read(x, "final")
  IN [y EXCEPT !.ok = @ /\ y.v = FinalBits(cfg, x.tell, Budget)]

(* Either build of the decoder may have received the packet.               *)
Decode(fixed_point) ==
  /\ stage = "sent"
  /\ \E r1 \in {ReadTransient(ReadPrefilter(ReadSilence(Started)))} :
     \E r2 \in {ReadCoarse(ReadIntra(r1))} :
     \E r3 \in {ReadSpread(ReadTf(r2))} :
     \E s \in {ReadBoosts(r3)} :
     \E r4 \in {ReadTrim(s)} :
     \E al \in {ReadAllocation(fixed_point, r4, s)} :
     \E b \in {ReadBands(al)} :
       d' = [header |-> r4.ok, given |-> al.r.ok, bands |-> b.alike,
             fixed_point |-> fixed_point, end |-> ReadFinal(b.r, al.rsv)]
  /\ stage' = "read"
  /\ UNCHANGED <<cfg, size, tape, tell, e>>

Next ==
  \/ EncodeSilence \/ EncodePrefilter \/ EncodeTransient \/ EncodeIntra
  \/ EncodeCoarse \/ BeginTf \/ EncodeTf \/ EncodeTfSelect \/ EncodeSpread
  \/ EncodeBoost \/ EncodeTrim \/ Shrink
  \/ Allocate \/ EncodeBand \/ Finalise
  \/ \E fixed_point \in BOOLEAN : Decode(fixed_point)

Spec == Init /\ [][Next]_vars

(***************************************************************************)
(* Properties.                                                             *)
(***************************************************************************)
Stages == {"silence", "prefilter", "transient", "intra", "coarse", "tf", "spread",
           "boost", "shrink", "allocate", "bands", "sent", "read"}

(* The shape of the state; the position only ever counts what was written, *)
(* but for a silent frame, which counts as full.                           *)
TypeOK ==
  /\ cfg \in Configs /\ stage \in Stages
  /\ size \in 1..(CHOOSE n \in Sizes(cfg) : \A k \in Sizes(cfg) : k <= n)
  /\ tell >= cfg.before
  /\ \A i \in 1..Len(tape) : tape[i].cost >= 0

(* The decoder takes every field of the header for what it is, and none    *)
(* that is not there, although the encoder decided which to write before   *)
(* it cut the packet.                                                      *)
HeaderInStep ==
  stage = "read" => d.header /\ d.given

(* Both ends give every band the same budget: a band's code depends on it, *)
(* and from the first that differs on the rest of the frame is noise.  The *)
(* default float build does so only if no band was boosted: it takes the   *)
(* boosts off the bits of the bands (frame_total_bits), the encoder of     *)
(* either build does not (total_available).                                *)
Boosted == \E n \in DOMAIN e.boosts : e.boosts[n] > 0

BandsInStep ==
  stage = "read" /\ (d.fixed_point \/ ~Boosted) => d.bands

(* The decoder ends where the encoder ended, having read all of it.        *)
EndsInStep ==
  stage = "read" /\ d.bands =>
    d.end.ok /\ d.end.pos = Len(tape) + 1 /\ d.end.tell = tell

(* What is written fits the packet that is sent: cutting it leaves room    *)
(* for all that is written before and after.                               *)
FitsThePacket ==
  stage \in {"sent", "read"} => Bits(tell) <= Most(Budget, Bits(cfg.before))

(* From the first field of the header to the last bit both ends are at the *)
(* same place, and all of it is within the packet: in the build with       *)
(* fixed_point always, in the default one up to the bands, and to the last *)
(* bit if both ends give the bands the same, as they do without a boost.   *)
FrameInStep ==
  /\ TypeOK
  /\ HeaderInStep
  /\ BandsInStep
  /\ EndsInStep
  /\ FitsThePacket
=============================================================================
