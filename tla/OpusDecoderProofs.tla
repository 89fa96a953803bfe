-------------------------- MODULE OpusDecoderProofs --------------------------
(***************************************************************************)
(* For every set of requests and every bound on the frames of a packet:    *)
(* the decoder of OpusDecoder never plays audio predicted from a memory    *)
(* that missed audio already output, and delivers what it promises.        *)
(***************************************************************************)
EXTENDS OpusDecoder, TLAPS

\* What is heard from a decoder whose lineage is sound.
Sound(h) ==
    /\ h \in Heard
    /\ "stale" \notin {h.celt, h.silk, h.redundant}
    /\ h.mode = "celt" => h.celt \in {"reset", "full"}

USE DEF F2_5, F5, F10, F20, F40, F60, MaxPacket

LEMMA FrameSizesTyped ==
    \A m \in Modes : FrameSizes(m) \subseteq {1, 2, 4, 8, 16, 24}
  BY DEF FrameSizes, Modes

\* decode_frame without a packet keeps the lineage, is sound, and writes at
\* least one unit and no more than it was asked for.
LEMMA ConcealKeepsLineage ==
    ASSUME NEW d \in Decoder, Lineage(d), NEW n \in Nat \ {0}
    PROVE  LET r == Conceal(d, n) IN
             /\ r.dec \in Decoder
             /\ Lineage(r.dec)
             /\ r.dec.mode = d.mode /\ r.dec.frameSize = d.frameSize
             /\ Sound(r.heard)
             /\ r.error \in {"none", "BadArgument", "InternalError"}
             /\ r.ok \in BOOLEAN
             /\ r.size \in Nat
             /\ r.ok => r.size \in 1..n
<1> DEFINE m    == ConcealMode(d)
           cut  == Min(Min(n, MaxPacket), d.frameSize)
           next == Lapse(AfterConceal(d, m), m)
<1>1. d.frameSize \in {1, 2, 4, 8, 16, 24}
  BY DEF Lineage
<1>2. cut \in 1..n /\ cut \in 1..24
  BY <1>1 DEF Min
<1>3. m \in Modes \cup {"none"}
  BY DEF ConcealMode, Decoder, Modes
<1>4. CASE m = "none"
  <2>1. d.prevMode = "none"
    BY <1>4 DEF ConcealMode
  <2>2. Conceal(d, n) = OkResult(d, cut, Nothing)
    BY <1>4 DEF Conceal
  <2>3. Sound(Nothing)
    BY DEF Sound, Heard, Nothing
  <2> QED
    BY <1>2, <2>2, <2>3 DEF OkResult
<1>5. CASE m # "none"
  <2>1. next \in Decoder /\ Lineage(next)
        /\ next.mode = d.mode /\ next.frameSize = d.frameSize
    <3>1. next = [d EXCEPT
                    !.prevMode = m,
                    !.prevRedundancy = FALSE,
                    !.celt = IF m = "silk" THEN Missed(d.celt) ELSE CeltAfter(m),
                    !.silk = IF m = "celt" THEN Missed(d.silk) ELSE "live"]
      BY DEF Lapse, AfterConceal, Decoder
    <3>2. next \in Decoder
      BY <1>3, <3>1 DEF Decoder, Missed, CeltAfter, Modes, CeltMemory, SilkMemory
    <3>3. /\ next.mode = d.mode /\ next.frameSize = d.frameSize
          /\ next.prevMode = m /\ next.prevRedundancy = FALSE
          /\ next.celt = IF m = "silk" THEN Missed(d.celt) ELSE CeltAfter(m)
          /\ next.silk = IF m = "celt" THEN Missed(d.silk) ELSE "live"
      BY <3>1 DEF Decoder
    <3>4. m = "silk" => d.prevMode = "silk"
      BY DEF ConcealMode
    <3> QED
      BY <1>3, <1>5, <3>2, <3>3, <3>4 DEF Lineage, Missed, CeltAfter, Modes
  <2>2. Sound(HeardConcealed(d, m)) /\ Sound(Nothing)
    BY <1>3, <1>5, ZenonT(60) DEF Decoder, Lineage, ConcealMode, Sound, Heard, Nothing,
                      HeardConcealed, Modes, CeltMemory, SilkMemory
  <2>3. ConcealSize(m, cut) \in 1..cut
    BY <1>2 DEF ConcealSize
  <2>4. \/ \E e \in {"BadArgument", "InternalError"}, b \in {d, next} :
               Conceal(d, n) = ErrResult(e, b)
        \/ \E s \in {cut, ConcealSize(m, cut)} :
               Conceal(d, n) = OkResult(next, s, HeardConcealed(d, m))
    BY <1>5 DEF Conceal
  <2>5. ASSUME NEW e \in {"BadArgument", "InternalError"}, NEW b \in {d, next},
               Conceal(d, n) = ErrResult(e, b)
        PROVE  /\ Conceal(d, n).dec = b /\ Conceal(d, n).error = e
               /\ Conceal(d, n).heard = Nothing
               /\ ~Conceal(d, n).ok /\ Conceal(d, n).size = 0
               /\ Conceal(d, n).ok \in BOOLEAN
    BY <2>5 DEF ErrResult
  <2>6. ASSUME NEW s \in {cut, ConcealSize(m, cut)},
               Conceal(d, n) = OkResult(next, s, HeardConcealed(d, m))
        PROVE  /\ Conceal(d, n).dec = next /\ Conceal(d, n).error = "none"
               /\ Conceal(d, n).heard = HeardConcealed(d, m)
               /\ Conceal(d, n).ok \in BOOLEAN
               /\ Conceal(d, n).size = s
    BY <2>6 DEF OkResult
  <2>7. \A s \in {cut, ConcealSize(m, cut)} : s \in Nat /\ s \in 1..n
    BY <1>2, <2>3
  <2> HIDE DEF m, cut, next
  <2> QED
    BY <2>1, <2>2, <2>4, <2>5, <2>6, <2>7
<1> QED
  BY <1>4, <1>5

\* Concealing a frame of the packet being decoded succeeds and writes the whole
\* frame: every duration a packet can announce is one that CELT conceals.
LEMMA ConcealWholeFrame ==
    ASSUME NEW d \in Decoder, Lineage(d), NEW n \in Nat \ {0}, n >= d.frameSize
    PROVE  Conceal(d, n).ok /\ Conceal(d, n).size = d.frameSize
<1> DEFINE m    == ConcealMode(d)
           cut  == Min(Min(n, MaxPacket), d.frameSize)
           part == IF cut <= F20 THEN cut ELSE cut % F20
           next == Lapse(AfterConceal(d, m), m)
<1>1. d.frameSize \in {1, 2, 4, 8, 16, 24}
  BY DEF Lineage
<1>2. cut = d.frameSize
  BY <1>1 DEF Min
<1>3. part \in {0, 1, 2, 4, 8}
  BY <1>1, <1>2
<1>4. ConcealSize(m, part) = part /\ ConcealSize("celt", part) = part
  BY <1>3 DEF ConcealSize
<1>5. part = 0 \/ Concealable(d, part)
  BY <1>3, <1>4 DEF Concealable, FrameSizes
<1>6. cut <= F20 => part = cut
  OBVIOUS
<1>7. \/ Conceal(d, n) = OkResult(next, cut, HeardConcealed(d, m))
      \/ Conceal(d, n) = OkResult(d, cut, Nothing)
  BY <1>4, <1>5, <1>6 DEF Conceal
<1>8. \A b, h : OkResult(b, cut, h).ok /\ OkResult(b, cut, h).size = cut
  BY DEF OkResult
<1> HIDE DEF m, cut, part, next
<1> QED
  BY <1>2, <1>7, <1>8

\* decode_frame on the bits of a frame keeps the lineage and is sound.
LEMMA AfterDecodeKeepsLineage ==
    ASSUME NEW d \in Decoder, Lineage(d), d.mode \in Modes,
           NEW bits \in Payloads(d.mode), bits \notin {"lost", "overrun"}
    PROVE  LET next == AfterDecode(d, bits) IN
             /\ next \in Decoder
             /\ Lineage(next)
             /\ next.mode = d.mode /\ next.frameSize = d.frameSize
             /\ Sound(HeardDecoded(d, bits))
<1> DEFINE fd   == Faded(d, bits)
           lead == AfterLeadingRedundancy(fd.celt, bits)
           next == AfterDecode(d, bits)
<1>1. /\ fd.celt = IF Fades(d, bits) /\ ConcealMode(d) # "silk"
                   THEN CeltAfter(ConcealMode(d)) ELSE d.celt
      /\ fd.prevMode = IF Fades(d, bits) THEN ConcealMode(d) ELSE d.prevMode
      /\ fd.prevRedundancy = IF Fades(d, bits) THEN FALSE ELSE d.prevRedundancy
      /\ fd.mode = d.mode
  BY DEF Faded, AfterConceal, Decoder
<1>2. bits \in {"plain", "discarded", "celt_to_silk", "silk_to_celt"}
      /\ (d.mode = "celt" => bits = "plain")
  BY DEF Payloads, Modes
<1>3. fd.celt \in CeltMemory /\ lead \in CeltMemory
  BY <1>1 DEF Decoder, CeltMemory, CeltAfter, AfterLeadingRedundancy
<1>4. /\ next.mode = d.mode /\ next.frameSize = d.frameSize
      /\ next.prevMode = d.mode
      /\ next.prevRedundancy = (bits = "silk_to_celt")
      /\ next.celt = IF bits = "silk_to_celt" THEN "full"
                     ELSE IF d.mode = "silk" THEN Missed(lead) ELSE CeltAfter(d.mode)
      /\ next.silk = IF d.mode = "celt" THEN Missed(d.silk) ELSE "live"
  BY <1>2 DEF AfterDecode, IsCelt, Decoder
<1>5. next \in Decoder
  BY <1>2, <1>3 DEF AfterDecode, IsCelt, Decoder, Missed, CeltAfter, CeltMemory,
                    SilkMemory, Modes
<1>6. Lineage(next)
  BY <1>2, <1>3, <1>4 DEF Lineage, Missed, CeltAfter, CeltMemory, Modes
<1>7. Sound(HeardDecoded(d, bits))
  <2> DEFINE h == HeardDecoded(d, bits)
  <2>1. /\ h.celt = IF d.mode # "silk" \/ FlushesHybrid(d, bits)
                    THEN CeltSource(d, bits) ELSE "unused"
        /\ h.silk = IF d.mode = "celt" THEN "unused"
                    ELSE IF d.prevMode = "celt" THEN "reset" ELSE d.silk
        /\ h.redundant = IF PlaysLeadingRedundancy(d, bits) THEN d.celt ELSE "unused"
        /\ h.mode = d.mode
    BY DEF HeardDecoded, IsCelt, SilkRestarts
  <2>2. h \in Heard
    BY <1>3 DEF HeardDecoded, Heard, CeltSource, ConcealedSource, CeltMemory,
                SilkMemory, Decoder, IsCelt, Modes
  <2>3. h.silk # "stale"
    BY <2>1 DEF Lineage, Decoder, Modes
  <2>4. h.redundant # "stale"
    BY <2>1 DEF PlaysLeadingRedundancy, Lineage, Decoder, Modes
  <2>5. CeltSource(d, bits) = IF CeltRestarts(fd) THEN "reset" ELSE lead
    BY DEF CeltSource
  <2>6. CASE d.mode = "silk"
    <3>1. FlushesHybrid(d, bits) => ~Fades(d, bits) /\ d.prevMode = "hybrid"
      BY <2>6 DEF FlushesHybrid, Fades, Switches, IsCelt
    <3>2. FlushesHybrid(d, bits) => lead # "stale"
      BY <1>1, <3>1 DEF AfterLeadingRedundancy, Lineage
    <3> QED
      BY <2>1, <2>2, <2>3, <2>4, <2>5, <2>6, <3>2 DEF Sound
  <2>7. CASE d.mode = "hybrid"
    <3>1. CeltRestarts(fd) \/ lead # "stale"
      BY <1>1, <2>7 DEF CeltRestarts, AfterLeadingRedundancy, Lineage, Fades,
                        ConcealMode, CeltAfter, Switches, IsCelt, Decoder, Modes
    <3> QED
      BY <2>1, <2>2, <2>3, <2>4, <2>5, <2>7, <3>1 DEF Sound
  <2>8. CASE d.mode = "celt"
    <3>1. CeltRestarts(fd) \/ lead \in {"reset", "full"}
      BY <1>1, <2>8 DEF CeltRestarts, AfterLeadingRedundancy, Lineage, Fades,
                        ConcealMode, CeltAfter, Switches, IsCelt, Decoder, Modes
    <3> QED
      BY <2>1, <2>2, <2>3, <2>4, <2>5, <2>8, <3>1 DEF Sound
  <2> QED
    BY <2>6, <2>7, <2>8 DEF Modes
<1> QED
  BY <1>4, <1>5, <1>6, <1>7

\* decode_frame, whatever the frame holds: the header stays, the lineage is
\* kept, the audio is sound, a frame that succeeds is written whole, and only one
\* whose redundancy overruns it fails: the error of RecoverStep's frame, which
\* the code would pass on, does not occur.
LEMMA DecodeFrameKeepsLineage ==
    ASSUME NEW d \in Decoder, Lineage(d), d.mode \in Modes,
           NEW bits \in Payloads(d.mode), NEW n \in Nat \ {0}, n >= d.frameSize
    PROVE  LET r == DecodeFrame(d, bits, n) IN
             /\ r.dec \in Decoder
             /\ Lineage(r.dec)
             /\ r.dec.mode = d.mode /\ r.dec.frameSize = d.frameSize
             /\ Sound(r.heard)
             /\ r.error \in {"none", "BadArgument", "InternalError"}
             /\ r.ok => r.size = d.frameSize
             /\ bits # "overrun" => r.ok
<1>1. CASE bits = "lost"
  <2>1. DecodeFrame(d, bits, n) = Conceal(d, n)
    BY <1>1 DEF DecodeFrame
  <2> QED
    BY <2>1, ConcealKeepsLineage, ConcealWholeFrame
<1>2. CASE bits = "overrun"
  <2> DEFINE b == [d EXCEPT !.silk = "live"]
  <2>1. DecodeFrame(d, bits, n) = ErrResult("BadArgument", b)
    BY <1>2 DEF DecodeFrame
  <2>2. b \in Decoder /\ Lineage(b) /\ b.mode = d.mode /\ b.frameSize = d.frameSize
    BY DEF Decoder, SilkMemory, Lineage, Modes
  <2>3. Sound(Nothing)
    BY DEF Sound, Heard, Nothing
  <2>4. /\ ErrResult("BadArgument", b).dec = b
        /\ ErrResult("BadArgument", b).heard = Nothing
        /\ ErrResult("BadArgument", b).error = "BadArgument"
        /\ ~ErrResult("BadArgument", b).ok
    BY DEF ErrResult
  <2> HIDE DEF b
  <2> QED
    BY <1>2, <2>1, <2>2, <2>3, <2>4
<1>3. CASE bits \notin {"lost", "overrun"}
  <2>1. DecodeFrame(d, bits, n)
          = OkResult(AfterDecode(d, bits), d.frameSize, HeardDecoded(d, bits))
    BY <1>3 DEF DecodeFrame
  <2> QED
    BY <1>3, <2>1, AfterDecodeKeepsLineage DEF OkResult
<1> QED
  BY <1>1, <1>2, <1>3

-------------------------------------------------------------------------------
(***************************************************************************)
(* The invariant.  Good adds to Inductive what was heard and what a call   *)
(* that succeeded delivered, which are invariant because Inductive is.     *)
(***************************************************************************)
Good == Inductive /\ Sound(heard) /\ ExactDelivery

\* Storing a header keeps the lineage: only mode and frameSize change.
LEMMA WithHeaderKeepsLineage ==
    ASSUME NEW d \in Decoder, Lineage(d), NEW p \in Packets
    PROVE  LET next == WithHeader(d, p) IN
             /\ next \in Decoder
             /\ Lineage(next)
             /\ next.mode = p.mode /\ next.frameSize = p.size
             /\ p.mode \in Modes /\ p.size \in {1, 2, 4, 8, 16, 24}
             /\ p.frames \in Nat \ {0}
<1>1. p.mode \in Modes /\ p.size \in 1..24 /\ p.size \in FrameSizes(p.mode)
      /\ p.frames \in 1..MaxFrames
  BY DEF Packets
<1>2. p.size \in {1, 2, 4, 8, 16, 24}
  BY <1>1, FrameSizesTyped
<1> DEFINE mode == p.mode
           size == p.size
           next == [d EXCEPT !.mode = mode, !.frameSize = size]
<1>3. mode \in Modes /\ size \in 1..24
  BY <1>1
<1> HIDE DEF mode, size
<1>4. next \in Decoder
  BY <1>3 DEF Decoder
<1>5. /\ next.mode = mode /\ next.frameSize = size /\ next.prevMode = d.prevMode
      /\ next.prevRedundancy = d.prevRedundancy
      /\ next.celt = d.celt /\ next.silk = d.silk
  BY DEF Decoder
<1>6. next = WithHeader(d, p) /\ mode = p.mode /\ size = p.size
  BY DEF WithHeader, mode, size
<1> HIDE DEF next
<1>7. Lineage(next)
  BY <1>1, <1>2, <1>5, <1>6 DEF Lineage
<1> QED
  BY <1>1, <1>2, <1>4, <1>5, <1>6, <1>7, MaxFramesAssumption

\* A field of the decoder that lineage does not mention.
LEMMA DurationKeepsLineage ==
    ASSUME NEW d \in Decoder, Lineage(d), NEW n \in Nat
    PROVE  LET next == [d EXCEPT !.lastPacketDuration = n] IN
             next \in Decoder /\ Lineage(next) /\ next.lastPacketDuration = n
             /\ next.mode = d.mode /\ next.frameSize = d.frameSize
  BY DEF Decoder, Lineage

LEMMA InitGood == Init => Good
<1> SUFFICES ASSUME Init PROVE Good
  OBVIOUS
<1>1. dec \in Decoder /\ Lineage(dec)
  BY DEF Init, Decoder, Lineage, Modes, CeltMemory, SilkMemory, FrameSizes
<1>2. call \in Calls /\ CallShape
  BY DEF Init, Calls, Kinds, CallShape
<1>3. Sound(heard)
  BY DEF Init, Sound, Heard, Nothing
<1>4. ExactDelivery
  BY DEF Init, ExactDelivery
<1> QED
  BY <1>1, <1>2, <1>3, <1>4 DEF Good, Inductive, TypeOK, Sound

\* Making a call.
LEMMA EnterKeepsShape ==
    ASSUME Good, NEW kind \in Kinds \ {"idle"}, NEW want \in Nat,
           NEW p \in Packets \cup {NoPacket}, Enter(kind, want, p)
    PROVE  /\ call' \in Calls
           /\ call'.kind = kind /\ call'.want = want /\ call'.done = 0
           /\ call'.packet = p /\ call'.frames = p.frames
           /\ heard' = Nothing /\ Sound(heard')
<1>1. p.frames \in Nat
  BY MaxFramesAssumption DEF Packets, NoPacket
<1>2. call' = [kind |-> kind, want |-> want, done |-> 0, frames |-> p.frames,
               saved |-> dec.lastPacketDuration, packet |-> p,
               result |-> "none", of |-> kind]
  BY DEF Enter
<1>3. dec.lastPacketDuration \in Nat
  BY DEF Good, Inductive, TypeOK, Decoder
<1>4. heard' = Nothing /\ Sound(Nothing)
  BY DEF Enter, Sound, Heard, Nothing
<1> QED
  BY <1>1, <1>2, <1>3, <1>4 DEF Calls, Kinds

LEMMA CallKeepsGood == Good /\ Call => Good'
<1> SUFFICES ASSUME Good, Call PROVE Good'
  OBVIOUS
<1>0. dec \in Decoder /\ Lineage(dec) /\ Requests \subseteq Nat \ {0}
  BY RequestsAssumption DEF Good, Inductive, TypeOK
<1>1. ASSUME NEW n \in Requests, CallConceal(n) PROVE Good'
  <2>1. Enter("conceal", n, NoPacket) /\ dec' = dec
    BY <1>1 DEF CallConceal
  <2>2. n \in Nat \ {0}
    BY <1>0
  <2>3. /\ call' \in Calls /\ call'.kind = "conceal" /\ call'.want = n
        /\ call'.done = 0 /\ Sound(heard')
    BY <2>1, <2>2, EnterKeepsShape DEF Kinds
  <2> QED
    BY <1>0, <2>1, <2>2, <2>3 DEF Good, Inductive, TypeOK, CallShape, ExactDelivery,
                                  Sound
<1>2. ASSUME NEW p \in Packets, CallDecode(p) PROVE Good'
  <2>1. Enter("decode", p.frames * p.size, p) /\ dec' = WithHeader(dec, p)
    BY <1>2 DEF CallDecode
  <2>2. /\ dec' \in Decoder /\ Lineage(dec') /\ dec'.mode = p.mode
        /\ dec'.frameSize = p.size /\ p.size \in {1, 2, 4, 8, 16, 24}
        /\ p.frames \in Nat \ {0}
    BY <1>0, <2>1, WithHeaderKeepsLineage
  <2>3. p.frames * p.size \in Nat
    BY <2>2
  <2>4. /\ call' \in Calls /\ call'.kind = "decode" /\ call'.done = 0
        /\ call'.want = p.frames * p.size /\ call'.packet = p
        /\ call'.frames = p.frames /\ Sound(heard')
    BY <2>1, <2>3, EnterKeepsShape DEF Kinds
  <2> QED
    BY <2>2, <2>3, <2>4 DEF Good, Inductive, TypeOK, CallShape, ExactDelivery, Sound
<1>3. ASSUME NEW p \in Packets, NEW n \in Requests, CallRecover(p, n) PROVE Good'
  <2>1. n \in Nat \ {0} /\ dec' = dec
    BY <1>0, <1>3 DEF CallRecover
  <2>2. CASE Enter("conceal", n, NoPacket)
    <3>1. /\ call' \in Calls /\ call'.kind = "conceal" /\ call'.want = n
          /\ call'.done = 0 /\ Sound(heard')
      BY <2>1, <2>2, EnterKeepsShape DEF Kinds
    <3> QED
      BY <1>0, <2>1, <3>1 DEF Good, Inductive, TypeOK, CallShape, ExactDelivery, Sound
  <2>3. CASE Enter("recover", n, p) /\ ~(n < p.size) /\ ~IsCelt(p.mode)
    <3>1. /\ call' \in Calls /\ call'.kind = "recover" /\ call'.want = n
          /\ call'.done = 0 /\ call'.packet = p /\ Sound(heard')
      BY <2>1, <2>3, EnterKeepsShape DEF Kinds
    <3>2. p.size \in Nat /\ p.size <= n /\ p.mode # "celt"
      BY <2>1, <2>3 DEF Packets, IsCelt
    <3> QED
      BY <1>0, <2>1, <3>1, <3>2
         DEF Good, Inductive, TypeOK, CallShape, ExactDelivery, Sound
  <2> QED
    BY <1>3, <2>2, <2>3 DEF CallRecover
<1> QED
  BY <1>1, <1>2, <1>3 DEF Call

\* Returning from a call.
LEMMA LeaveKeepsShape ==
    ASSUME call \in Calls, NEW n \in Nat,
           NEW result \in {"none", "ok", "BadArgument", "InternalError"},
           Leave(result, n)
    PROVE  /\ call' \in Calls
           /\ call'.kind = "idle" /\ call'.packet = NoPacket
           /\ call'.result = result /\ call'.done = n /\ call'.want = call.want
  BY DEF Leave, Calls, Kinds

\* Staying in a call with more of it done.
LEMMA DoneKeepsShape ==
    ASSUME call \in Calls, NEW n \in Nat, call' = [call EXCEPT !.done = n]
    PROVE  /\ call' \in Calls
           /\ call'.kind = call.kind /\ call'.packet = call.packet
           /\ call'.done = n /\ call'.want = call.want
  BY DEF Calls

\* Staying in a call with one frame of its packet less to decode.
LEMMA FrameDoneKeepsShape ==
    ASSUME call \in Calls, call.frames \in Nat \ {0}, NEW n \in Nat,
           call' = [call EXCEPT !.done = n, !.frames = call.frames - 1]
    PROVE  /\ call' \in Calls
           /\ call'.kind = call.kind /\ call'.packet = call.packet
           /\ call'.done = n /\ call'.want = call.want
           /\ call'.frames = call.frames - 1
<1> DEFINE f == call.frames - 1
<1>1. f \in Nat
  OBVIOUS
<1>2. call' = [call EXCEPT !.done = n, !.frames = f]
  OBVIOUS
<1> HIDE DEF f
<1>3. call' \in Calls /\ call'.frames = f
  BY <1>1, <1>2 DEF Calls
<1>4. /\ call'.kind = call.kind /\ call'.packet = call.packet
      /\ call'.done = n /\ call'.want = call.want
  BY <1>2 DEF Calls
<1> QED
  BY <1>3, <1>4 DEF f

LEMMA ConcealStepKeepsGood == Good /\ ConcealStep => Good'
<1> SUFFICES ASSUME Good, ConcealStep PROVE Good'
  OBVIOUS
<1> DEFINE left == ConcealTarget - call.done
           r    == Conceal(dec, left)
           done == call.done + r.size
<1>1. /\ dec \in Decoder /\ Lineage(dec) /\ call \in Calls /\ CallShape
      /\ call.done \in Nat /\ call.want \in Nat
  BY DEF Good, Inductive, TypeOK, Calls
<1>2. call.kind \in {"conceal", "recover"}
  BY <1>1 DEF ConcealStep, ConcealTarget
<1>4. /\ ConcealTarget \in Nat /\ left \in Nat \ {0}
      /\ call.kind = "conceal" => ConcealTarget = call.want
      /\ call.kind = "recover" =>
            /\ call.packet \in Packets /\ call.packet.mode # "celt"
            /\ call.packet.size \in Nat
            /\ ConcealTarget = call.want - call.packet.size
  <2>1. call.kind = "recover" =>
            /\ call.packet \in Packets /\ call.packet.mode # "celt"
            /\ call.packet.size \in 1..24
            /\ call.done + call.packet.size <= call.want
    BY <1>1 DEF CallShape, Packets
  <2> QED
    BY <1>1, <1>2, <2>1 DEF ConcealStep, ConcealTarget
<1>5. /\ r.dec \in Decoder /\ Lineage(r.dec) /\ Sound(r.heard)
      /\ r.error \in {"none", "BadArgument", "InternalError"}
      /\ r.size \in Nat /\ (r.ok => r.size <= left)
      /\ r.ok \in BOOLEAN
  BY <1>1, <1>4, ConcealKeepsLineage
<1> HIDE DEF r
<1>6. done \in Nat /\ (r.ok => done <= ConcealTarget)
  BY <1>1, <1>4, <1>5
<1>7. /\ heard' = r.heard
      /\ \/ /\ dec' = r.dec
            /\ Leave(IF r.ok THEN "InternalError" ELSE r.error, call.done)
         \/ /\ r.ok /\ done < ConcealTarget
            /\ dec' = r.dec
            /\ call' = [call EXCEPT !.done = done]
         \/ /\ r.ok /\ done >= ConcealTarget
            /\ dec' = [r.dec EXCEPT !.lastPacketDuration = done]
            /\ IF call.kind = "conceal"
               THEN Leave("ok", done)
               ELSE call' = [call EXCEPT !.done = done]
  BY DEF ConcealStep, r
<1> HIDE DEF done, left
<1>8. Sound(heard') /\ heard' \in Heard
  BY <1>5, <1>7 DEF Sound
<1>9. CASE dec' = r.dec /\ Leave(IF r.ok THEN "InternalError" ELSE r.error, call.done)
  <2>1. call' \in Calls /\ call'.kind = "idle" /\ call'.packet = NoPacket
        /\ call'.result # "ok"
    <3> DEFINE e == IF r.ok THEN "InternalError" ELSE r.error
    <3>1. e \in {"none", "BadArgument", "InternalError"}
      BY <1>5
    <3> HIDE DEF e
    <3>2. Leave(e, call.done)
      BY <1>9 DEF e
    <3> QED
      BY <1>1, <3>1, <3>2, LeaveKeepsShape
  <2> QED
    BY <1>5, <1>8, <1>9, <2>1 DEF Good, Inductive, TypeOK, CallShape, ExactDelivery
<1>10. CASE dec' = r.dec /\ call' = [call EXCEPT !.done = done] /\ done < ConcealTarget
  <2>1. /\ call' \in Calls /\ call'.kind = call.kind /\ call'.packet = call.packet
        /\ call'.done = done /\ call'.want = call.want
    BY <1>1, <1>6, <1>10, DoneKeepsShape
  <2> QED
    BY <1>1, <1>2, <1>4, <1>5, <1>6, <1>8, <1>10, <2>1
       DEF Good, Inductive, TypeOK, CallShape, ExactDelivery
<1>11. CASE /\ r.ok /\ done >= ConcealTarget
            /\ dec' = [r.dec EXCEPT !.lastPacketDuration = done]
            /\ IF call.kind = "conceal"
               THEN Leave("ok", done)
               ELSE call' = [call EXCEPT !.done = done]
  <2>1. dec' \in Decoder /\ Lineage(dec') /\ dec'.lastPacketDuration = done
    BY <1>5, <1>6, <1>11, DurationKeepsLineage
  <2>2. done = ConcealTarget
    BY <1>4, <1>6, <1>11
  <2>3. CASE call.kind = "conceal"
    <3>1. /\ call' \in Calls /\ call'.kind = "idle" /\ call'.packet = NoPacket
          /\ call'.done = done /\ call'.want = call.want
      BY <1>1, <1>6, <1>11, <2>3, LeaveKeepsShape
    <3> QED
      BY <1>4, <1>8, <2>1, <2>2, <2>3, <3>1
         DEF Good, Inductive, TypeOK, CallShape, ExactDelivery
  <2>4. CASE call.kind = "recover"
    <3>1. /\ call' \in Calls /\ call'.kind = call.kind /\ call'.packet = call.packet
          /\ call'.done = done /\ call'.want = call.want
      BY <1>1, <1>6, <1>11, <2>4, DoneKeepsShape
    <3> QED
      BY <1>1, <1>4, <1>8, <2>1, <2>2, <2>4, <3>1
         DEF Good, Inductive, TypeOK, CallShape, ExactDelivery
  <2> QED
    BY <1>2, <2>3, <2>4
<1> QED
  BY <1>7, <1>9, <1>10, <1>11

LEMMA DecodeStepKeepsGood == Good /\ DecodeStep => Good'
<1> SUFFICES ASSUME Good, call.kind = "decode", NEW bits \in Payloads(dec.mode),
                    LET r    == DecodeFrame(dec, bits, call.want - call.done)
                        done == call.done + r.size
                    IN  /\ heard' = r.heard
                        /\ \/ /\ ~r.ok
                              /\ dec' = r.dec
                              /\ Leave(r.error, call.done)
                           \/ /\ r.ok
                              /\ call.frames > 1
                              /\ dec' = r.dec
                              /\ call' = [call EXCEPT !.done = done, !.frames = @ - 1]
                           \/ /\ r.ok
                              /\ call.frames = 1
                              /\ dec' = [r.dec EXCEPT !.lastPacketDuration = done]
                              /\ Leave("ok", done)
             PROVE  Good'
  BY DEF DecodeStep
<1> DEFINE left == call.want - call.done
           r    == DecodeFrame(dec, bits, left)
           done == call.done + r.size
           size == call.packet.size
<1>1. /\ dec \in Decoder /\ Lineage(dec) /\ call \in Calls
      /\ call.packet \in Packets
      /\ dec.mode = call.packet.mode /\ dec.frameSize = size
      /\ call.done \in Nat /\ call.want \in Nat
      /\ call.frames \in Nat \ {0}
      /\ call.want = call.done + call.frames * size
  BY DEF Good, Inductive, TypeOK, CallShape, Calls
<1>2. dec.mode \in Modes /\ size \in {1, 2, 4, 8, 16, 24}
  BY <1>1 DEF Lineage, Packets
<1> HIDE DEF size
<1>3. left = call.frames * size
  BY <1>1, <1>2
<1>4. left \in Nat \ {0} /\ left >= dec.frameSize
  BY <1>1, <1>2, <1>3
<1> HIDE DEF left
<1>5. /\ r.dec \in Decoder /\ Lineage(r.dec) /\ Sound(r.heard)
      /\ r.dec.mode = dec.mode /\ r.dec.frameSize = size
      /\ r.error \in {"none", "BadArgument", "InternalError"}
      /\ (r.ok => r.size = size)
  <2>1. dec \in Decoder /\ Lineage(dec) /\ dec.frameSize = size
    BY <1>1
  <2> QED
    BY <2>1, <1>2, <1>4, DecodeFrameKeepsLineage
<1> HIDE DEF r
<1>6. heard' = r.heard /\ Sound(heard') /\ heard' \in Heard
  BY <1>5 DEF Sound, r, left
<1>7. \/ dec' = r.dec /\ Leave(r.error, call.done)
      \/ /\ r.ok /\ call.frames > 1 /\ dec' = r.dec
         /\ call' = [call EXCEPT !.done = done, !.frames = call.frames - 1]
      \/ /\ r.ok /\ call.frames = 1
         /\ dec' = [r.dec EXCEPT !.lastPacketDuration = done]
         /\ Leave("ok", done)
  BY DEF r, left
<1> HIDE DEF done
<1>8. CASE dec' = r.dec /\ Leave(r.error, call.done)
  <2>1. call' \in Calls /\ call'.kind = "idle" /\ call'.packet = NoPacket
        /\ call'.result # "ok"
    BY <1>1, <1>5, <1>8, LeaveKeepsShape
  <2> QED
    BY <1>5, <1>6, <1>8, <2>1 DEF Good, Inductive, TypeOK, CallShape, ExactDelivery
<1>9. CASE /\ r.ok /\ call.frames > 1 /\ dec' = r.dec
           /\ call' = [call EXCEPT !.done = done, !.frames = call.frames - 1]
  <2>1. done = call.done + size /\ done \in Nat
    BY <1>1, <1>2, <1>5, <1>9 DEF done
  <2>2. /\ call' \in Calls /\ call'.kind = "decode" /\ call'.packet = call.packet
        /\ call'.done = done /\ call'.want = call.want
        /\ call'.frames = call.frames - 1
    BY <1>1, <1>9, <2>1, FrameDoneKeepsShape
  <2>3. call.want = done + (call.frames - 1) * size
    BY <1>1, <1>2, <2>1
  <2> QED
    BY <1>1, <1>5, <1>6, <1>9, <2>2, <2>3
       DEF Good, Inductive, TypeOK, CallShape, ExactDelivery, size
<1>10. CASE /\ r.ok /\ call.frames = 1
            /\ dec' = [r.dec EXCEPT !.lastPacketDuration = done]
            /\ Leave("ok", done)
  <2>1. done = call.want /\ done \in Nat
    BY <1>1, <1>2, <1>5, <1>10 DEF done
  <2>2. dec' \in Decoder /\ Lineage(dec') /\ dec'.lastPacketDuration = done
    BY <1>5, <1>10, <2>1, DurationKeepsLineage
  <2>3. /\ call' \in Calls /\ call'.kind = "idle" /\ call'.packet = NoPacket
        /\ call'.done = done /\ call'.want = call.want
    BY <1>1, <1>10, <2>1, LeaveKeepsShape
  <2> QED
    BY <1>6, <2>1, <2>2, <2>3 DEF Good, Inductive, TypeOK, CallShape, ExactDelivery
<1> QED
  BY <1>7, <1>8, <1>9, <1>10, SMTT(30)

LEMMA RecoverStepKeepsGood == Good /\ RecoverStep => Good'
<1> SUFFICES ASSUME Good, call.kind = "recover", call.done = ConcealTarget,
                    NEW bits \in {"lost", "plain"},
                    LET r == DecodeFrame(WithHeader(dec, call.packet), bits,
                                         call.packet.size)
                    IN  /\ r.ok
                        /\ heard' = r.heard
                        /\ dec' = [r.dec EXCEPT !.lastPacketDuration = call.want]
                        /\ Leave("ok", call.done + r.size)
             PROVE  Good'
  BY DEF RecoverStep
<1> DEFINE d == WithHeader(dec, call.packet)
           r == DecodeFrame(d, bits, call.packet.size)
<1>1. /\ dec \in Decoder /\ Lineage(dec) /\ call \in Calls
      /\ call.packet \in Packets /\ call.packet.mode # "celt"
      /\ call.done \in Nat /\ call.want \in Nat
  BY DEF Good, Inductive, TypeOK, CallShape, Calls
<1>2. /\ d \in Decoder /\ Lineage(d) /\ d.mode = call.packet.mode
      /\ d.frameSize = call.packet.size /\ d.mode \in Modes
      /\ call.packet.size \in {1, 2, 4, 8, 16, 24}
  BY <1>1, WithHeaderKeepsLineage
<1>3. bits \in Payloads(d.mode) /\ call.packet.size \in Nat \ {0}
  BY <1>1, <1>2 DEF Payloads, Modes
<1> HIDE DEF d
<1>4. /\ r.dec \in Decoder /\ Lineage(r.dec) /\ Sound(r.heard)
      /\ r.ok => r.size = call.packet.size
  BY <1>2, <1>3, DecodeFrameKeepsLineage
<1> HIDE DEF r
<1>5. /\ r.ok /\ heard' = r.heard
      /\ dec' = [r.dec EXCEPT !.lastPacketDuration = call.want]
      /\ Leave("ok", call.done + r.size)
  BY DEF r, d
<1>6. call.done + r.size = call.want
  BY <1>1, <1>2, <1>4, <1>5 DEF ConcealTarget
<1>7. dec' \in Decoder /\ Lineage(dec') /\ dec'.lastPacketDuration = call.want
  BY <1>1, <1>4, <1>5, DurationKeepsLineage
<1>8. /\ call' \in Calls /\ call'.kind = "idle" /\ call'.packet = NoPacket
      /\ call'.done = call.want /\ call'.want = call.want
  BY <1>1, <1>5, <1>6, LeaveKeepsShape
<1>9. Sound(heard') /\ heard' \in Heard
  BY <1>4, <1>5 DEF Sound
<1> QED
  BY <1>7, <1>8, <1>9 DEF Good, Inductive, TypeOK, CallShape, ExactDelivery

LEMMA ResetStateKeepsGood == Good /\ ResetState => Good'
<1> SUFFICES ASSUME Good, ResetState PROVE Good'
  OBVIOUS
<1>1. dec' \in Decoder /\ Lineage(dec')
  BY DEF ResetState, Decoder, Lineage, Modes, CeltMemory, SilkMemory, FrameSizes
<1>2. call \in Calls /\ call.kind = "idle" /\ call.packet = NoPacket
  BY DEF Good, Inductive, TypeOK, CallShape, ResetState
<1>3. /\ call' \in Calls /\ call'.kind = "idle" /\ call'.packet = NoPacket
      /\ call'.result = "none"
  BY <1>2 DEF ResetState, Calls, Kinds
<1>4. Sound(heard') /\ heard' \in Heard
  BY DEF ResetState, Sound, Heard, Nothing
<1> QED
  BY <1>1, <1>3, <1>4 DEF Good, Inductive, TypeOK, CallShape, ExactDelivery

\* Good is invariant, one lemma per action.
THEOREM GoodInvariant == Spec => []Good
<1>1. Init => Good
  BY InitGood
<1>2. Good /\ [Next]_vars => Good'
  <2>1. Good /\ UNCHANGED vars => Good'
    BY DEF vars, Good, Inductive, TypeOK, CallShape, ExactDelivery, Sound
  <2> QED
    BY <2>1, CallKeepsGood, ConcealStepKeepsGood, DecodeStepKeepsGood,
       RecoverStepKeepsGood, ResetStateKeepsGood DEF Next, Step
<1> QED
  BY <1>1, <1>2, PTL DEF Spec

\* Type correctness: dec, call and heard keep their types in every behaviour.
THEOREM TypeCorrect == Spec => []TypeOK
<1>1. Good => TypeOK
  BY DEF Good, Inductive
<1> QED
  BY <1>1, GoodInvariant, PTL

\* What decode_frame relies on when it decides to reset, to continue or to play a
\* redundant frame, and where a call in progress stands in its loops.
THEOREM InductiveInvariant == Spec => []Inductive
<1>1. Good => Inductive
  BY DEF Good
<1> QED
  BY <1>1, GoodInvariant, PTL

\* decode_frame never plays audio predicted from a stale memory.
THEOREM NeverStale == Spec => []NoStaleAudio
<1>1. Good => NoStaleAudio
  BY DEF Good, Sound, NoStaleAudio
<1> QED
  BY <1>1, GoodInvariant, PTL

\* CELT-only audio never continues from a hybrid memory.
THEOREM NeverMissingBands == Spec => []NoMissingBands
<1>1. Good => NoMissingBands
  BY DEF Good, Sound, NoMissingBands
<1> QED
  BY <1>1, GoodInvariant, PTL

\* decode_native_with delivers and reports exactly what it promised.
THEOREM AlwaysExact == Spec => []ExactDelivery
<1>1. Good => ExactDelivery
  BY DEF Good
<1> QED
  BY <1>1, GoodInvariant, PTL
-------------------------------------------------------------------------------
(***************************************************************************)
(* Switches and redundant frames: what one decode_frame call hears.        *)
(***************************************************************************)
\* A concealed frame is never a switch, and continues the memory that a redundant
\* frame prepared.
LEMMA ConcealedHears ==
    ASSUME NEW d \in Decoder, Lineage(d), NEW n \in Nat
    PROVE  LET h == Conceal(d, n).heard IN
             /\ ~h.hardSwitch
             /\ d.prevRedundancy /\ h.mode \in {"celt", "hybrid"} => h.celt = "full"
<1> DEFINE m == ConcealMode(d)
<1>1. \/ Conceal(d, n).heard = Nothing
      \/ Conceal(d, n).heard = HeardConcealed(d, m)
  <2>1. \/ \E e \in {"BadArgument", "InternalError"} : \E b : Conceal(d, n) = ErrResult(e, b)
        \/ \E b, s : Conceal(d, n) = OkResult(b, s, HeardConcealed(d, m))
        \/ \E b, s : Conceal(d, n) = OkResult(b, s, Nothing)
    BY DEF Conceal
  <2> QED
    BY <2>1 DEF OkResult, ErrResult
<1>2. ~Nothing.hardSwitch /\ Nothing.mode = "none"
  BY DEF Nothing
<1>3. /\ ~HeardConcealed(d, m).hardSwitch /\ HeardConcealed(d, m).mode = m
      /\ HeardConcealed(d, m).celt = IF m = "silk" THEN "unused" ELSE d.celt
  BY DEF HeardConcealed, Nothing
<1>4. d.prevRedundancy => m = "celt" /\ d.celt = "full"
  BY DEF ConcealMode, Lineage
<1> QED
  BY <1>1, <1>2, <1>3, <1>4

\* A switch that is not hidden leaves a redundant frame for the next one: the
\* redundancy of its frame was spent on that.
LEMMA HardSwitchHasSpent ==
    ASSUME NEW d \in Decoder, Lineage(d), d.mode \in Modes,
           NEW bits \in Payloads(d.mode), HeardDecoded(d, bits).hardSwitch
    PROVE  bits = "silk_to_celt"
<1>1. /\ Switches(d) /\ ~Fades(d, bits) /\ ~PlaysLeadingRedundancy(d, bits)
      /\ ~(IsCelt(d.mode) /\ d.prevRedundancy)
  BY DEF HeardDecoded
<1>2. Redundant(bits)
  BY <1>1 DEF Fades
<1>3. ~IsCelt(d.mode)
  BY <1>2 DEF Redundant, Payloads, IsCelt
<1>4. d.prevMode = "celt"
  BY <1>1, <1>3 DEF Switches, IsCelt
<1> QED
  BY <1>1, <1>2, <1>4 DEF Redundant, PlaysLeadingRedundancy

\* CELT goes on from the memory of the redundant frame at the end of the last one.
LEMMA DecodedCarriesOver ==
    ASSUME NEW d \in Decoder, Lineage(d), d.mode \in {"celt", "hybrid"},
           NEW bits \in Payloads(d.mode), d.prevRedundancy
    PROVE  HeardDecoded(d, bits).celt = "full"
<1>1. d.celt = "full" /\ d.prevMode \in {"silk", "hybrid"}
  BY DEF Lineage
<1>2. ~Fades(d, bits)
  BY <1>1 DEF Fades, Switches, IsCelt
<1>3. Faded(d, bits) = d /\ ~CeltRestarts(d)
  BY <1>2 DEF Faded, CeltRestarts
<1> QED
  BY <1>1, <1>3 DEF HeardDecoded, CeltSource, AfterLeadingRedundancy

\* Both, for decode_frame whatever the frame holds.
LEMMA FrameHears ==
    ASSUME NEW d \in Decoder, Lineage(d), d.mode \in Modes,
           NEW bits \in Payloads(d.mode), NEW n \in Nat \ {0}, n >= d.frameSize
    PROVE  LET r == DecodeFrame(d, bits, n) IN
             /\ r.dec \in Decoder
             /\ r.heard.hardSwitch => r.dec.prevRedundancy
             /\ d.prevRedundancy /\ r.heard.mode \in {"celt", "hybrid"}
                  => r.heard.celt = "full"
<1>0. DecodeFrame(d, bits, n).dec \in Decoder
  BY DecodeFrameKeepsLineage
<1>1. CASE bits = "lost"
  BY <1>0, <1>1, ConcealedHears DEF DecodeFrame
<1>2. CASE bits = "overrun"
  BY <1>0, <1>2 DEF DecodeFrame, ErrResult, Nothing
<1>3. CASE bits \notin {"lost", "overrun"}
  <2> DEFINE r == DecodeFrame(d, bits, n)
  <2>1. r.heard = HeardDecoded(d, bits) /\ r.dec = AfterDecode(d, bits)
    BY <1>3 DEF DecodeFrame, OkResult
  <2>2. HeardDecoded(d, bits).mode = d.mode
    BY DEF HeardDecoded
  <2>3. AfterDecode(d, bits).prevRedundancy = (bits = "silk_to_celt")
    BY DEF AfterDecode, Decoder
  <2> HIDE DEF r
  <2>4. r.heard.hardSwitch => r.dec.prevRedundancy
    BY <2>1, <2>3, HardSwitchHasSpent
  <2>5. d.prevRedundancy /\ r.heard.mode \in {"celt", "hybrid"} => r.heard.celt = "full"
    BY <2>1, <2>2, DecodedCarriesOver
  <2> QED
    BY <1>0, <2>4, <2>5 DEF r
<1> QED
  BY <1>1, <1>2, <1>3

\* What a step of a call hears comes from one decode_frame call on a decoder that
\* has the redundancy of dec.
LEMMA StepHears ==
    ASSUME Good, Step
    PROVE  /\ heard'.hardSwitch => dec'.prevRedundancy
           /\ dec.prevRedundancy /\ heard'.mode \in {"celt", "hybrid"}
                => heard'.celt = "full"
<1>0. /\ dec \in Decoder /\ Lineage(dec) /\ call \in Calls /\ CallShape
      /\ call.done \in Nat /\ call.want \in Nat
  BY DEF Good, Inductive, TypeOK, Calls
<1>1. CASE ConcealStep
  <2>1. ConcealTarget - call.done \in Nat
    BY <1>0, <1>1 DEF ConcealStep, ConcealTarget, CallShape, Packets
  <2>2. heard' = Conceal(dec, ConcealTarget - call.done).heard
    BY <1>1 DEF ConcealStep
  <2> QED
    BY <1>0, <2>1, <2>2, ConcealedHears
<1>2. CASE DecodeStep
  <2> DEFINE left == call.want - call.done
  <2>1. PICK bits \in Payloads(dec.mode) :
          LET r == DecodeFrame(dec, bits, left) IN
            /\ heard' = r.heard
            /\ \/ dec' = r.dec
               \/ \E n : dec' = [r.dec EXCEPT !.lastPacketDuration = n]
    BY <1>2 DEF DecodeStep
  <2>2. /\ dec.mode \in Modes /\ dec.frameSize \in {1, 2, 4, 8, 16, 24}
        /\ call.frames \in Nat \ {0} /\ left = call.frames * dec.frameSize
    <3>1. call.kind = "decode"
      BY <1>2 DEF DecodeStep
    <3>2. /\ call.packet \in Packets /\ dec.mode = call.packet.mode
          /\ dec.frameSize = call.packet.size
          /\ call.frames \in Nat \ {0}
          /\ call.want = call.done + call.frames * call.packet.size
      BY <1>0, <3>1 DEF CallShape, Calls
    <3>3. dec.mode \in Modes /\ dec.frameSize \in {1, 2, 4, 8, 16, 24}
      BY <1>0, <3>2 DEF Lineage, Packets
    <3> DEFINE units == call.frames * dec.frameSize
    <3>4. units \in Nat /\ call.want = call.done + units
      BY <3>2, <3>3
    <3> HIDE DEF units
    <3>5. left = units
      BY <1>0, <3>4
    <3> QED
      BY <3>2, <3>3, <3>5 DEF units
  <2>3. left \in Nat \ {0} /\ left >= dec.frameSize
    BY <2>2
  <2> DEFINE r == DecodeFrame(dec, bits, left)
  <2> HIDE DEF left
  <2>4. /\ r.dec \in Decoder /\ (r.heard.hardSwitch => r.dec.prevRedundancy)
        /\ dec.prevRedundancy /\ r.heard.mode \in {"celt", "hybrid"} => r.heard.celt = "full"
    BY <1>0, <2>2, <2>3, FrameHears
  <2> HIDE DEF r
  <2>5. dec'.prevRedundancy = r.dec.prevRedundancy /\ heard' = r.heard
    BY <2>1, <2>4 DEF Decoder, r, left
  <2> QED
    BY <2>4, <2>5
<1>3. CASE RecoverStep
  <2> DEFINE d == WithHeader(dec, call.packet)
             size == call.packet.size
  <2>1. PICK bits \in {"lost", "plain"} :
          LET r == DecodeFrame(d, bits, size) IN
            /\ heard' = r.heard
            /\ dec' = [r.dec EXCEPT !.lastPacketDuration = call.want]
    BY <1>3 DEF RecoverStep
  <2>2. call.packet \in Packets
    BY <1>0, <1>3 DEF RecoverStep, CallShape
  <2>3. /\ d \in Decoder /\ Lineage(d) /\ d.mode \in Modes
        /\ d.frameSize = size /\ size \in {1, 2, 4, 8, 16, 24}
    BY <1>0, <2>2, WithHeaderKeepsLineage
  <2>4. d.prevRedundancy = dec.prevRedundancy
    BY <1>0 DEF WithHeader, Decoder
  <2>5. bits \in Payloads(d.mode)
    BY <2>3 DEF Payloads, Modes
  <2> DEFINE r == DecodeFrame(d, bits, size)
  <2> HIDE DEF d, size
  <2>6. /\ r.dec \in Decoder /\ (r.heard.hardSwitch => r.dec.prevRedundancy)
        /\ d.prevRedundancy /\ r.heard.mode \in {"celt", "hybrid"} => r.heard.celt = "full"
    BY <2>3, <2>5, FrameHears
  <2> HIDE DEF r
  <2>7. dec'.prevRedundancy = r.dec.prevRedundancy /\ heard' = r.heard
    BY <2>1, <2>6 DEF Decoder, r
  <2> QED
    BY <2>4, <2>6, <2>7
<1> QED
  BY <1>1, <1>2, <1>3 DEF Step

\* Outside the loops of decode_native_with nothing is heard.
LEMMA OthersHearNothing ==
    ASSUME Call \/ ResetState
    PROVE  heard' = Nothing /\ ~heard'.hardSwitch /\ heard'.mode = "none"
<1>1. heard' = Nothing
  BY DEF Call, CallConceal, CallDecode, CallRecover, Enter, ResetState
<1> QED
  BY <1>1 DEF Nothing

\* A switch between CELT-only and SILK is hidden, or its frame has spent its
\* redundancy on the next switch.
THEOREM SwitchesAreHidden == Spec => []SwitchesHidden
<1>1. Init => SwitchesHidden
  BY DEF Init, SwitchesHidden, Nothing
<1>2. Good /\ SwitchesHidden /\ [Next]_vars => SwitchesHidden'
  BY StepHears, OthersHearNothing DEF Next, SwitchesHidden, vars
<1> QED
  BY <1>1, <1>2, GoodInvariant, PTL DEF Spec

\* The memory that a redundant frame prepared is the one the next frame's CELT
\* continues from, decoded, recovered or concealed.
THEOREM RedundancyIsContinued == Spec => RedundancyCarriesOver
<1>1. Good /\ [Next]_vars =>
        [dec.prevRedundancy /\ heard'.mode \in {"celt", "hybrid"}
           => heard'.celt = "full"]_vars
  BY StepHears, OthersHearNothing DEF Next
<1> QED
  BY <1>1, GoodInvariant, PTL DEF Spec, RedundancyCarriesOver

-------------------------------------------------------------------------------
(***************************************************************************)
(* The steps of DecodeContract.  While a call is under way it has no       *)
(* result, wants something, and has left the reported duration alone; only *)
(* a recovery whose leading part is concealed has already overwritten it.  *)
(***************************************************************************)
UnderWay ==
    call.kind # "idle" =>
        /\ call.result = "none"
        /\ call.want > 0
        /\ \/ call.kind = "recover" /\ call.done = ConcealTarget
           \/ dec.lastPacketDuration = call.saved

\* A concealed frame that fails names its error, and no frame touches the
\* reported duration.
LEMMA ConcealKeepsDuration ==
    ASSUME NEW d \in Decoder, NEW n \in Nat
    PROVE  LET r == Conceal(d, n) IN
             /\ r.dec.lastPacketDuration = d.lastPacketDuration
             /\ ~r.ok => r.error # "none"
<1> DEFINE m    == ConcealMode(d)
           next == Lapse(AfterConceal(d, m), m)
           Kept(b) == b.lastPacketDuration = d.lastPacketDuration
<1>1. Kept(next)
  BY DEF Lapse, AfterConceal, Decoder
<1>2. \/ \E e \in {"BadArgument", "InternalError"}, b \in {d, next} :
            Conceal(d, n) = ErrResult(e, b)
      \/ \E b \in {d, next} : \E s, h : Conceal(d, n) = OkResult(b, s, h)
  BY DEF Conceal
<1>3. \A e, b : /\ ErrResult(e, b).dec = b /\ ErrResult(e, b).error = e
  BY DEF ErrResult
<1>4. \A b, s, h : OkResult(b, s, h).dec = b /\ OkResult(b, s, h).ok
  BY DEF OkResult
<1>5. \A b \in {d, next} : Kept(b)
  BY <1>1
<1> HIDE DEF m, next
<1> QED
  BY <1>2, <1>3, <1>4, <1>5

LEMMA DecodeFrameKeepsDuration ==
    ASSUME NEW d \in Decoder, NEW bits, NEW n \in Nat
    PROVE  LET r == DecodeFrame(d, bits, n) IN
             /\ r.dec.lastPacketDuration = d.lastPacketDuration
             /\ ~r.ok => r.error # "none"
<1>1. CASE bits = "lost"
  BY <1>1, ConcealKeepsDuration DEF DecodeFrame
<1>2. CASE bits = "overrun"
  BY <1>2 DEF DecodeFrame, ErrResult, Decoder
<1>3. CASE bits \notin {"lost", "overrun"}
  <2>1. DecodeFrame(d, bits, n).dec = AfterDecode(d, bits) /\ DecodeFrame(d, bits, n).ok
    BY <1>3 DEF DecodeFrame, OkResult
  <2>2. AfterDecode(d, bits).lastPacketDuration = d.lastPacketDuration
    BY DEF AfterDecode, Decoder
  <2> QED
    BY <2>1, <2>2
<1> QED
  BY <1>1, <1>2, <1>3

\* A call begins as the contract says.
LEMMA EnterBegins ==
    ASSUME Good, NEW kind \in Kinds \ {"idle"}, NEW want \in Nat \ {0},
           NEW p \in Packets \cup {NoPacket}, Enter(kind, want, p),
           dec'.lastPacketDuration = dec.lastPacketDuration
    PROVE  UnderWay' /\ Promise!Begin
<1>1. /\ call.kind = "idle"
      /\ call'.kind = kind /\ call'.want = want /\ call'.done = 0
      /\ call'.result = "none" /\ call'.saved = dec.lastPacketDuration
  BY DEF Enter
<1>2. UnderWay'
  BY <1>1 DEF UnderWay
<1> QED
  BY <1>1, <1>2 DEF Promise!Begin, Kinds

LEMMA CallBegins == Good /\ Call => UnderWay' /\ Promise!Begin
<1> SUFFICES ASSUME Good, Call PROVE UnderWay' /\ Promise!Begin
  OBVIOUS
<1>0. dec \in Decoder /\ Lineage(dec) /\ Requests \subseteq Nat \ {0}
  BY RequestsAssumption DEF Good, Inductive, TypeOK
<1>1. ASSUME NEW n \in Requests, CallConceal(n) PROVE UnderWay' /\ Promise!Begin
  BY <1>0, <1>1, EnterBegins DEF CallConceal, Kinds
<1>2. ASSUME NEW p \in Packets, CallDecode(p) PROVE UnderWay' /\ Promise!Begin
  <2>1. Enter("decode", p.frames * p.size, p) /\ dec' = WithHeader(dec, p)
    BY <1>2 DEF CallDecode
  <2>2. p.size \in {1, 2, 4, 8, 16, 24} /\ p.frames \in Nat \ {0}
    BY <1>0, WithHeaderKeepsLineage
  <2>3. p.frames * p.size \in Nat \ {0}
    BY <2>2
  <2>4. dec'.lastPacketDuration = dec.lastPacketDuration
    BY <1>0, <2>1 DEF WithHeader, Decoder
  <2> QED
    BY <2>1, <2>3, <2>4, EnterBegins DEF Kinds
<1>3. ASSUME NEW p \in Packets, NEW n \in Requests, CallRecover(p, n)
      PROVE  UnderWay' /\ Promise!Begin
  <2>1. n \in Nat \ {0} /\ dec' = dec
    BY <1>0, <1>3 DEF CallRecover
  <2>2. Enter("conceal", n, NoPacket) \/ Enter("recover", n, p)
    BY <1>3 DEF CallRecover
  <2> QED
    BY <2>1, <2>2, EnterBegins DEF Kinds
<1> QED
  BY <1>1, <1>2, <1>3 DEF Call

\* A call returns as the contract says, with an error or with all it wanted.
LEMMA LeaveFails ==
    ASSUME call \in Calls, UnderWay, call.kind # "idle",
           call.kind = "recover" => call.done # ConcealTarget,
           NEW e \in {"BadArgument", "InternalError"}, Leave(e, call.done),
           dec'.lastPacketDuration = dec.lastPacketDuration
    PROVE  UnderWay' /\ Promise!Fail
<1>1. /\ call'.kind = "idle" /\ call'.done = call.done /\ call'.result = e
  BY DEF Leave, Calls
<1>2. call.want > 0 /\ dec.lastPacketDuration = call.saved
  BY DEF UnderWay
<1>3. UnderWay'
  BY <1>1 DEF UnderWay
<1> QED
  BY <1>1, <1>2, <1>3 DEF Promise!Fail, Calls

LEMMA LeaveSucceeds ==
    ASSUME call \in Calls, UnderWay, call.kind # "idle",
           Leave("ok", call.want), dec'.lastPacketDuration = call.want
    PROVE  UnderWay' /\ Promise!Succeed
<1>1. /\ call'.kind = "idle" /\ call'.done = call.want /\ call'.result = "ok"
  BY DEF Leave, Calls
<1>2. call.want > 0 /\ call.want \in Nat
  BY DEF UnderWay, Calls
<1>3. UnderWay'
  BY <1>1 DEF UnderWay
<1> QED
  BY <1>1, <1>2, <1>3 DEF Promise!Succeed

\* A call that goes on has delivered something, and not all.
LEMMA GoesOnDelivering ==
    ASSUME call \in Calls, UnderWay, call.kind # "idle", NEW n \in Nat,
           call.done < n, n <= call.want,
           call'.kind = call.kind, call'.want = call.want, call'.done = n,
           call'.result = call.result, call'.saved = call.saved
    PROVE  Promise!Deliver
<1>1. call.done \in Nat /\ call.want \in Nat /\ call.done < call.want
      /\ n \in (call.done + 1)..call.want
  BY DEF Calls
<1> QED
  BY <1>1 DEF Promise!Deliver

LEMMA ConcealStepDelivers ==
    Good /\ UnderWay /\ ConcealStep => UnderWay' /\ Promise!ContractNext
<1> SUFFICES ASSUME Good, UnderWay, ConcealStep
             PROVE  UnderWay' /\ Promise!ContractNext
  OBVIOUS
<1> DEFINE left == ConcealTarget - call.done
           r    == Conceal(dec, left)
           done == call.done + r.size
<1>1. /\ dec \in Decoder /\ Lineage(dec) /\ call \in Calls /\ CallShape
      /\ call.done \in Nat /\ call.want \in Nat
  BY DEF Good, Inductive, TypeOK, Calls
<1>2. call.kind \in {"conceal", "recover"} /\ call.done < ConcealTarget
  BY <1>1 DEF ConcealStep, ConcealTarget
<1>3. /\ call.kind = "conceal" => ConcealTarget = call.want
      /\ call.kind = "recover" => ConcealTarget \in Nat /\ ConcealTarget < call.want
  <2>1. call.kind = "recover" =>
            /\ call.packet.size \in 1..24
            /\ call.done + call.packet.size <= call.want
            /\ ConcealTarget = call.want - call.packet.size
    BY <1>1 DEF CallShape, Packets, ConcealTarget
  <2> QED
    BY <1>1, <1>2, <2>1 DEF ConcealTarget
<1>4. left \in Nat \ {0} /\ ConcealTarget \in Nat
  BY <1>1, <1>2, <1>3
<1>5. /\ r.error \in {"none", "BadArgument", "InternalError"}
      /\ r.dec \in Decoder
      /\ r.size \in Nat /\ (r.ok => r.size \in 1..left)
      /\ r.dec.lastPacketDuration = dec.lastPacketDuration
      /\ ~r.ok => r.error # "none"
  BY <1>1, <1>4, ConcealKeepsLineage, ConcealKeepsDuration
<1> HIDE DEF r
<1>6. \/ /\ ~r.ok \/ r.size = 0
         /\ dec' = r.dec
         /\ Leave(IF r.ok THEN "InternalError" ELSE r.error, call.done)
      \/ /\ r.ok /\ done < ConcealTarget
         /\ dec' = r.dec
         /\ call' = [call EXCEPT !.done = done]
      \/ /\ r.ok /\ done >= ConcealTarget
         /\ dec' = [r.dec EXCEPT !.lastPacketDuration = done]
         /\ IF call.kind = "conceal"
            THEN Leave("ok", done)
            ELSE call' = [call EXCEPT !.done = done]
  BY DEF ConcealStep, r
<1>7. r.ok => done \in Nat /\ done > call.done /\ done <= ConcealTarget
  BY <1>1, <1>4, <1>5
<1> HIDE DEF done, left
<1>8. dec.lastPacketDuration = call.saved
  BY <1>2, <1>4, <1>1 DEF UnderWay
<1>9. CASE /\ ~r.ok \/ r.size = 0
           /\ dec' = r.dec
           /\ Leave(IF r.ok THEN "InternalError" ELSE r.error, call.done)
  <2> DEFINE e == IF r.ok THEN "InternalError" ELSE r.error
  <2>1. e \in {"BadArgument", "InternalError"}
    BY <1>5
  <2> HIDE DEF e
  <2>2. Leave(e, call.done) /\ dec'.lastPacketDuration = dec.lastPacketDuration
    BY <1>5, <1>9 DEF e
  <2>3. call.kind # "idle" /\ call.done # ConcealTarget
    BY <1>1, <1>2, <1>4
  <2>4. UnderWay' /\ Promise!Fail
    BY <1>1, <2>1, <2>2, <2>3, LeaveFails
  <2> QED
    BY <2>4 DEF Promise!ContractNext
<1>10. CASE r.ok /\ done < ConcealTarget /\ dec' = r.dec
            /\ call' = [call EXCEPT !.done = done]
  <2>1. /\ call'.kind = call.kind /\ call'.want = call.want /\ call'.done = done
        /\ call'.result = call.result /\ call'.saved = call.saved
    BY <1>1, <1>10 DEF Calls
  <2>2. done \in Nat /\ call.done < done /\ done <= call.want
    BY <1>1, <1>2, <1>3, <1>4, <1>7, <1>10
  <2>3. Promise!Deliver
    BY <1>1, <1>2, <2>1, <2>2, GoesOnDelivering
  <2>4. UnderWay'
    BY <1>2, <1>5, <1>8, <1>10, <2>1 DEF UnderWay
  <2> QED
    BY <2>3, <2>4 DEF Promise!ContractNext
<1>11. CASE /\ r.ok /\ done >= ConcealTarget
            /\ dec' = [r.dec EXCEPT !.lastPacketDuration = done]
            /\ IF call.kind = "conceal"
               THEN Leave("ok", done)
               ELSE call' = [call EXCEPT !.done = done]
  <2>1. done = ConcealTarget /\ done \in Nat
    BY <1>4, <1>7, <1>11
  <2>2. dec'.lastPacketDuration = done
    BY <1>5, <1>11 DEF Decoder
  <2>3. CASE call.kind = "conceal"
    <3>1. Leave("ok", call.want) /\ dec'.lastPacketDuration = call.want
      BY <1>3, <1>11, <2>1, <2>2, <2>3
    <3>2. UnderWay' /\ Promise!Succeed
      BY <1>1, <2>3, <3>1, LeaveSucceeds
    <3> QED
      BY <3>2 DEF Promise!ContractNext
  <2>4. CASE call.kind = "recover"
    <3>1. /\ call'.kind = call.kind /\ call'.want = call.want /\ call'.done = done
          /\ call'.result = call.result /\ call'.saved = call.saved
          /\ call'.packet = call.packet
      BY <1>1, <1>11, <2>4 DEF Calls
    <3>2. call.done < done /\ done <= call.want
      BY <1>1, <1>2, <1>3, <2>1, <2>4
    <3>3. Promise!Deliver
      BY <1>1, <2>1, <2>4, <3>1, <3>2, GoesOnDelivering
    <3>4. call'.done = ConcealTarget'
      BY <2>1, <2>4, <3>1 DEF ConcealTarget
    <3>5. UnderWay'
      BY <2>4, <3>1, <3>4 DEF UnderWay
    <3> QED
      BY <3>3, <3>5 DEF Promise!ContractNext
  <2> QED
    BY <1>2, <2>3, <2>4
<1> QED
  BY <1>6, <1>9, <1>10, <1>11

LEMMA DecodeStepDelivers ==
    Good /\ UnderWay /\ DecodeStep => UnderWay' /\ Promise!ContractNext
<1>0. SUFFICES ASSUME Good, UnderWay, call.kind = "decode", NEW bits \in Payloads(dec.mode),
                    LET r    == DecodeFrame(dec, bits, call.want - call.done)
                        done == call.done + r.size
                    IN  \/ /\ ~r.ok
                           /\ dec' = r.dec
                           /\ Leave(r.error, call.done)
                        \/ /\ r.ok
                           /\ call.frames > 1
                           /\ dec' = r.dec
                           /\ call' = [call EXCEPT !.done = done,
                                                   !.frames = call.frames - 1]
                        \/ /\ r.ok
                           /\ call.frames = 1
                           /\ dec' = [r.dec EXCEPT !.lastPacketDuration = done]
                           /\ Leave("ok", done)
             PROVE  UnderWay' /\ Promise!ContractNext
  BY DEF DecodeStep
<1> DEFINE left == call.want - call.done
           r    == DecodeFrame(dec, bits, left)
           done == call.done + r.size
           size == call.packet.size
<1>1. /\ dec \in Decoder /\ Lineage(dec) /\ call \in Calls
      /\ call.packet \in Packets
      /\ dec.mode = call.packet.mode /\ dec.frameSize = size
      /\ call.done \in Nat /\ call.want \in Nat
      /\ call.frames \in Nat \ {0}
      /\ call.want = call.done + call.frames * size
  BY <1>0 DEF Good, Inductive, TypeOK, CallShape, Calls
<1>2. dec.mode \in Modes /\ size \in {1, 2, 4, 8, 16, 24}
  BY <1>1 DEF Lineage, Packets
<1> HIDE DEF size
<1>3. left \in Nat \ {0} /\ left >= dec.frameSize
  <2>1. left = call.frames * size
    BY <1>1, <1>2
  <2> QED
    BY <1>1, <1>2, <2>1
<1> HIDE DEF left
<1>4. /\ r.dec \in Decoder
      /\ r.error \in {"none", "BadArgument", "InternalError"}
      /\ r.ok => r.size = size
      /\ r.dec.lastPacketDuration = dec.lastPacketDuration
      /\ ~r.ok => r.error # "none"
  <2>1. dec \in Decoder /\ Lineage(dec) /\ dec.frameSize = size
    BY <1>1
  <2> QED
    BY <2>1, <1>2, <1>3, DecodeFrameKeepsLineage, DecodeFrameKeepsDuration
<1> HIDE DEF r
<1>5. dec.lastPacketDuration = call.saved /\ call.kind = "decode" /\ UnderWay
  BY <1>0 DEF UnderWay
<1>6. \/ ~r.ok /\ dec' = r.dec /\ Leave(r.error, call.done)
      \/ /\ r.ok /\ call.frames > 1 /\ dec' = r.dec
         /\ call' = [call EXCEPT !.done = done, !.frames = call.frames - 1]
      \/ /\ r.ok /\ call.frames = 1
         /\ dec' = [r.dec EXCEPT !.lastPacketDuration = done]
         /\ Leave("ok", done)
  BY <1>0 DEF r, left
<1> HIDE DEF done
<1>7. CASE ~r.ok /\ dec' = r.dec /\ Leave(r.error, call.done)
  <2>1. UnderWay' /\ Promise!Fail
    BY <1>1, <1>4, <1>5, <1>7, LeaveFails
  <2> QED
    BY <2>1 DEF Promise!ContractNext
<1>8. CASE /\ r.ok /\ call.frames > 1 /\ dec' = r.dec
           /\ call' = [call EXCEPT !.done = done, !.frames = call.frames - 1]
  <2>1. done = call.done + size /\ done \in Nat
    BY <1>1, <1>2, <1>4, <1>8 DEF done
  <2>2. /\ call'.kind = call.kind /\ call'.want = call.want /\ call'.done = done
        /\ call'.result = call.result /\ call'.saved = call.saved
    BY <1>1, <1>8 DEF Calls
  <2>3. call.done < done /\ done <= call.want
    BY <1>1, <1>2, <2>1
  <2>4. Promise!Deliver
    BY <1>1, <1>5, <2>1, <2>2, <2>3, GoesOnDelivering
  <2>5. UnderWay'
    BY <1>4, <1>5, <1>8, <2>2 DEF UnderWay
  <2> QED
    BY <2>4, <2>5 DEF Promise!ContractNext
<1>9. CASE /\ r.ok /\ call.frames = 1
           /\ dec' = [r.dec EXCEPT !.lastPacketDuration = done]
           /\ Leave("ok", done)
  <2>1. done = call.want
    BY <1>1, <1>2, <1>4, <1>9 DEF done
  <2>2. dec'.lastPacketDuration = call.want
    BY <1>1, <1>4, <1>9, <2>1 DEF Decoder
  <2>3. UnderWay' /\ Promise!Succeed
    BY <1>1, <1>5, <1>9, <2>1, <2>2, LeaveSucceeds
  <2> QED
    BY <2>3 DEF Promise!ContractNext
<1> QED
  BY <1>6, <1>7, <1>8, <1>9, SMTT(30)

LEMMA RecoverStepSucceeds ==
    Good /\ UnderWay /\ RecoverStep => UnderWay' /\ Promise!ContractNext
<1> SUFFICES ASSUME Good, UnderWay, call.kind = "recover", call.done = ConcealTarget,
                    NEW bits \in {"lost", "plain"},
                    LET r == DecodeFrame(WithHeader(dec, call.packet), bits,
                                         call.packet.size)
                    IN  /\ r.ok
                        /\ dec' = [r.dec EXCEPT !.lastPacketDuration = call.want]
                        /\ Leave("ok", call.done + r.size)
             PROVE  UnderWay' /\ Promise!ContractNext
  BY DEF RecoverStep
<1> DEFINE d == WithHeader(dec, call.packet)
           size == call.packet.size
           r == DecodeFrame(d, bits, size)
<1>1. /\ dec \in Decoder /\ Lineage(dec) /\ call \in Calls
      /\ call.packet \in Packets
      /\ call.done \in Nat /\ call.want \in Nat
      /\ call.done + size <= call.want
  BY DEF Good, Inductive, TypeOK, CallShape, Calls
<1>2. /\ d \in Decoder /\ Lineage(d) /\ d.mode \in Modes
      /\ d.frameSize = size /\ size \in {1, 2, 4, 8, 16, 24}
  BY <1>1, WithHeaderKeepsLineage
<1>3. bits \in Payloads(d.mode)
  BY <1>2 DEF Payloads, Modes
<1> HIDE DEF d, size
<1>4. r.dec \in Decoder /\ (r.ok => r.size = size)
  BY <1>2, <1>3, DecodeFrameKeepsLineage
<1> HIDE DEF r
<1>5. /\ r.ok
      /\ dec' = [r.dec EXCEPT !.lastPacketDuration = call.want]
      /\ Leave("ok", call.done + r.size)
  BY DEF r, d, size
<1>6. call.done = call.want - size
  BY DEF ConcealTarget, size
<1>7. call.done + r.size = call.want
  BY <1>1, <1>2, <1>4, <1>5, <1>6
<1>8. dec'.lastPacketDuration = call.want
  BY <1>1, <1>4, <1>5 DEF Decoder
<1>9. UnderWay' /\ Promise!Succeed
  BY <1>1, <1>5, <1>7, <1>8, LeaveSucceeds
<1> QED
  BY <1>9 DEF Promise!ContractNext

LEMMA ResetForgets == ResetState => UnderWay' /\ Promise!Forget
<1> SUFFICES ASSUME ResetState PROVE UnderWay' /\ Promise!Forget
  OBVIOUS
<1>1. /\ call.kind = "idle" /\ call'.kind = "idle" /\ call'.done = call.done
      /\ call'.result = "none" /\ dec'.lastPacketDuration = 0
  BY DEF ResetState
<1> QED
  BY <1>1 DEF UnderWay, Promise!Forget

\* Every step of the decoder is a step of DecodeContract or leaves its variables
\* alone: what KeepsPromise says but for its fairness.  decode_native_with
\* delivers, in whatever portions its loops take, exactly what the call was for,
\* and a call that fails leaves the duration it reports untouched.
THEOREM PromiseIsKept ==
    Spec => /\ Promise!ContractInit
            /\ [][Promise!ContractNext]_(Promise!contractVars)
<1>1. Init => UnderWay /\ Promise!ContractInit
  BY DEF Init, UnderWay, Promise!ContractInit
<1>2. Good /\ UnderWay /\ [Next]_vars =>
        UnderWay' /\ [Promise!ContractNext]_(Promise!contractVars)
  <2>1. Good /\ Call => UnderWay' /\ Promise!ContractNext
    BY CallBegins DEF Promise!ContractNext
  <2>2. ResetState => UnderWay' /\ Promise!ContractNext
    BY ResetForgets DEF Promise!ContractNext
  <2>3. Good /\ UnderWay /\ Step => UnderWay' /\ Promise!ContractNext
    BY ConcealStepDelivers, DecodeStepDelivers, RecoverStepSucceeds DEF Step
  <2>4. UnderWay /\ UNCHANGED vars => UnderWay' /\ UNCHANGED Promise!contractVars
    <3>1. SUFFICES ASSUME UnderWay, dec' = dec, call' = call
                   PROVE  UnderWay' /\ UNCHANGED Promise!contractVars
      BY DEF vars
    <3>2. ConcealTarget' = ConcealTarget
      BY <3>1 DEF ConcealTarget
    <3>3. UnderWay'
      BY <3>1, <3>2 DEF UnderWay
    <3> QED
      BY <3>1, <3>3 DEF Promise!contractVars
  <2> QED
    BY <2>1, <2>2, <2>3, <2>4 DEF Next
<1> QED
  BY <1>1, <1>2, GoodInvariant, PTL DEF Spec
===============================================================================
