-------------------------- MODULE MultistreamProofs ---------------------------
(***************************************************************************)
(* The multistream encoder and decoder, for all layouts, packets and       *)
(* numbers of streams: whatever arrives, the streams stay in step and the  *)
(* channels are in place; what is sent arrives, and is heard whole.        *)
(***************************************************************************)
EXTENDS Multistream, PacketProofs

-------------------------------------------------------------------------------
(***************************************************************************)
(* What lies behind the streams of a packet, by the number of streams.     *)
(***************************************************************************)

\* What lies behind one stream of the packets in a set.
Beyond(rests, stream) ==
    UNION {{SubSeq(r, q.length + 1, Len(r)) : q \in Parse(r, SelfDelimited(stream))} : r \in rests}

\* f says what lies behind the first streams, up to n of them.
Reads(packet, n, f) ==
    f = [k \in 0..n |-> IF k = 0 THEN {packet} ELSE Beyond(f[k - 1], k - 1)]

\* Those sets, one by one.
LEMMA ReadsAt ==
    ASSUME NEW packet, NEW n \in Nat, NEW f, Reads(packet, n, f)
    PROVE  /\ f[0] = {packet}
           /\ \A k \in 1..n : f[k] = Beyond(f[k - 1], k - 1)
    <1>1. \A k \in 0..n : f[k] = IF k = 0 THEN {packet} ELSE Beyond(f[k - 1], k - 1)
        BY Zenon DEF Reads
    <1>2. 0 \in 0..n /\ \A k \in 1..n : k \in 0..n /\ k # 0
        OBVIOUS
    <1>. QED BY <1>1, <1>2

\* They go on,
LEMMA ReadsStep ==
    ASSUME NEW packet, NEW n \in Nat, NEW f, Reads(packet, n, f)
    PROVE  \E g : Reads(packet, n + 1, g) /\ g[n] = f[n]
    <1>0. \A k \in 1..n : f[k] = Beyond(f[k - 1], k - 1)
        <2>1. f[0] = {packet} /\ \A k \in 1..n : f[k] = Beyond(f[k - 1], k - 1)
            BY ONLY n \in Nat, Reads(packet, n, f), ReadsAt
        <2>. QED BY <2>1
    <1>. DEFINE g == [k \in 0..(n + 1) |-> IF k = n + 1 THEN Beyond(f[n], n) ELSE f[k]]
    <1>1. \A k \in 0..(n + 1) : g[k] = IF k = 0 THEN {packet} ELSE Beyond(g[k - 1], k - 1)
        <2>. TAKE k \in 0..(n + 1)
        <2>1. CASE k = 0
            BY <2>1 DEF Reads
        <2>2. CASE k = n + 1
            <3>1. g[k] = Beyond(f[n], n) /\ g[k - 1] = f[n] /\ k - 1 = n
                BY <2>2
            <3>. QED BY <3>1, <2>2
        <2>3. CASE k \in 1..n
            <3>1. g[k] = f[k] /\ g[k - 1] = f[k - 1]
                BY <2>3
            <3>2. f[k] = Beyond(f[k - 1], k - 1)
                BY <2>3, <1>0
            <3>. QED BY <3>1, <3>2, <2>3
        <2>. QED BY <2>1, <2>2, <2>3
    <1>2. g[n] = f[n] /\ g = [k \in 0..(n + 1) |-> g[k]]
        OBVIOUS
    <1>. HIDE DEF g
    <1>3. Reads(packet, n + 1, g)
        BY <1>1, <1>2 DEF Reads
    <1>. QED BY <1>2, <1>3

\* to any number of streams,
LEMMA ReadsExists ==
    ASSUME NEW packet
    PROVE  \A n \in Nat : \E f : Reads(packet, n, f)
    <1>. DEFINE S == {n \in Nat : \E f : Reads(packet, n, f)}
    <1>1. 0 \in S
        <2>1. Reads(packet, 0, [k \in 0..0 |-> {packet}])
            BY DEF Reads
        <2>. QED BY <2>1
    <1>2. \A n \in Nat : n \in S => n + 1 \in S
        BY ReadsStep
    <1>. HIDE DEF S
    <1>3. Nat \subseteq S
        BY <1>1, <1>2, Inductive
    <1>. QED BY <1>3 DEF S

\* in one way.
LEMMA ReadsUnique ==
    ASSUME NEW packet, NEW n \in Nat, NEW f, Reads(packet, n, f), NEW g, Reads(packet, n, g)
    PROVE  \A k \in 0..n : f[k] = g[k]
    <1>. DEFINE S == {k \in Nat : k <= n => f[k] = g[k]}
    <1>1. 0 \in S
        BY DEF Reads
    <1>2. ASSUME NEW k \in Nat, k \in S
          PROVE  k + 1 \in S
        <2>1. CASE k + 1 <= n
            <3>1. k + 1 \in 0..n /\ k + 1 # 0 /\ (k + 1) - 1 = k
                BY <2>1
            <3>2. f[k + 1] = Beyond(f[k], k) /\ g[k + 1] = Beyond(g[k], k)
                BY <3>1 DEF Reads
            <3>3. f[k] = g[k]
                BY <1>2, <2>1
            <3>. QED BY <3>2, <3>3
        <2>. QED BY <2>1
    <1>. HIDE DEF S
    <1>3. Nat \subseteq S
        BY <1>1, <1>2, Inductive
    <1>. QED BY <1>3 DEF S

\* What lies behind n streams of a packet, read one after another.
LEMMA BehindStep ==
    ASSUME NEW packet, NEW n \in Nat
    PROVE  /\ Behind(packet, 0) = {packet}
           /\ Behind(packet, n + 1) = Beyond(Behind(packet, n), n)
    <1>1. \A m \in Nat : \E f : Reads(packet, m, f) /\ Behind(packet, m) = f[m]
        <2>. TAKE m \in Nat
        <2>1. PICK f : Reads(packet, m, f)
            BY ReadsExists
        <2>2. f = [k \in 0..m |-> IF k = 0 THEN {packet} ELSE
                      UNION {{SubSeq(r, q.length + 1, Len(r)) :
                                q \in Parse(r, SelfDelimited(k - 1))} : r \in f[k - 1]}]
            BY <2>1, Zenon DEF Reads, Beyond
        <2>. QED BY <2>2, Zenon DEF Behind, Reads, Beyond
    <1>2. Behind(packet, 0) = {packet}
        <2>1. PICK f : Reads(packet, 0, f) /\ Behind(packet, 0) = f[0]
            BY <1>1
        <2>. QED BY <2>1, ReadsAt
    <1>3. PICK f : Reads(packet, n, f) /\ Behind(packet, n) = f[n]
        BY <1>1
    <1>4. PICK g : Reads(packet, n + 1, g) /\ Behind(packet, n + 1) = g[n + 1]
        BY <1>1
    <1>5. PICK h : Reads(packet, n + 1, h) /\ h[n] = f[n]
        BY <1>3, ReadsStep
    <1>6. g[n] = h[n]
        BY <1>4, <1>5, ReadsUnique
    <1>7. g[n + 1] = Beyond(g[n], n)
        <2>1. n + 1 \in 1..(n + 1) /\ (n + 1) - 1 = n /\ n + 1 \in Nat
            OBVIOUS
        <2>. QED BY <1>4, <2>1, ReadsAt
    <1>. QED BY <1>2, <1>3, <1>4, <1>5, <1>6, <1>7


-------------------------------------------------------------------------------
(***************************************************************************)
(* The shape of the state: what the other invariants rest on.              *)
(***************************************************************************)

\* Before the encoder and the decoder are created.
NotCreated ==
    /\ layouts = [encoder |-> NoLayout, decoder |-> NoLayout]
    /\ encoder = IdleEncoder /\ decoder = IdleDecoder
    /\ channel = <<>> /\ sent = <<>> /\ played = <<>>

\* Once they are created, with layouts the constructors accept.
Created ==
    /\ layouts \in Layouts
    /\ ValidEncoderLayout(EncLayout) /\ ValidLayout(DecLayout)

\* What the encoder keeps of a stream it has sent.
SentRecords ==
    [frames : {p.frames : p \in StreamPackets}, units : {p.units : p \in StreamPackets},
     channels : {Coded(EncLayout, stream) : stream \in Nat}]

\* A call of the encoder has a packet of each stream before the one it is at, and
\* the decoder is idle meanwhile; what it has of a stream are that stream's channels.
EncoderShape ==
    /\ encoder = [stream |-> encoder.stream, size |-> encoder.size, units |-> encoder.units,
                  written |-> encoder.written, error |-> encoder.error]
    /\ encoder.stream \in {None} \cup 0..EncLayout.streams
    /\ encoder.written \in Bytes
    /\ encoder.stream # None =>
         /\ decoder.stream = None /\ decoder.units = 0
         /\ Len(sent) = encoder.stream /\ channel = <<>>
    /\ sent \in Seq(SentRecords) /\ channel \in Bytes
    /\ \A stream \in Nat : stream < Len(sent) =>
         sent[stream + 1].channels = Coded(EncLayout, stream)

\* A call of the decoder reads bytes, and each stream has its decoder.
DecoderShape ==
    /\ decoder = [stream |-> decoder.stream, rest |-> decoder.rest, units |-> decoder.units,
                  lost |-> decoder.lost, frames |-> decoder.frames, error |-> decoder.error]
    /\ decoder.stream \in {None} \cup 0..DecLayout.streams
    /\ decoder.rest \in Bytes /\ decoder.lost \in BOOLEAN
    /\ played = [stream \in Streams |-> played[stream]]

\* Both sides.
MultiShape == (NotCreated \/ Created) /\ EncoderShape /\ DecoderShape

\* The output has its channels.
OutputShape ==
    /\ pcm = [c \in DOMAIN pcm |-> pcm[c]]
    /\ Created => DOMAIN pcm = 1..DecLayout.channels

\* The shape of the state.
StreamShape == MultiShape /\ OutputShape

\* What a created encoder and decoder know of their layouts.
LEMMA LayoutLemma ==
    ASSUME Created
    PROVE  /\ EncLayout \in LayoutRecords /\ DecLayout \in LayoutRecords
           /\ EncLayout.streams \in Nat \ {0} /\ EncLayout.coupled \in Nat
           /\ DecLayout.streams = EncLayout.streams /\ DecLayout.coupled = EncLayout.coupled
           /\ EncLayout # NoLayout /\ DecLayout # NoLayout
    <1>1. /\ EncLayout \in LayoutRecords /\ DecLayout \in LayoutRecords
          /\ DecLayout.streams = EncLayout.streams /\ DecLayout.coupled = EncLayout.coupled
        BY LayoutsAssumption DEF Created, EncLayout, DecLayout
    <1>2. EncLayout.streams > 0 /\ DecLayout.streams > 0
        BY DEF Created, ValidEncoderLayout, ValidLayout
    <1>3. NoLayout.streams = 0
        BY DEF NoLayout, Layout
    <1>4. EncLayout.streams \in Nat /\ EncLayout.coupled \in Nat
        BY <1>1 DEF LayoutRecords
    <1>. QED BY <1>1, <1>2, <1>3, <1>4

\* Created, the layouts stay.
LEMMA KeptLayouts ==
    ASSUME UNCHANGED layouts
    PROVE  /\ EncLayout' = EncLayout /\ DecLayout' = DecLayout /\ Created' = Created
           /\ Streams' = Streams /\ SentRecords' = SentRecords
    BY DEF EncLayout, DecLayout, Created, Streams, SentRecords

\* Only a decoder and an encoder that are created do more than wait.
LEMMA AtWork ==
    ASSUME StreamShape, EncLayout # NoLayout
    PROVE  /\ Created
           /\ EncLayout.streams \in Nat \ {0} /\ DecLayout.streams = EncLayout.streams
           /\ DecLayout.coupled = EncLayout.coupled /\ DecLayout # NoLayout
           /\ EncLayout.coupled \in Nat
    <1>1. Created
        BY DEF StreamShape, MultiShape, NotCreated, EncLayout
    <1>. QED BY <1>1, LayoutLemma

\* Whoever works was created.
LEMMA BusyIsCreated ==
    ASSUME StreamShape,
           Encoding(encoder.stream) \/ Decoding \/ Idle \/ EncLayout # NoLayout \/ DecLayout # NoLayout
    PROVE  EncLayout # NoLayout
    <1>1. CASE NotCreated
        <2>1. encoder.stream = None /\ decoder.stream = None
            BY <1>1 DEF NotCreated, IdleEncoder, IdleDecoder
        <2>2. EncLayout = NoLayout /\ DecLayout = NoLayout
            BY <1>1 DEF NotCreated, EncLayout, DecLayout
        <2>. QED BY <2>1, <2>2 DEF Encoding, Decoding, Idle
    <1>2. CASE Created
        BY <1>2, LayoutLemma
    <1>. QED BY <1>1, <1>2 DEF StreamShape, MultiShape


-------------------------------------------------------------------------------
(***************************************************************************)
(* The steps, by what they do.                                             *)
(***************************************************************************)

\* The decoder has given up, or has refused its packet.
NoPacket(error) ==
    [stream |-> None, rest |-> <<>>, units |-> 0, lost |-> FALSE, frames |-> <<>>,
     error |-> error]

\* A call conceals, refuses its packet, or begins to decode a packet whose duration fits.
LEMMA CallDecoderLemma ==
    ASSUME NEW packet \in Bytes, NEW units, CallDecoder(packet, units),
           EncLayout.streams \in Nat
    PROVE  \/ packet = <<>>
              /\ decoder' = [stream |-> 0, rest |-> <<>>, units |-> units, lost |-> TRUE,
                             frames |-> <<>>, error |-> "none"]
           \/ decoder' = NoPacket("room")
           \/ decoder' = NoPacket("invalid")
              /\ (Len(packet) < SmallestPacket \/ Validated(packet) = {})
           \/ /\ decoder' = [stream |-> 0, rest |-> packet, units |-> units, lost |-> FALSE,
                             frames |-> <<>>, error |-> "none"]
              /\ Validated(packet) # {} /\ \A d \in Validated(packet) : ~(d > units)
    <1>0. Len(packet) \in Nat /\ SmallestPacket \in Int
        BY DEF Bytes, SmallestPacket
    <1>. DEFINE long == Len(packet) >= SmallestPacket
                short == Len(packet) < SmallestPacket
                fits == \E d \in Validated(packet) : d > units
                none == Validated(packet) = {}
    <1>1. decoder' = CASE packet = <<>> ->
                            [IdleDecoder EXCEPT !.stream = 0, !.units = units, !.lost = TRUE]
                       [] packet # <<>> /\ short -> [IdleDecoder EXCEPT !.error = "invalid"]
                       [] packet # <<>> /\ long /\ none -> [IdleDecoder EXCEPT !.error = "invalid"]
                       [] packet # <<>> /\ long /\ fits -> [IdleDecoder EXCEPT !.error = "room"]
                       [] OTHER ->
                            [IdleDecoder EXCEPT !.stream = 0, !.units = units, !.rest = packet]
        BY Zenon DEF CallDecoder
    <1>6. (short <=> ~long) /\ ~(none /\ fits)
        BY <1>0
    <1>. HIDE DEF long, short, fits, none
    <1>2. CASE packet = <<>>
        <2>1. decoder' = [IdleDecoder EXCEPT !.stream = 0, !.units = units, !.lost = TRUE]
            BY <1>1, <1>2
        <2>. QED BY <1>2, <2>1 DEF IdleDecoder
    <1>3. CASE packet # <<>> /\ (short \/ (long /\ none))
        <2>1. decoder' = [IdleDecoder EXCEPT !.error = "invalid"]
            BY <1>1, <1>3, <1>6
        <2>. QED BY <1>3, <2>1 DEF IdleDecoder, NoPacket, short, none
    <1>5. CASE packet # <<>> /\ long /\ ~none /\ fits
        <2>1. decoder' = [IdleDecoder EXCEPT !.error = "room"]
            BY <1>1, <1>5, <1>6
        <2>. QED BY <2>1 DEF IdleDecoder, NoPacket
    <1>4. CASE packet # <<>> /\ ~(short \/ (long /\ (none \/ fits)))
        <2>2. long
            BY <1>0, <1>4 DEF long, short
        <2>1. decoder' = [IdleDecoder EXCEPT !.stream = 0, !.units = units, !.rest = packet]
            BY <1>1, <1>4, <2>2
        <2>. QED BY <1>4, <2>1, <2>2 DEF IdleDecoder, none, fits
    <1>. QED BY <1>2, <1>3, <1>4, <1>5

\* A stream is written.
StreamWritten(p) ==
    LET stream == encoder.stream
    IN  /\ Encoding(stream) /\ UNCHANGED <<layouts, channel, decoder, played, pcm, taken>>
        /\ p.units = encoder.units
        /\ encoder' = [encoder EXCEPT
                         !.stream = stream + 1,
                         !.written = encoder.written \o WrittenPacket(p.bytes, SelfDelimited(stream))]
        /\ sent' = Append(sent, [frames |-> p.frames, units |-> p.units,
                                 channels |-> Coded(EncLayout, stream)])

\* Either that, or the encoder fails.
LEMMA EncodeStreamLemma ==
    ASSUME NEW p, EncodeStream(p)
    PROVE  (\E error : EncoderFails(error)) \/ StreamWritten(p)
    BY Zenon DEF EncodeStream, StreamWritten

\* A stream is played, for so long.
StreamPlayed(units) ==
    LET stream == decoder.stream
    IN  /\ Decoding /\ UNCHANGED <<layouts, encoder, clocks, sent, channel, calls, taken>>
        /\ played' = [played EXCEPT ![stream] = played[stream] + units]
        /\ pcm' = Copied(DecLayout, stream, Heard(stream), pcm)

\* A lost packet's stream is concealed.
Concealed ==
    /\ decoder.lost /\ StreamPlayed(decoder.units)
    /\ decoder' = [decoder EXCEPT !.stream = decoder.stream + 1]

\* The packet is given up halfway: a stream is longer than there is room for.
Late ==
    /\ Decoding
    /\ UNCHANGED <<layouts, encoder, clocks, sent, channel, calls, taken, played, pcm>>
    /\ decoder' = NoPacket("late")

\* Or the stream's decoder fails.
StreamFailed ==
    /\ Decoding /\ UNCHANGED <<layouts, encoder, clocks, sent, channel, calls, taken, pcm>>
    /\ \E part \in PlayedAtFailure(decoder.stream) :
         played' = [played EXCEPT ![decoder.stream] = played[decoder.stream] + part]
    /\ decoder' = NoPacket("decoder")

\* A stream is decoded.
Decoded(q, d) ==
    /\ ~decoder.lost /\ StreamPlayed(d) /\ ~(d > decoder.units)
    /\ decoder' = [decoder EXCEPT !.stream = decoder.stream + 1, !.units = d,
                      !.rest = SubSeq(decoder.rest, q.length + 1, Len(decoder.rest)),
                      !.frames = Append(decoder.frames, q.frames)]

\* There is nothing else.
LEMMA DecodeStreamLemma ==
    ASSUME DecodeStream
    PROVE  \/ Concealed
           \/ ~decoder.lost /\ \E q \in Parse(decoder.rest, SelfDelimited(decoder.stream)) :
                \E d \in Duration(SubSeq(decoder.rest, 1, q.length)) :
                  (Late /\ d > decoder.units) \/ Decoded(q, d)
           \/ StreamFailed
    <1>. DEFINE Conceals ==
                    /\ decoder.lost
                    /\ played' = [played EXCEPT ![decoder.stream] =
                                   played[decoder.stream] + decoder.units]
                    /\ decoder' = [decoder EXCEPT !.stream = decoder.stream + 1]
                    /\ pcm' = Copied(DecLayout, decoder.stream, Heard(decoder.stream), pcm)
                Plays(q, d) ==
                    IF d > decoder.units THEN DecoderFails("late")
                    ELSE /\ played' = [played EXCEPT ![decoder.stream] = played[decoder.stream] + d]
                         /\ decoder' = [decoder EXCEPT !.stream = decoder.stream + 1, !.units = d,
                              !.rest = SubSeq(decoder.rest, q.length + 1, Len(decoder.rest)),
                              !.frames = Append(decoder.frames, q.frames)]
                         /\ pcm' = Copied(DecLayout, decoder.stream, Heard(decoder.stream), pcm)
                Fails ==
                    /\ \E part \in PlayedAtFailure(decoder.stream) :
                         played' = [played EXCEPT ![decoder.stream] = played[decoder.stream] + part]
                    /\ decoder' = [IdleDecoder EXCEPT !.error = "decoder"]
                    /\ UNCHANGED pcm
    <1>1. \/ Conceals
          \/ ~decoder.lost /\ \E q \in Parse(decoder.rest, SelfDelimited(decoder.stream)) :
               \E d \in Duration(SubSeq(decoder.rest, 1, q.length)) : Plays(q, d)
          \/ Fails
        BY Zenon DEF DecodeStream
    <1>2. Decoding /\ UNCHANGED <<layouts, encoder, clocks, sent, channel, calls, taken>>
        BY Zenon DEF DecodeStream
    <1>3. CASE Conceals
        BY <1>2, <1>3, Zenon DEF Concealed, StreamPlayed
    <1>4. ASSUME ~decoder.lost, NEW q \in Parse(decoder.rest, SelfDelimited(decoder.stream)),
                 NEW d \in Duration(SubSeq(decoder.rest, 1, q.length)), Plays(q, d)
          PROVE  (Late /\ d > decoder.units) \/ Decoded(q, d)
        <2>1. CASE d > decoder.units
            <3>1. decoder' = NoPacket("late") /\ UNCHANGED <<played, pcm>>
                BY <1>4, <2>1 DEF DecoderFails, NoPacket, IdleDecoder
            <3>. QED BY <1>2, <2>1, <3>1 DEF Late
        <2>2. CASE ~(d > decoder.units)
            BY <1>2, <1>4, <2>2, Zenon DEF Decoded, StreamPlayed
        <2>. QED BY <2>1, <2>2
    <1>5. CASE Fails
        <2>1. decoder' = NoPacket("decoder")
            BY <1>5 DEF NoPacket, IdleDecoder
        <2>. QED BY <1>2, <1>5, <2>1, Zenon DEF StreamFailed
    <1>. HIDE DEF Conceals, Plays, Fails
    <1>. QED BY <1>1, <1>3, <1>4, <1>5

\* The encoder gives up.
EncoderRefuses ==
    EncLayout # NoLayout /\ Encoding(encoder.stream) /\ \E error : EncoderFails(error)

\* The steps of the specification.
LEMMA StepCases ==
    ASSUME StreamShape, Next
    PROVE  \/ \E l \in Layouts : Create(l)
           \/ \E size, units : CallEncoder(size, units)
           \/ EncoderRefuses
           \/ \E p \in StreamPackets : EncodeStream(p) /\ StreamWritten(p)
           \/ ReturnPacket
           \/ \E packet \in Bytes : \E units \in Rooms : CallDecoder(packet, units)
           \/ DecodeStream
           \/ ReturnSound
    <1>. USE DEF EncoderRefuses
    <1>1. channel \in Bytes
        BY DEF StreamShape, MultiShape, EncoderShape
    <1>2. CASE RefuseStream
        BY <1>2, BusyIsCreated DEF RefuseStream
    <1>3. CASE FailStream
        BY <1>3, BusyIsCreated DEF FailStream
    <1>4. CASE \E p \in StreamPackets : EncodeStream(p)
        <2>1. PICK p \in StreamPackets : EncodeStream(p)
            BY <1>4
        <2>2. EncLayout # NoLayout /\ Encoding(encoder.stream)
            BY <2>1, BusyIsCreated DEF EncodeStream
        <2>. QED BY <2>1, <2>2, EncodeStreamLemma
    <1>5. CASE \E units \in Rooms : Receive(units)
        <2>1. <<>> \in Bytes
            BY DEF Bytes
        <2>. QED BY <1>1, <1>5, <2>1 DEF Receive
    <1>6. CASE \E units \in Rooms : \E n \in Cuts : ReceiveCut(n, units)
        <2>1. PICK units \in Rooms : \E n \in Cuts : ReceiveCut(n, units)
            BY <1>6
        <2>2. PICK n \in Cuts : ReceiveCut(n, units)
            BY <2>1
        <2>3. SubSeq(channel, 1, n) \in Bytes
            BY <1>1, <2>2 DEF ReceiveCut, Bytes
        <2>. QED BY <2>2, <2>3 DEF ReceiveCut
    <1>7. CASE \E packet \in Foreign, units \in Rooms : ReceiveForeign(packet, units)
        BY <1>7, ForeignAssumption DEF ReceiveForeign
    <1>. QED BY <1>2, <1>3, <1>4, <1>5, <1>6, <1>7 DEF Next


-------------------------------------------------------------------------------
(***************************************************************************)
(* Every step keeps the shape.                                             *)
(***************************************************************************)

\* Init has the shape.
LEMMA ShapeInit == Init => StreamShape
    <1>. SUFFICES ASSUME Init PROVE StreamShape
        OBVIOUS
    <1>1. NotCreated
        BY DEF Init, NotCreated
    <1>2. EncLayout.streams = 0 /\ DecLayout.streams = 0
        BY DEF Init, EncLayout, DecLayout, NoLayout, Layout
    <1>3. ~Created
        BY <1>2, LayoutLemma
    <1>4. <<>> \in Bytes /\ <<>> \in Seq(SentRecords) /\ Len(<<>>) = 0
        BY DEF Bytes
    <1>5. /\ encoder.stream = None /\ encoder.written = <<>> /\ decoder.stream = None
          /\ decoder.rest = <<>> /\ decoder.lost = FALSE
          /\ sent = <<>> /\ channel = <<>>
        BY DEF Init, IdleEncoder, IdleDecoder
    <1>6. EncoderShape
        BY <1>4, <1>5 DEF EncoderShape, Init, IdleEncoder
    <1>7. DecoderShape
        <2>1. Streams = {}
            BY <1>2 DEF Streams
        <2>2. played = [stream \in Streams |-> played[stream]]
            BY <2>1 DEF Init
        <2>. QED BY <1>4, <1>5, <2>2 DEF DecoderShape, Init, IdleDecoder
    <1>8. pcm = [c \in DOMAIN pcm |-> pcm[c]]
        BY DEF Init
    <1>. QED BY <1>1, <1>3, <1>6, <1>7, <1>8 DEF StreamShape, MultiShape, OutputShape

\* Create.
LEMMA ShapeCreate ==
    ASSUME StreamShape, NEW l \in Layouts, Create(l)
    PROVE  StreamShape'
    <1>1. NotCreated
        BY LayoutLemma DEF StreamShape, MultiShape, Create
    <1>2. Created'
        BY DEF Create, Created, EncLayout, DecLayout
    <1>3. EncLayout' = l.encoder /\ DecLayout' = l.decoder /\ l.encoder.streams \in Nat
          /\ l.decoder.streams = l.encoder.streams
        BY LayoutsAssumption DEF Create, EncLayout, DecLayout, LayoutRecords
    <1>4. <<>> \in Bytes /\ \A s : <<>> \in Seq(s) /\ Len(<<>>) = 0
        BY DEF Bytes
    <1>5. /\ encoder' = IdleEncoder /\ decoder' = IdleDecoder /\ channel' = <<>> /\ sent' = <<>>
        BY <1>1 DEF Create, NotCreated
    <1>6. EncoderShape'
        <2>1. <<>> \in Seq(SentRecords')
            BY <1>4
        <2>. QED BY <1>4, <1>5, <2>1 DEF EncoderShape, IdleEncoder
    <1>7. DecoderShape'
        <2>1. played' = [stream \in Streams' |-> played'[stream]]
            BY <1>3 DEF Create, Streams
        <2>. QED BY <1>4, <1>5, <2>1 DEF DecoderShape, IdleDecoder
    <1>8. OutputShape'
        BY <1>3 DEF Create, OutputShape
    <1>. QED BY <1>2, <1>6, <1>7, <1>8 DEF StreamShape, MultiShape

\* The encoder fails.
LEMMA EncoderStops ==
    ASSUME StreamShape, EncLayout # NoLayout, NEW error, EncoderFails(error)
    PROVE  StreamShape'
    <1>1. Created
        BY AtWork
    <1>2. UNCHANGED <<layouts, decoder, played, pcm>> /\ sent' = <<>> /\ channel' = <<>>
          /\ encoder' = [IdleEncoder EXCEPT !.error = error]
        BY DEF EncoderFails
    <1>3. EncLayout' = EncLayout /\ DecLayout' = DecLayout /\ Created'
          /\ Streams' = Streams /\ SentRecords' = SentRecords
        BY <1>1, <1>2, KeptLayouts
    <1>4. <<>> \in Bytes /\ \A s : <<>> \in Seq(s) /\ Len(<<>>) = 0
        BY DEF Bytes
    <1>5. EncoderShape'
        BY <1>2, <1>3, <1>4 DEF EncoderShape, IdleEncoder
    <1>6. DecoderShape'
        BY <1>2, <1>3 DEF StreamShape, MultiShape, DecoderShape
    <1>7. OutputShape'
        BY <1>1, <1>2, <1>3 DEF StreamShape, OutputShape
    <1>. QED BY <1>3, <1>5, <1>6, <1>7 DEF StreamShape, MultiShape

\* CallEncoder.
LEMMA ShapeCallEncoder ==
    ASSUME StreamShape, NEW size, NEW units, CallEncoder(size, units)
    PROVE  StreamShape'
    <1>1. Created /\ EncLayout.streams \in Nat
        BY AtWork DEF CallEncoder, Idle
    <1>2. UNCHANGED <<layouts, played, pcm>> /\ sent' = <<>> /\ channel' = <<>>
          /\ decoder' = IdleDecoder
        BY DEF CallEncoder
    <1>3. EncLayout' = EncLayout /\ DecLayout' = DecLayout /\ Created'
          /\ Streams' = Streams /\ SentRecords' = SentRecords
        BY <1>1, <1>2, KeptLayouts
    <1>4. <<>> \in Bytes /\ \A s : <<>> \in Seq(s) /\ Len(<<>>) = 0
        BY DEF Bytes
    <1>5. EncoderShape'
        <2>1. \/ encoder' = [IdleEncoder EXCEPT !.error = "small"]
              \/ encoder' = [IdleEncoder EXCEPT !.stream = 0, !.size = size, !.units = units]
            BY DEF CallEncoder
        <2>2. decoder'.stream = None /\ decoder'.units = 0
            BY <1>2 DEF IdleDecoder
        <2>3. 0 \in 0..EncLayout.streams
            BY <1>1
        <2>4. /\ encoder' = [stream |-> encoder'.stream, size |-> encoder'.size,
                             units |-> encoder'.units, written |-> encoder'.written,
                             error |-> encoder'.error]
              /\ encoder'.stream \in {None, 0} /\ encoder'.written = <<>>
            BY <2>1 DEF IdleEncoder
        <2>5. Len(sent') = 0 /\ 0 # None
            BY <1>2, <1>4 DEF None
        <2>. QED BY <1>2, <1>3, <1>4, <2>2, <2>3, <2>4, <2>5 DEF EncoderShape
    <1>6. DecoderShape'
        <2>1. played' = [stream \in Streams' |-> played'[stream]]
            BY <1>2, <1>3 DEF StreamShape, MultiShape, DecoderShape
        <2>. QED BY <1>2, <1>3, <1>4, <2>1 DEF DecoderShape, IdleDecoder
    <1>7. OutputShape'
        BY <1>1, <1>2, <1>3 DEF StreamShape, OutputShape
    <1>. QED BY <1>3, <1>5, <1>6, <1>7 DEF StreamShape, MultiShape

\* ReturnPacket.
LEMMA ShapeReturnPacket ==
    ASSUME StreamShape, ReturnPacket
    PROVE  StreamShape'
    <1>1. Created /\ encoder.written \in Bytes
        BY AtWork DEF ReturnPacket, StreamShape, MultiShape, EncoderShape
    <1>2. UNCHANGED <<layouts, sent, decoder, played, pcm>> /\ encoder' = IdleEncoder
          /\ channel' = encoder.written
        BY DEF ReturnPacket
    <1>3. EncLayout' = EncLayout /\ DecLayout' = DecLayout /\ Created'
          /\ Streams' = Streams /\ SentRecords' = SentRecords
        BY <1>1, <1>2, KeptLayouts
    <1>4. <<>> \in Bytes /\ \A s : <<>> \in Seq(s) /\ Len(<<>>) = 0
        BY DEF Bytes
    <1>5. EncoderShape'
        BY <1>1, <1>2, <1>3, <1>4 DEF EncoderShape, IdleEncoder, StreamShape, MultiShape
    <1>6. DecoderShape'
        BY <1>2, <1>3 DEF StreamShape, MultiShape, DecoderShape
    <1>7. OutputShape'
        BY <1>1, <1>2, <1>3 DEF StreamShape, OutputShape
    <1>. QED BY <1>3, <1>5, <1>6, <1>7 DEF StreamShape, MultiShape

\* What is written for a stream are bytes.
LEMMA StreamPacketLemma ==
    ASSUME NEW p \in StreamPackets, NEW selfDelimited \in BOOLEAN
    PROVE  /\ p.bytes \in Bytes /\ p.bytes # <<>>
           /\ WrittenPacket(p.bytes, selfDelimited) \in Bytes
    <1>1. p.bytes \in Bytes /\ Parse(p.bytes, FALSE) # {}
        BY PacketsAssumption
    <1>2. p.bytes # <<>>
        BY <1>1 DEF Parse
    <1>3. Head(p.bytes) \in Nat /\ Tail(p.bytes) \in Bytes /\ Len(p.bytes) - 1 \in Nat
        BY <1>1, <1>2, HeadTailProperties DEF Bytes
    <1>4. EncodeSize(Len(p.bytes) - 1) \in Bytes
        BY <1>3, EncodeSizeNat
    <1>5. <<Head(p.bytes)>> \in Bytes
        BY <1>3 DEF Bytes
    <1>6. <<Head(p.bytes)>> \o EncodeSize(Len(p.bytes) - 1) \o Tail(p.bytes) \in Bytes
        <2>1. \A a, b \in Bytes : a \o b \in Bytes
            BY DEF Bytes
        <2>. QED BY <1>3, <1>4, <1>5, <2>1
    <1>. QED BY <1>1, <1>2, <1>6 DEF WrittenPacket

\* EncodeStream, when it succeeds.
LEMMA ShapeWritten ==
    ASSUME StreamShape, NEW p \in StreamPackets, StreamWritten(p)
    PROVE  StreamShape'
    <1>. DEFINE stream == encoder.stream
                packet == WrittenPacket(p.bytes, SelfDelimited(stream))
                record == [frames |-> p.frames, units |-> p.units,
                           channels |-> Coded(EncLayout, stream)]
    <1>0. EncLayout # NoLayout
        BY BusyIsCreated DEF StreamWritten
    <1>1. Created /\ EncLayout.streams \in Nat
        BY <1>0, AtWork
    <1>2. /\ UNCHANGED <<layouts, channel, decoder, played, pcm>>
          /\ encoder' = [encoder EXCEPT !.stream = stream + 1,
                                        !.written = encoder.written \o packet]
          /\ sent' = Append(sent, record)
          /\ stream # None /\ stream < EncLayout.streams
        BY DEF StreamWritten, Encoding
    <1>3. EncLayout' = EncLayout /\ DecLayout' = DecLayout /\ Created'
          /\ Streams' = Streams /\ SentRecords' = SentRecords
        BY <1>1, <1>2, KeptLayouts
    <1>4. packet \in Bytes
        <2>1. SelfDelimited(stream) \in BOOLEAN
            BY DEF SelfDelimited
        <2>. QED BY <2>1, StreamPacketLemma
    <1>5. /\ stream \in Nat /\ sent \in Seq(SentRecords) /\ Len(sent) = stream
          /\ decoder.stream = None /\ decoder.units = 0 /\ channel = <<>> /\ channel \in Bytes
          /\ encoder.written \in Bytes
          /\ encoder = [stream |-> encoder.stream, size |-> encoder.size, units |-> encoder.units,
                        written |-> encoder.written, error |-> encoder.error]
        BY <1>1, <1>2 DEF StreamShape, MultiShape, EncoderShape, None
    <1>6. record \in SentRecords
        BY <1>5 DEF SentRecords
    <1>. DEFINE written == encoder.written \o packet
    <1>7. written \in Bytes
        BY <1>4, <1>5 DEF Bytes
    <1>. HIDE DEF written, packet
    <1>8. encoder' = [stream |-> stream + 1, size |-> encoder.size, units |-> encoder.units,
                      written |-> written, error |-> encoder.error]
        BY <1>2, <1>5 DEF written
    <1>9. encoder'.stream \in 0..EncLayout.streams /\ encoder'.written \in Bytes
        <2>1. stream + 1 \in 0..EncLayout.streams
            BY <1>1, <1>2, <1>5
        <2>. QED BY <1>7, <1>8, <2>1
    <1>10. sent' \in Seq(SentRecords) /\ Len(sent') = stream + 1
        BY <1>2, <1>5, <1>6
    <1>11. ASSUME NEW s \in Nat, s < Len(sent')
           PROVE  sent'[s + 1].channels = Coded(EncLayout, s)
        <2>1. CASE s < stream
            <3>1. sent'[s + 1] = sent[s + 1]
                BY <1>2, <1>5, <2>1
            <3>. QED BY <1>5, <2>1, <3>1 DEF StreamShape, MultiShape, EncoderShape
        <2>2. CASE s = stream
            <3>1. sent'[s + 1] = record
                BY <1>2, <1>5, <2>2
            <3>. QED BY <2>2, <3>1
        <2>. QED BY <1>5, <1>10, <1>11, <2>1, <2>2
    <1>. HIDE DEF stream, record
    <1>12. EncoderShape'
        <2>1. encoder'.stream = stream + 1 /\ encoder' =
                [stream |-> encoder'.stream, size |-> encoder'.size, units |-> encoder'.units,
                 written |-> encoder'.written, error |-> encoder'.error]
            BY <1>8
        <2>2. channel' \in Bytes /\ channel' = <<>> /\ decoder'.stream = None /\ decoder'.units = 0
            BY <1>2, <1>5
        <2>. QED BY <1>3, <1>9, <1>10, <1>11, <2>1, <2>2 DEF EncoderShape
    <1>13. DecoderShape'
        BY <1>2, <1>3 DEF StreamShape, MultiShape, DecoderShape
    <1>14. OutputShape'
        BY <1>1, <1>2, <1>3 DEF StreamShape, OutputShape
    <1>. QED BY <1>3, <1>12, <1>13, <1>14 DEF StreamShape, MultiShape

\* Receive, ReceiveCut and ReceiveForeign.
LEMMA ShapeCallDecoder ==
    ASSUME StreamShape, NEW packet \in Bytes, NEW units, CallDecoder(packet, units)
    PROVE  StreamShape'
    <1>1. Created /\ EncLayout.streams \in Nat /\ DecLayout.streams = EncLayout.streams
        BY AtWork DEF CallDecoder, Idle
    <1>2. UNCHANGED <<layouts, encoder, sent, channel, played>>
          /\ pcm' = [c \in DOMAIN pcm |-> Untouched] /\ encoder.stream = None
        BY DEF CallDecoder, Idle
    <1>3. EncLayout' = EncLayout /\ DecLayout' = DecLayout /\ Created'
          /\ Streams' = Streams /\ SentRecords' = SentRecords
        BY <1>1, <1>2, KeptLayouts
    <1>4. <<>> \in Bytes /\ 0 \in 0..EncLayout.streams
        BY <1>1 DEF Bytes
    <1>5. EncoderShape'
        BY <1>2, <1>3 DEF EncoderShape, StreamShape, MultiShape
    <1>6. DecoderShape'
        <2>1. played' = [stream \in Streams' |-> played'[stream]]
            BY <1>2, <1>3 DEF StreamShape, MultiShape, DecoderShape
        <2>2. /\ decoder' = [stream |-> decoder'.stream, rest |-> decoder'.rest,
                            units |-> decoder'.units, lost |-> decoder'.lost,
                            frames |-> decoder'.frames, error |-> decoder'.error]
              /\ decoder'.stream \in {None, 0} /\ decoder'.rest \in {<<>>, packet}
              /\ decoder'.lost \in BOOLEAN
            <3>1. CASE decoder' = [stream |-> 0, rest |-> <<>>, units |-> units, lost |-> TRUE,
                                   frames |-> <<>>, error |-> "none"]
                BY <3>1
            <3>2. CASE \E error : decoder' = NoPacket(error)
                BY <3>2 DEF NoPacket
            <3>3. CASE decoder' = [stream |-> 0, rest |-> packet, units |-> units,
                                   lost |-> FALSE, frames |-> <<>>, error |-> "none"]
                BY <3>3
            <3>. QED BY <1>1, <3>1, <3>2, <3>3, CallDecoderLemma
        <2>. QED BY <1>1, <1>3, <1>4, <2>1, <2>2 DEF DecoderShape
    <1>7. OutputShape'
        BY <1>1, <1>2, <1>3 DEF StreamShape, OutputShape
    <1>. QED BY <1>3, <1>5, <1>6, <1>7 DEF StreamShape, MultiShape

\* Copying keeps the output's channels.
LEMMA CopiedShape ==
    ASSUME NEW l, NEW stream, NEW coded, NEW out
    PROVE  /\ DOMAIN Copied(l, stream, coded, out) = DOMAIN out
           /\ Copied(l, stream, coded, out)
                = [c \in DOMAIN Copied(l, stream, coded, out) |-> Copied(l, stream, coded, out)[c]]
    BY DEF Copied

\* What the ways of playing a stream have in common.
LEMMA ShapePlayed ==
    ASSUME StreamShape, Decoding,
           UNCHANGED <<layouts, encoder, sent, channel>>,
           \/ UNCHANGED <<played, pcm>>
           \/ \E units : StreamPlayed(units)
           \/ StreamFailed,
           decoder' = [stream |-> decoder'.stream, rest |-> decoder'.rest,
                       units |-> decoder'.units, lost |-> decoder'.lost,
                       frames |-> decoder'.frames, error |-> decoder'.error],
           decoder'.stream \in {None, decoder.stream + 1}, decoder'.rest \in Bytes,
           decoder'.lost \in BOOLEAN
    PROVE  StreamShape'
    <1>1. Created /\ EncLayout.streams \in Nat /\ DecLayout.streams = EncLayout.streams
        BY AtWork, BusyIsCreated
    <1>2. decoder.stream \in Nat /\ decoder.stream < DecLayout.streams /\ decoder.stream # None
        BY <1>1 DEF Decoding, StreamShape, MultiShape, DecoderShape, None
    <1>3. EncLayout' = EncLayout /\ DecLayout' = DecLayout /\ Created'
          /\ Streams' = Streams /\ SentRecords' = SentRecords
        BY <1>1, KeptLayouts
    <1>4. encoder.stream = None
        BY <1>2 DEF EncoderShape, StreamShape, MultiShape
    <1>5. EncoderShape'
        BY <1>3, <1>4 DEF EncoderShape, StreamShape, MultiShape
    <1>6. played' = [stream \in Streams' |-> played'[stream]]
        <2>1. played = [stream \in Streams |-> played[stream]]
            BY DEF StreamShape, MultiShape, DecoderShape
        <2>2. CASE UNCHANGED played
            BY <1>3, <2>1, <2>2
        <2>3. CASE \E units : StreamPlayed(units)
            <3>1. PICK units : played' = [played EXCEPT ![decoder.stream] = played[decoder.stream] + units]
                BY <2>3 DEF StreamPlayed
            <3>. DEFINE sum == played[decoder.stream] + units
            <3>. HIDE DEF sum
            <3>2. played' = [played EXCEPT ![decoder.stream] = sum]
                BY <3>1 DEF sum
            <3>. QED BY <1>3, <2>1, <3>2
        <2>4. CASE StreamFailed
            <3>1. PICK part : played' = [played EXCEPT ![decoder.stream] = played[decoder.stream] + part]
                BY <2>4, Zenon DEF StreamFailed
            <3>. DEFINE sum == played[decoder.stream] + part
            <3>. HIDE DEF sum
            <3>2. played' = [played EXCEPT ![decoder.stream] = sum]
                BY <3>1 DEF sum
            <3>. QED BY <1>3, <2>1, <3>2
        <2>. QED BY <2>2, <2>3, <2>4
    <1>7. decoder.stream + 1 \in 0..EncLayout.streams
        BY <1>1, <1>2
    <1>8. DecoderShape'
        BY <1>1, <1>3, <1>6, <1>7 DEF DecoderShape
    <1>9. OutputShape'
        <2>1. pcm = [c \in DOMAIN pcm |-> pcm[c]] /\ DOMAIN pcm = 1..DecLayout.channels
            BY <1>1 DEF StreamShape, OutputShape
        <2>2. CASE UNCHANGED pcm \/ StreamFailed
            <3>1. UNCHANGED pcm
                BY <2>2 DEF StreamFailed
            <3>. QED BY <1>3, <2>1, <3>1 DEF OutputShape
        <2>3. CASE \E units : StreamPlayed(units)
            <3>1. DOMAIN pcm' = DOMAIN pcm /\ pcm' = [c \in DOMAIN pcm' |-> pcm'[c]]
                BY <2>3, CopiedShape DEF StreamPlayed
            <3>. QED BY <1>3, <2>1, <3>1 DEF OutputShape
        <2>. QED BY <2>2, <2>3
    <1>. QED BY <1>3, <1>5, <1>8, <1>9 DEF StreamShape, MultiShape

\* What is decoded of the bytes that are left.
LEMMA DecodedLemma ==
    ASSUME StreamShape, NEW q \in Parse(decoder.rest, SelfDelimited(decoder.stream)),
           NEW d \in Duration(SubSeq(decoder.rest, 1, q.length))
    PROVE  d \in Nat /\ SubSeq(decoder.rest, q.length + 1, Len(decoder.rest)) \in Bytes
    <1>1. decoder.rest \in Bytes
        BY DEF StreamShape, MultiShape, DecoderShape
    <1>2. SelfDelimited(decoder.stream) \in BOOLEAN
        BY DEF SelfDelimited
    <1>3. q.length \in 0..Len(decoder.rest)
        BY <1>1, <1>2, ParseLemma
    <1>4. SubSeq(decoder.rest, 1, q.length) \in Bytes
        BY <1>1, <1>3 DEF Bytes
    <1>. QED BY <1>1, <1>3, <1>4, DurationLemma, Rest

\* DecodeStream.
LEMMA ShapeDecodeStream ==
    ASSUME StreamShape, DecodeStream
    PROVE  StreamShape'
    <1>1. Decoding /\ UNCHANGED <<layouts, encoder, sent, channel>>
        BY DEF DecodeStream
    <1>2. /\ decoder.rest \in Bytes /\ decoder.lost \in BOOLEAN
          /\ decoder = [stream |-> decoder.stream, rest |-> decoder.rest, units |-> decoder.units,
                        lost |-> decoder.lost, frames |-> decoder.frames, error |-> decoder.error]
        BY DEF StreamShape, MultiShape, DecoderShape
    <1>3. CASE Concealed
        <2>1. decoder' = [stream |-> decoder.stream + 1, rest |-> decoder.rest,
                          units |-> decoder.units, lost |-> decoder.lost,
                          frames |-> decoder.frames, error |-> decoder.error]
            BY <1>2, <1>3 DEF Concealed
        <2>2. \E units : StreamPlayed(units)
            BY <1>3 DEF Concealed
        <2>. QED BY <1>1, <1>2, <2>1, <2>2, ShapePlayed
    <1>4. ASSUME NEW q \in Parse(decoder.rest, SelfDelimited(decoder.stream)),
                 NEW d \in Duration(SubSeq(decoder.rest, 1, q.length)),
                 Late \/ Decoded(q, d)
          PROVE  StreamShape'
        <2>1. CASE Late
            <3>1. <<>> \in Bytes
                BY DEF Bytes
            <3>. QED BY <1>1, <2>1, <3>1, ShapePlayed DEF Late, NoPacket
        <2>2. CASE Decoded(q, d)
            <3>. DEFINE rest == SubSeq(decoder.rest, q.length + 1, Len(decoder.rest))
                        all == Append(decoder.frames, q.frames)
            <3>1. rest \in Bytes
                BY DecodedLemma
            <3>2. /\ decoder' = [decoder EXCEPT !.stream = decoder.stream + 1, !.units = d,
                                                !.rest = rest, !.frames = all]
                  /\ \E units : StreamPlayed(units)
                BY <2>2 DEF Decoded
            <3>. HIDE DEF rest, all
            <3>3. decoder' = [stream |-> decoder.stream + 1, rest |-> rest, units |-> d,
                              lost |-> decoder.lost, frames |-> all, error |-> decoder.error]
                BY <1>2, <3>2
            <3>. QED BY <1>1, <1>2, <3>1, <3>2, <3>3, ShapePlayed
        <2>. QED BY <1>4, <2>1, <2>2
    <1>5. CASE StreamFailed
        <2>1. <<>> \in Bytes
            BY DEF Bytes
        <2>2. decoder' = NoPacket("decoder")
            BY <1>5 DEF StreamFailed
        <2>. QED BY <1>1, <1>5, <2>1, <2>2, ShapePlayed DEF NoPacket
    <1>. QED BY <1>3, <1>4, <1>5, DecodeStreamLemma

\* ReturnSound.
LEMMA ShapeReturnSound ==
    ASSUME StreamShape, ReturnSound
    PROVE  StreamShape'
    <1>1. Created /\ EncLayout.streams \in Nat /\ DecLayout.streams = EncLayout.streams
          /\ EncLayout.streams # None
        BY AtWork, BusyIsCreated DEF ReturnSound, None
    <1>2. /\ UNCHANGED <<layouts, encoder, sent, channel, played>>
          /\ pcm' = Silenced(DecLayout, pcm) /\ decoder' = [decoder EXCEPT !.stream = None]
          /\ decoder.stream = DecLayout.streams
        BY DEF ReturnSound
    <1>3. EncLayout' = EncLayout /\ DecLayout' = DecLayout /\ Created'
          /\ Streams' = Streams /\ SentRecords' = SentRecords
        BY <1>1, <1>2, KeptLayouts
    <1>4. encoder.stream = None
        BY <1>1, <1>2 DEF EncoderShape, StreamShape, MultiShape
    <1>5. EncoderShape'
        BY <1>2, <1>3, <1>4 DEF EncoderShape, StreamShape, MultiShape
    <1>6. DecoderShape'
        BY <1>2, <1>3 DEF DecoderShape, StreamShape, MultiShape
    <1>7. OutputShape'
        <2>1. pcm = [c \in DOMAIN pcm |-> pcm[c]] /\ DOMAIN pcm = 1..DecLayout.channels
            BY <1>1 DEF StreamShape, OutputShape
        <2>2. DOMAIN pcm' = DOMAIN pcm /\ pcm' = [c \in DOMAIN pcm' |-> pcm'[c]]
            BY <1>2, <2>1 DEF Silenced
        <2>. QED BY <1>3, <2>1, <2>2 DEF OutputShape
    <1>. QED BY <1>3, <1>5, <1>6, <1>7 DEF StreamShape, MultiShape

\* Any step.
LEMMA ShapeStep ==
    ASSUME StreamShape, [Next]_vars
    PROVE  StreamShape'
    <1>1. CASE UNCHANGED vars
        <2>1. EncLayout' = EncLayout /\ DecLayout' = DecLayout /\ Created' = Created
              /\ Streams' = Streams /\ SentRecords' = SentRecords
            BY <1>1, KeptLayouts DEF vars
        <2>. QED BY <1>1, <2>1 DEF StreamShape, MultiShape, NotCreated, EncoderShape,
                DecoderShape, OutputShape, vars
    <1>2. CASE Next
        <2>1. CASE EncoderRefuses
            BY <2>1, EncoderStops DEF EncoderRefuses
        <2>. QED BY <1>2, <2>1, StepCases, ShapeCreate, ShapeCallEncoder, ShapeWritten,
                    ShapeReturnPacket, ShapeCallDecoder, ShapeDecodeStream, ShapeReturnSound
    <1>. QED BY <1>1, <1>2

\* Whatever the two sides are asked to do, a call that is under way works on
\* bytes and on a stream that exists, and encoder and decoder are never at work on
\* the same packet: opus_multistream.rs checks none of this while it runs.
THEOREM ShapeHolds == Spec => []StreamShape
    BY ShapeInit, ShapeStep, PTL DEF Spec


-------------------------------------------------------------------------------
(***************************************************************************)
(* The streams stay in step.  While a packet is being decoded, the streams *)
(* before the next have played what it lasts, and the rest of the packet is *)
(* what lies behind them: it was validated, so that no stream is too long. *)
(* Only a stream's own decoder can fail, and then this stream and those    *)
(* behind it have played less.                                             *)
(***************************************************************************)

\* What was played is counted.
Counted ==
    \A stream \in Streams : played[stream] \in Nat /\ taken.before[stream] \in Nat

\* In a call the streams before the one that is next have played what it plays.
PartPlayed ==
    decoder.stream # None =>
      /\ decoder.error = "none" /\ decoder.units \in Nat
      /\ \A stream \in Streams :
           played[stream] = IF stream < decoder.stream THEN taken.before[stream] + decoder.units
                            ELSE taken.before[stream]

\* The rest is what lies behind those streams in a packet whose streams all last
\* units.
Reading(packet, units) ==
    /\ decoder.rest \in Behind(packet, decoder.stream)
    /\ \A stream \in Streams : StreamUnits(packet, stream) = {units}
    /\ ~(units > decoder.units)
    /\ decoder.stream # 0 => decoder.units = units

\* The packet being decoded.
PacketRead ==
    decoder.stream # None /\ ~decoder.lost => \E packet, units : Reading(packet, units)

\* What every step keeps.
InStep == StreamsInStep /\ Counted /\ PartPlayed /\ PacketRead

\* The inductive invariant.
StepInv == StreamShape /\ InStep

\* Behind, with the number of streams as a parameter.
BehindOf(count, packet, n) ==
    LET rest[k \in 0..n] ==
            IF k = 0 THEN {packet}
            ELSE UNION {{SubSeq(r, q.length + 1, Len(r)) :
                           q \in Parse(r, k - 1 + 1 # count)} : r \in rest[k - 1]}
    IN  rest[n]

\* StreamUnits, likewise.
UnitsOf(count, packet, stream) ==
    UNION {UNION {Duration(SubSeq(r, 1, q.length)) : q \in Parse(r, stream + 1 # count)} :
             r \in BehindOf(count, packet, stream)}

\* They depend on the layouts alone.
LEMMA KeptBehind ==
    ASSUME UNCHANGED layouts
    PROVE  /\ \A packet, n : Behind(packet, n)' = Behind(packet, n)
           /\ \A packet, n : StreamUnits(packet, n)' = StreamUnits(packet, n)
           /\ Streams' = Streams
    <1>1. EncLayout' = EncLayout
        BY DEF EncLayout
    <1>2. \A packet, n : Behind(packet, n) = BehindOf(EncLayout.streams, packet, n)
        BY Zenon DEF Behind, BehindOf, SelfDelimited
    <1>3. \A packet, n : Behind(packet, n)' = BehindOf(EncLayout'.streams, packet, n)
        BY Zenon DEF Behind, BehindOf, SelfDelimited
    <1>4. \A packet, n : Behind(packet, n)' = Behind(packet, n)
        BY <1>1, <1>2, <1>3
    <1>5. \A packet, n : StreamUnits(packet, n) = UnitsOf(EncLayout.streams, packet, n)
        BY <1>2, Zenon DEF StreamUnits, UnitsOf, SelfDelimited
    <1>6. \A packet, n : StreamUnits(packet, n)' = UnitsOf(EncLayout'.streams, packet, n)
        BY <1>3, Zenon DEF StreamUnits, UnitsOf, SelfDelimited
    <1>7. \A packet, n : StreamUnits(packet, n)' = StreamUnits(packet, n)
        BY <1>1, <1>5, <1>6
    <1>. QED BY <1>1, <1>4, <1>7 DEF Streams

\* What the next stream lasts is what the packet lasts.
LEMMA ReadingLemma ==
    ASSUME StreamShape, Decoding, NEW packet, NEW units, Reading(packet, units),
           NEW q \in Parse(decoder.rest, SelfDelimited(decoder.stream)),
           NEW d \in Duration(SubSeq(decoder.rest, 1, q.length))
    PROVE  /\ d = units
           /\ SubSeq(decoder.rest, q.length + 1, Len(decoder.rest))
                \in Behind(packet, decoder.stream + 1)
    <1>1. Created /\ EncLayout.streams \in Nat /\ DecLayout.streams = EncLayout.streams
        BY AtWork, BusyIsCreated
    <1>2. decoder.stream \in Nat /\ decoder.stream \in Streams
        BY <1>1 DEF Decoding, StreamShape, MultiShape, DecoderShape, None, Streams
    <1>3. d \in StreamUnits(packet, decoder.stream)
        <2>. DEFINE r == decoder.rest
        <2>1. r \in Behind(packet, decoder.stream)
            BY DEF Reading
        <2>2. d \in UNION {Duration(SubSeq(r, 1, p.length)) : p \in Parse(r, SelfDelimited(decoder.stream))}
            OBVIOUS
        <2>. HIDE DEF r
        <2>. QED BY <2>1, <2>2 DEF StreamUnits
    <1>4. SubSeq(decoder.rest, q.length + 1, Len(decoder.rest))
            \in Beyond(Behind(packet, decoder.stream), decoder.stream)
        <2>. DEFINE r == decoder.rest
        <2>1. r \in Behind(packet, decoder.stream)
            BY DEF Reading
        <2>2. SubSeq(r, q.length + 1, Len(r))
                \in {SubSeq(r, p.length + 1, Len(r)) : p \in Parse(r, SelfDelimited(decoder.stream))}
            OBVIOUS
        <2>. HIDE DEF r
        <2>3. SubSeq(r, q.length + 1, Len(r)) \in Beyond(Behind(packet, decoder.stream), decoder.stream)
            BY <2>1, <2>2 DEF Beyond
        <2>. QED BY <2>3 DEF r
    <1>. QED BY <1>2, <1>3, <1>4, BehindStep DEF Reading

\* Init.
LEMMA StepInit == Init => StepInv
    <1>. SUFFICES ASSUME Init PROVE StepInv
        OBVIOUS
    <1>1. decoder.stream = None
        BY DEF Init, IdleDecoder
    <1>2. Streams = {}
        BY DEF Init, EncLayout, NoLayout, Layout, Streams
    <1>3. decoder.error = "none"
        BY DEF Init, IdleDecoder
    <1>4. StreamsInStep
        BY <1>2, <1>3 DEF StreamsInStep
    <1>. QED BY <1>1, <1>2, <1>4, ShapeInit DEF StepInv, InStep, Counted, PartPlayed, PacketRead

\* Nothing has moved yet.
NotMoved == \A stream \in Streams : played[stream] = taken.before[stream]

\* A step after which nothing has moved and no call is under way.
LEMMA NothingMoved ==
    ASSUME NotMoved', Counted', decoder'.stream = None, decoder'.error # "decoder"
    PROVE  InStep'
    <1>1. \A a \in Streams' : Moved(a)' = 0
        BY DEF NotMoved, Counted, Moved
    <1>. QED BY <1>1 DEF InStep, StreamsInStep, PartPlayed, PacketRead

\* Receive, ReceiveCut and ReceiveForeign.
LEMMA StepCallDecoder ==
    ASSUME StepInv, NEW packet \in Bytes, NEW units \in Rooms, CallDecoder(packet, units)
    PROVE  /\ InStep' /\ NotMoved'
           /\ decoder'.stream # None /\ ~decoder'.lost =>
                \A d \in Validated(packet) : Reading(packet, d)'
    <1>1. Created /\ EncLayout.streams \in Nat \ {0} /\ DecLayout.streams = EncLayout.streams
        BY AtWork DEF CallDecoder, Idle, StepInv
    <1>2. UNCHANGED layouts /\ played' = played /\ decoder.stream = None
          /\ taken' = [packet |-> packet, before |-> played]
        BY DEF CallDecoder, Idle
    <1>3. taken'.before = played
        BY <1>2
    <1>4. 0 \in Streams /\ \A s \in Streams : s \in Nat /\ ~(s < 0)
        BY <1>1 DEF Streams
    <1>5. Streams' = Streams
        BY <1>2, KeptBehind
    <1>6. \/ decoder'.stream = 0 /\ decoder'.lost /\ decoder'.units = units /\ decoder'.error = "none"
          \/ decoder'.stream = None /\ decoder'.error \in {"invalid", "room"}
          \/ /\ decoder'.stream = 0 /\ decoder'.rest = packet /\ decoder'.units = units
             /\ ~decoder'.lost /\ decoder'.error = "none"
             /\ Validated(packet) # {} /\ \A d \in Validated(packet) : ~(d > units)
        BY <1>1, CallDecoderLemma DEF NoPacket
    <1>7. NotMoved' /\ Counted'
        <2>1. \A stream \in Streams' : played'[stream] = taken'.before[stream]
            BY <1>2, <1>3
        <2>2. \A stream \in Streams' : played'[stream] \in Nat /\ taken'.before[stream] \in Nat
            BY <1>2, <1>3, <1>5 DEF StepInv, InStep, Counted
        <2>. QED BY <2>1, <2>2 DEF NotMoved, Counted
    <1>8. CASE decoder'.stream = None
        <2>1. decoder'.error # "decoder"
            BY <1>6, <1>8 DEF None
        <2>. QED BY <1>7, <1>8, <2>1, NothingMoved
    <1>9. CASE decoder'.stream = 0
        <2>1. 0 # None
            BY DEF None
        <2>2. decoder'.error = "none" /\ decoder'.units = units /\ units \in Nat
            BY <1>6, <1>9, <2>1, RoomsAssumption
        <2>3. PartPlayed'
            <3>1. \A stream \in Streams' : ~(stream < decoder'.stream)
                BY <1>4, <1>5, <1>9
            <3>. QED BY <1>7, <2>2, <3>1 DEF PartPlayed, NotMoved
        <2>4. StreamsInStep'
            BY <1>9, <2>1 DEF StreamsInStep
        <2>5. ASSUME ~decoder'.lost, NEW d \in Validated(packet)
              PROVE  Reading(packet, d)'
            <3>1. decoder'.rest = packet /\ ~(d > units)
                BY <1>6, <1>9, <2>1, <2>5
            <3>2. \A stream \in Streams : StreamUnits(packet, stream) = {d}
                BY DEF Validated
            <3>3. packet \in Behind(packet, 0)
                <4>1. Behind(packet, 0) = {packet}
                    BY BehindStep
                <4>. QED BY <4>1
            <3>. QED BY <1>2, <1>5, <1>9, <2>2, <3>1, <3>2, <3>3, KeptBehind DEF Reading
        <2>6. PacketRead'
            <3>1. ~decoder'.lost => \E d \in Validated(packet) : TRUE
                BY <1>6, <1>9, <2>1
            <3>. QED BY <2>5, <3>1 DEF PacketRead
        <2>. QED BY <1>7, <2>3, <2>4, <2>5, <2>6 DEF InStep
    <1>. QED BY <1>6, <1>8, <1>9

\* One more stream has played what this call plays.
LEMMA OneMorePlayed ==
    ASSUME StepInv, NEW units \in Nat, StreamPlayed(units), decoder'.stream = decoder.stream + 1,
           decoder'.units = units, decoder'.error = decoder.error,
           decoder.stream # 0 => decoder.units = units
    PROVE  (StreamsInStep /\ Counted /\ PartPlayed)'
    <1>1. Created /\ EncLayout.streams \in Nat \ {0} /\ DecLayout.streams = EncLayout.streams
        BY AtWork, BusyIsCreated DEF StreamPlayed, StepInv
    <1>2. decoder.stream \in Nat /\ decoder.stream # None /\ decoder.stream + 1 # None
        BY <1>1 DEF StreamPlayed, Decoding, StepInv, StreamShape, MultiShape, DecoderShape, None
    <1>3. /\ UNCHANGED <<layouts, taken>>
          /\ played' = [played EXCEPT ![decoder.stream] = played[decoder.stream] + units]
        BY DEF StreamPlayed
    <1>4. Streams' = Streams
        BY <1>3, KeptBehind
    <1>5. played = [stream \in Streams |-> played[stream]]
        BY DEF StepInv, StreamShape, MultiShape, DecoderShape
    <1>6. /\ decoder.error = "none"
          /\ \A stream \in Streams :
               /\ played[stream] = IF stream < decoder.stream
                                   THEN taken.before[stream] + decoder.units
                                   ELSE taken.before[stream]
               /\ taken.before[stream] \in Nat
        BY <1>2 DEF StepInv, InStep, PartPlayed, Counted
    <1>7. ASSUME NEW stream \in Streams
          PROVE  /\ played'[stream] = IF stream < decoder.stream + 1
                                      THEN taken.before[stream] + units ELSE taken.before[stream]
                 /\ played'[stream] \in Nat
        <2>0. stream \in Nat /\ taken.before[stream] \in Nat
            BY <1>6 DEF Streams
        <2>1. CASE stream = decoder.stream
            <3>1. played'[stream] = played[stream] + units /\ ~(stream < decoder.stream)
                BY <1>2, <1>3, <1>5, <2>1
            <3>2. played[stream] = taken.before[stream]
                BY <1>6, <3>1
            <3>. QED BY <1>2, <2>0, <2>1, <3>1, <3>2
        <2>2. CASE stream # decoder.stream
            <3>1. played'[stream] = played[stream]
                BY <1>3, <1>5, <2>2
            <3>2. stream < decoder.stream + 1 <=> stream < decoder.stream
                BY <1>2, <2>0, <2>2
            <3>3. stream < decoder.stream => decoder.units = units
                BY <1>2, <2>0
            <3>. QED BY <1>6, <2>0, <3>1, <3>2, <3>3
        <2>. QED BY <2>1, <2>2
    <1>8. PartPlayed' /\ Counted'
        BY <1>3, <1>4, <1>6, <1>7 DEF PartPlayed, Counted
    <1>9. StreamsInStep'
        BY <1>2 DEF StreamsInStep
    <1>. QED BY <1>8, <1>9

\* That the packet was validated excludes that a stream is too long.
LEMMA ReadingStep ==
    ASSUME StepInv, Decoding, NEW packet, NEW units, Reading(packet, units),
           NEW q \in Parse(decoder.rest, SelfDelimited(decoder.stream)),
           NEW d \in Duration(SubSeq(decoder.rest, 1, q.length)),
           (Late /\ d > decoder.units) \/ Decoded(q, d)
    PROVE  /\ d = units /\ units \in Nat /\ StreamPlayed(units) /\ Reading(packet, units)'
           /\ decoder'.stream = decoder.stream + 1 /\ decoder'.units = units
           /\ decoder'.lost = decoder.lost /\ decoder'.error = decoder.error
    <1>1. decoder = [stream |-> decoder.stream, rest |-> decoder.rest, units |-> decoder.units,
                     lost |-> decoder.lost, frames |-> decoder.frames, error |-> decoder.error]
        BY DEF StepInv, StreamShape, MultiShape, DecoderShape
    <1>2. /\ d = units
          /\ SubSeq(decoder.rest, q.length + 1, Len(decoder.rest))
               \in Behind(packet, decoder.stream + 1)
        BY ReadingLemma DEF StepInv
    <1>3. Decoded(q, d)
        BY <1>2 DEF Reading
    <1>4. /\ StreamPlayed(d) /\ UNCHANGED layouts
          /\ decoder'.stream = decoder.stream + 1 /\ decoder'.units = d
          /\ decoder'.lost = decoder.lost /\ decoder'.error = decoder.error
          /\ decoder'.rest = SubSeq(decoder.rest, q.length + 1, Len(decoder.rest))
        <2>. DEFINE rest == SubSeq(decoder.rest, q.length + 1, Len(decoder.rest))
                    all == Append(decoder.frames, q.frames)
        <2>1. /\ decoder' = [decoder EXCEPT !.stream = decoder.stream + 1, !.units = d,
                                            !.rest = rest, !.frames = all]
              /\ StreamPlayed(d) /\ UNCHANGED layouts
            BY <1>3 DEF Decoded, StreamPlayed
        <2>. HIDE DEF rest, all
        <2>2. decoder' = [stream |-> decoder.stream + 1, rest |-> rest, units |-> d,
                          lost |-> decoder.lost, frames |-> all, error |-> decoder.error]
            BY <1>1, <2>1
        <2>. QED BY <2>1, <2>2 DEF rest
    <1>5. units \in Nat
        BY <1>2, DecodedLemma DEF StepInv
    <1>6. Reading(packet, units)'
        <2>1. decoder'.units = units /\ ~(units > decoder'.units)
            BY <1>2, <1>4, <1>5
        <2>2. (decoder.rest \in Behind(packet, decoder.stream))'
            BY <1>2, <1>4, KeptBehind
        <2>3. \A stream \in Streams' : StreamUnits(packet, stream)' = {units}
            BY <1>4, KeptBehind DEF Reading
        <2>. QED BY <2>1, <2>2, <2>3 DEF Reading
    <1>. QED BY <1>2, <1>4, <1>5, <1>6

\* A decoder that fails stops the call at its stream.
LEMMA StepFailed ==
    ASSUME StepInv, StreamFailed
    PROVE  InStep'
    <1>0. PICK k : k = decoder.stream
        OBVIOUS
    <1>1. Created /\ EncLayout.streams \in Nat \ {0} /\ DecLayout.streams = EncLayout.streams
        BY AtWork, BusyIsCreated DEF StreamFailed, StepInv
    <1>2. k \in Nat /\ k # None /\ k \in Streams
        BY <1>0, <1>1
           DEF StreamFailed, Decoding, StepInv, StreamShape, MultiShape, DecoderShape, None, Streams
    <1>3. /\ UNCHANGED <<layouts, taken>> /\ decoder' = NoPacket("decoder")
        BY DEF StreamFailed
    <1>4. PICK part \in PlayedAtFailure(k) : played' = [played EXCEPT ![k] = played[k] + part]
        BY <1>0, Zenon DEF StreamFailed
    <1>5. decoder.units \in Nat
          /\ \A stream \in Streams :
               /\ played[stream] = IF stream < k THEN taken.before[stream] + decoder.units
                                   ELSE taken.before[stream]
               /\ played[stream] \in Nat /\ taken.before[stream] \in Nat
        BY <1>0, <1>2 DEF StepInv, InStep, PartPlayed, Counted
    <1>6. part \in Nat /\ part < decoder.units
        <2>1. part \in 0..(decoder.units - 1)
            BY <1>4 DEF PlayedAtFailure
        <2>. QED BY <1>5, <2>1
    <1>7. played = [stream \in Streams |-> played[stream]]
        BY DEF StepInv, StreamShape, MultiShape, DecoderShape
    <1>8. Streams' = Streams /\ \A stream \in Streams : stream \in Nat
        BY <1>3, KeptBehind DEF Streams
    <1>9. ASSUME NEW stream \in Streams
          PROVE  played'[stream] = IF stream = k THEN played[stream] + part ELSE played[stream]
        <2>. DEFINE sum == played[k] + part
        <2>1. played' = [played EXCEPT ![k] = sum]
            BY <1>4
        <2>. HIDE DEF sum
        <2>2. played'[stream] = IF stream = k THEN sum ELSE played[stream]
            BY <1>7, <2>1
        <2>. QED BY <2>2 DEF sum
    <1>10. ASSUME NEW stream \in Streams
           PROVE  Moved(stream)' = IF stream < k THEN decoder.units
                                   ELSE IF stream = k THEN part ELSE 0
        <2>1. stream \in Nat /\ taken.before[stream] \in Nat
            BY <1>5, <1>8
        <2>2. played'[stream] = taken.before[stream] + (IF stream < k THEN decoder.units
                                ELSE IF stream = k THEN part ELSE 0)
            BY <1>2, <1>5, <1>6, <1>9, <2>1
        <2>3. Moved(stream)' = played'[stream] - taken.before[stream]
            BY <1>3 DEF Moved
        <2>. QED BY <1>5, <1>6, <2>1, <2>2, <2>3
    <1>11. StoppedAt(k)'
        BY <1>2, <1>5, <1>6, <1>8, <1>10 DEF StoppedAt
    <1>12. StreamsInStep'
        <2>1. decoder'.error = "decoder"
            BY <1>3 DEF NoPacket
        <2>2. k \in Streams'
            BY <1>2, <1>8
        <2>3. \E stream \in Streams' : StoppedAt(stream)'
            BY <1>11, <2>2
        <2>. QED BY <2>1, <2>3 DEF StreamsInStep
    <1>13. Counted'
        BY <1>3, <1>5, <1>6, <1>8, <1>9 DEF Counted
    <1>14. decoder'.stream = None
        BY <1>3 DEF NoPacket
    <1>. QED BY <1>12, <1>13, <1>14 DEF InStep, PartPlayed, PacketRead

\* DecodeStream.
LEMMA StepDecodeStream ==
    ASSUME StepInv, DecodeStream
    PROVE  InStep'
    <1>1. Created /\ EncLayout.streams \in Nat \ {0} /\ DecLayout.streams = EncLayout.streams
        BY AtWork, BusyIsCreated DEF DecodeStream, StepInv
    <1>0. Decoding
        BY DEF DecodeStream
    <1>2. decoder.stream \in Nat /\ decoder.stream # None
        BY <1>0, <1>1 DEF Decoding, StepInv, StreamShape, MultiShape, DecoderShape, None
    <1>3. decoder = [stream |-> decoder.stream, rest |-> decoder.rest, units |-> decoder.units,
                        lost |-> decoder.lost, frames |-> decoder.frames, error |-> decoder.error]
        BY DEF StepInv, StreamShape, MultiShape, DecoderShape
    <1>4. CASE Concealed
        <2>1. StreamPlayed(decoder.units) /\ decoder'.stream = decoder.stream + 1
              /\ decoder'.units = decoder.units /\ decoder'.lost /\ decoder'.error = decoder.error
            BY <1>3, <1>4 DEF Concealed
        <2>2. PacketRead'
            BY <2>1 DEF PacketRead
        <2>3. decoder.units \in Nat
            BY <1>2 DEF StepInv, InStep, PartPlayed
        <2>. QED BY <2>1, <2>2, <2>3, OneMorePlayed DEF InStep
    <1>5. ASSUME ~decoder.lost, NEW q \in Parse(decoder.rest, SelfDelimited(decoder.stream)),
                 NEW d \in Duration(SubSeq(decoder.rest, 1, q.length)),
                 (Late /\ d > decoder.units) \/ Decoded(q, d)
          PROVE  InStep'
        <2>1. PICK packet, units : Reading(packet, units)
            BY <1>2, <1>5 DEF StepInv, InStep, PacketRead
        <2>2. /\ units \in Nat /\ StreamPlayed(units) /\ Reading(packet, units)'
              /\ decoder'.stream = decoder.stream + 1 /\ decoder'.units = units
              /\ decoder'.error = decoder.error
            BY <1>0, <1>5, <2>1, ReadingStep
        <2>3. decoder.stream # 0 => decoder.units = units
            BY <2>1 DEF Reading
        <2>4. (StreamsInStep /\ Counted /\ PartPlayed)'
            BY <2>2, <2>3, OneMorePlayed
        <2>. QED BY <2>2, <2>4 DEF InStep, PacketRead
    <1>. QED BY <1>4, <1>5, DecodeStreamLemma, StepFailed

\* ReturnSound: all streams have moved by what the call played.
LEMMA StepReturnSound ==
    ASSUME StepInv, ReturnSound
    PROVE  /\ InStep' /\ decoder'.stream = None /\ decoder'.error = "none"
           /\ \A stream \in Streams' : Moved(stream)' = decoder.units
    <1>1. Created /\ EncLayout.streams \in Nat \ {0} /\ DecLayout.streams = EncLayout.streams
        BY AtWork, BusyIsCreated DEF ReturnSound, StepInv
    <1>2. decoder.stream = EncLayout.streams /\ decoder.stream # None
          /\ UNCHANGED <<layouts, played, taken>> /\ decoder' = [decoder EXCEPT !.stream = None]
        BY <1>1 DEF ReturnSound, None
    <1>3. decoder'.stream = None /\ decoder'.error = decoder.error
        BY <1>2 DEF StepInv, StreamShape, MultiShape, DecoderShape
    <1>4. decoder.error = "none" /\ decoder.units \in Nat
          /\ \A stream \in Streams :
               /\ played[stream] = IF stream < decoder.stream
                                   THEN taken.before[stream] + decoder.units
                                   ELSE taken.before[stream]
               /\ taken.before[stream] \in Nat
        BY <1>2 DEF StepInv, InStep, PartPlayed, Counted
    <1>5. \A stream \in Streams : stream < decoder.stream
        BY <1>1, <1>2 DEF Streams
    <1>6. Streams' = Streams
        BY <1>2, KeptBehind
    <1>7. ASSUME NEW stream \in Streams'
          PROVE  Moved(stream)' = decoder.units
        <2>1. Moved(stream)' = played[stream] - taken.before[stream]
            BY <1>2 DEF Moved
        <2>. QED BY <1>4, <1>5, <1>6, <2>1
    <1>8. StreamsInStep'
        BY <1>3, <1>4, <1>7 DEF StreamsInStep
    <1>9. Counted'
        BY <1>2, <1>6 DEF StepInv, InStep, Counted
    <1>. QED BY <1>3, <1>4, <1>7, <1>8, <1>9 DEF InStep, PartPlayed, PacketRead

\* Nothing the streams depend on has changed.
LEMMA StepKept ==
    ASSUME InStep, UNCHANGED <<layouts, decoder, played, taken>>
    PROVE  InStep'
    <1>1. Streams' = Streams
        BY KeptBehind
    <1>2. \A packet, units : Reading(packet, units) => Reading(packet, units)'
        BY KeptBehind DEF Reading
    <1>3. \A stream : Moved(stream)' = Moved(stream)
        BY DEF Moved
    <1>4. \A stream : StoppedAt(stream)' <=> StoppedAt(stream)
        BY <1>1, <1>3 DEF StoppedAt
    <1>5. StreamsInStep'
        BY <1>1, <1>3, <1>4 DEF InStep, StreamsInStep
    <1>6. Counted' /\ PartPlayed'
        BY <1>1 DEF InStep, Counted, PartPlayed
    <1>. QED BY <1>2, <1>5, <1>6 DEF InStep, PacketRead

\* Any step.
LEMMA StepStep ==
    ASSUME StepInv, [Next]_vars
    PROVE  StepInv'
    <1>1. StreamShape' /\ StreamShape /\ InStep
        BY ShapeStep DEF StepInv
    <1>3. CASE UNCHANGED vars
        BY <1>1, <1>3, StepKept DEF StepInv, vars
    <1>4. ASSUME NEW l \in Layouts, Create(l)
          PROVE  StepInv'
        <2>1. NotCreated
            BY <1>1, <1>4, LayoutLemma DEF StreamShape, MultiShape, Create
        <2>2. /\ decoder' = IdleDecoder /\ layouts' = l
              /\ played' = [stream \in 0..(l.decoder.streams - 1) |-> 0]
              /\ taken' = [packet |-> <<>>, before |-> played']
            BY <1>4, <2>1 DEF Create, NotCreated
        <2>3. decoder'.stream = None /\ decoder'.error # "decoder" /\ taken'.before = played'
            BY <2>2 DEF IdleDecoder
        <2>4. \A a \in Streams' : played'[a] = 0
            BY <2>2, LayoutsAssumption DEF Streams, EncLayout
        <2>5. NotMoved' /\ Counted'
            BY <2>3, <2>4 DEF NotMoved, Counted
        <2>. QED BY <1>1, <2>3, <2>5, NothingMoved DEF StepInv
    <1>5. ASSUME NEW size, NEW units, CallEncoder(size, units)
          PROVE  StepInv'
        <2>1. decoder' = IdleDecoder /\ UNCHANGED <<layouts, played>>
              /\ taken' = [packet |-> <<>>, before |-> played]
            BY <1>5 DEF CallEncoder
        <2>2. decoder'.stream = None /\ decoder'.error # "decoder" /\ taken'.before = played'
            BY <2>1 DEF IdleDecoder
        <2>3. Streams' = Streams
            BY <2>1, KeptBehind
        <2>4. NotMoved' /\ Counted'
            BY <1>1, <2>1, <2>2, <2>3 DEF InStep, NotMoved, Counted
        <2>. QED BY <1>1, <2>2, <2>4, NothingMoved DEF StepInv
    <1>6. CASE EncoderRefuses \/ ReturnPacket \/ \E p \in StreamPackets : StreamWritten(p)
        <2>1. UNCHANGED <<layouts, decoder, played, taken>>
            BY <1>6 DEF EncoderRefuses, EncoderFails, ReturnPacket, StreamWritten
        <2>. QED BY <1>1, <2>1, StepKept DEF StepInv
    <1>7. CASE \E packet \in Bytes : \E units \in Rooms : CallDecoder(packet, units)
        BY <1>1, <1>7, StepCallDecoder DEF StepInv
    <1>8. CASE DecodeStream
        BY <1>1, <1>8, StepDecodeStream DEF StepInv
    <1>9. CASE ReturnSound
        BY <1>1, <1>9, StepReturnSound DEF StepInv
    <1>. QED BY <1>1, <1>3, <1>4, <1>5, <1>6, <1>7, <1>8, <1>9, StepCases

\* A call of opus_multistream_decode moves the decoders of all streams by the same time,
\* whatever packet it was given: whole, cut, of another encoder or none.  What can be
\* wrong with the framing opus_multistream_packet_validate finds before the first of them
\* moves.  Where the call returns with the error of a stream's own decoder, the streams
\* before that one have moved by the packet, that one by less and those behind it not at
\* all: so far apart they may be left, and no further.
THEOREM StreamsAlwaysInStep == Spec => []StreamsInStep
    <1>1. StepInv => StreamsInStep
        BY DEF StepInv, InStep
    <1>. QED BY <1>1, StepInit, StepStep, PTL DEF Spec


-------------------------------------------------------------------------------
(***************************************************************************)
(* The channels are in place.  While a packet is being decoded, those of   *)
(* the streams before the next are.                                        *)
(***************************************************************************)

\* The stream a slot belongs to.
StreamAt(l, slot) == IF slot < 2 * l.coupled THEN slot \div 2 ELSE slot - l.coupled

\* The channel's sound is that of an input channel with the same slot.
Placed(c) ==
    /\ pcm[c] \in 1..EncLayout.channels
    /\ EncLayout.mapping[pcm[c]] = DecLayout.mapping[c]

\* The channels of the streams that are done are in place.
ChannelsSoFar ==
    decoder.stream # None /\ Len(sent) = EncLayout.streams =>
      \A c \in DOMAIN pcm :
        DecLayout.mapping[c] # Muted /\ StreamAt(DecLayout, DecLayout.mapping[c]) < decoder.stream
          => Placed(c)

\* The inductive invariant.
ChannelsInv == StreamShape /\ ChannelsInPlace /\ ChannelsSoFar

\* A slot is one of the slots of one stream.
LEMMA SlotsLemma ==
    ASSUME NEW l \in LayoutRecords, l.coupled <= l.streams, NEW stream \in Nat, NEW slot \in Nat
    PROVE  /\ (\E n \in DOMAIN SlotsOf(l, stream) : SlotsOf(l, stream)[n] = slot)
                => StreamAt(l, slot) = stream
           /\ StreamAt(l, slot) = stream
                => \E n \in DOMAIN SlotsOf(l, stream) : SlotsOf(l, stream)[n] = slot
           /\ slot < l.streams + l.coupled => StreamAt(l, slot) < l.streams
           /\ StreamAt(l, slot) \in Nat
    <1>1. l.coupled \in Nat /\ l.streams \in Nat
        BY DEF LayoutRecords
    <1>2. CASE stream < l.coupled
        <2>1. SlotsOf(l, stream) = <<2 * stream, 2 * stream + 1>>
            BY <1>2 DEF SlotsOf, Coupled, LeftSlot, RightSlot
        <2>2. DOMAIN SlotsOf(l, stream) = {1, 2}
              /\ SlotsOf(l, stream)[1] = 2 * stream /\ SlotsOf(l, stream)[2] = 2 * stream + 1
            BY <2>1
        <2>3. slot \in {2 * stream, 2 * stream + 1} => slot < 2 * l.coupled /\ slot \div 2 = stream
            BY <1>1, <1>2
        <2>4. slot < 2 * l.coupled /\ slot \div 2 = stream => slot \in {2 * stream, 2 * stream + 1}
            BY <1>1
        <2>5. ~(slot < 2 * l.coupled) => slot - l.coupled # stream
            BY <1>1, <1>2
        <2>6. (\E n \in DOMAIN SlotsOf(l, stream) : SlotsOf(l, stream)[n] = slot)
                <=> slot \in {2 * stream, 2 * stream + 1}
            BY <2>2
        <2>. QED BY <1>1, <2>3, <2>4, <2>5, <2>6 DEF StreamAt
    <1>3. CASE ~(stream < l.coupled)
        <2>1. SlotsOf(l, stream) = <<stream + l.coupled>>
            BY <1>3 DEF SlotsOf, Coupled, MonoSlot
        <2>2. DOMAIN SlotsOf(l, stream) = {1} /\ SlotsOf(l, stream)[1] = stream + l.coupled
            BY <2>1
        <2>3. slot = stream + l.coupled => ~(slot < 2 * l.coupled) /\ slot - l.coupled = stream
            BY <1>1, <1>3
        <2>4. slot < 2 * l.coupled => slot \div 2 # stream
            BY <1>1, <1>3
        <2>5. slot - l.coupled = stream => slot = stream + l.coupled
            BY <1>1
        <2>6. (\E n \in DOMAIN SlotsOf(l, stream) : SlotsOf(l, stream)[n] = slot)
                <=> slot = stream + l.coupled
            BY <2>2
        <2>. QED BY <1>1, <2>3, <2>4, <2>5, <2>6 DEF StreamAt
    <1>. QED BY <1>2, <1>3

\* The channels a stream codes are at its slots.
LEMMA CodedLemma ==
    ASSUME Created, NEW stream \in Streams
    PROVE  /\ DOMAIN Coded(EncLayout, stream) = DOMAIN SlotsOf(EncLayout, stream)
           /\ SlotsOf(DecLayout, stream) = SlotsOf(EncLayout, stream)
           /\ \A n \in DOMAIN SlotsOf(EncLayout, stream) :
                /\ Coded(EncLayout, stream)[n] \in 1..EncLayout.channels
                /\ EncLayout.mapping[Coded(EncLayout, stream)[n]] = SlotsOf(EncLayout, stream)[n]
    <1>1. SlotsOf(DecLayout, stream) = SlotsOf(EncLayout, stream)
        BY LayoutLemma DEF SlotsOf, Coupled, MonoSlot
    <1>2. EncLayout.channels \in Nat
        BY LayoutLemma DEF LayoutRecords
    <1>3. ASSUME NEW n \in DOMAIN SlotsOf(EncLayout, stream)
          PROVE  Coded(EncLayout, stream)[n] \in ChannelsAt(EncLayout, SlotsOf(EncLayout, stream)[n])
        <2>. DEFINE S == ChannelsAt(EncLayout, SlotsOf(EncLayout, stream)[n])
        <2>1. S # {}
            <3>1. stream \in 0..(EncLayout.streams - 1)
                BY DEF Streams
            <3>. QED BY <3>1, Zenon DEF Created, ValidEncoderLayout
        <2>2. S \subseteq Nat
            BY <1>2 DEF ChannelsAt
        <2>3. \E c \in S : \A d \in S : c <= d
            <3>. HIDE DEF S
            <3>. QED BY <2>1, <2>2, LeastNumber
        <2>4. Coded(EncLayout, stream)[n] = CHOOSE c \in S : \A d \in S : c <= d
            BY Zenon DEF Coded
        <2>. HIDE DEF S
        <2>5. Coded(EncLayout, stream)[n] \in S
            BY <2>3, <2>4
        <2>. QED BY <2>5 DEF S
    <1>4. DOMAIN Coded(EncLayout, stream) = DOMAIN SlotsOf(EncLayout, stream)
        BY DEF Coded
    <1>. QED BY <1>1, <1>3, <1>4 DEF ChannelsAt

\* A stream's sound is put in place, and that of the others stays there.
LEMMA CopiedLemma ==
    ASSUME StreamShape, NEW units, StreamPlayed(units), Len(sent) = EncLayout.streams,
           NEW c \in DOMAIN pcm, DecLayout.mapping[c] # Muted
    PROVE  /\ c \in DOMAIN pcm'
           /\ StreamAt(DecLayout, DecLayout.mapping[c]) = decoder.stream => Placed(c)'
           /\ StreamAt(DecLayout, DecLayout.mapping[c]) # decoder.stream => pcm'[c] = pcm[c]
    <1>. DEFINE k     == decoder.stream
                slots == SlotsOf(DecLayout, k)
                coded == Coded(EncLayout, k)
                slot  == DecLayout.mapping[c]
    <1>1. /\ Created /\ EncLayout.streams \in Nat \ {0} /\ DecLayout.streams = EncLayout.streams
          /\ DecLayout \in LayoutRecords
        BY AtWork, BusyIsCreated, LayoutLemma DEF StreamPlayed
    <1>2. k \in Nat /\ k < EncLayout.streams
        BY <1>1 DEF StreamPlayed, Decoding, StreamShape, MultiShape, DecoderShape, None
    <1>3. k \in Streams
        BY <1>1, <1>2 DEF Streams
    <1>4. c \in 1..DecLayout.channels
        BY <1>1 DEF StreamShape, OutputShape
    <1>5. slot \in Nat /\ DecLayout.coupled <= DecLayout.streams
        BY <1>1, <1>4 DEF Created, ValidLayout, LayoutRecords
    <1>6. Heard(k) = coded
        BY <1>2 DEF Heard, StreamShape, MultiShape, EncoderShape
    <1>7. UNCHANGED layouts /\ pcm' = Copied(DecLayout, k, coded, pcm)
        BY <1>6 DEF StreamPlayed
    <1>8. EncLayout' = EncLayout /\ DecLayout' = DecLayout
        BY <1>7, KeptLayouts
    <1>9. /\ DOMAIN coded = DOMAIN slots
          /\ \A n \in DOMAIN slots : /\ coded[n] \in 1..EncLayout.channels
                                     /\ EncLayout.mapping[coded[n]] = slots[n]
        BY <1>1, <1>3, CodedLemma
    <1>10. \A n : c \in ChannelsAt(DecLayout, slots[n]) <=> slots[n] = slot
        BY <1>4 DEF ChannelsAt
    <1>11. c \in DOMAIN pcm'
           /\ pcm'[c] = IF \E n \in DOMAIN coded : c \in ChannelsAt(DecLayout, slots[n])
                     THEN coded[CHOOSE n \in DOMAIN coded : c \in ChannelsAt(DecLayout, slots[n])]
                     ELSE pcm[c]
        BY <1>7, Zenon DEF Copied
    <1>12. /\ (\E n \in DOMAIN slots : slots[n] = slot) => StreamAt(DecLayout, slot) = k
           /\ StreamAt(DecLayout, slot) = k => \E n \in DOMAIN slots : slots[n] = slot
        <2>1. DecLayout \in LayoutRecords /\ DecLayout.coupled <= DecLayout.streams /\ k \in Nat /\ slot \in Nat
            BY <1>1, <1>2, <1>5
        <2>. HIDE DEF k, slot
        <2>. QED BY ONLY <2>1, SlotsLemma DEF slots
    <1>. HIDE DEF slots, coded
    <1>13. CASE StreamAt(DecLayout, slot) = k
        <2>1. \E n \in DOMAIN coded : c \in ChannelsAt(DecLayout, slots[n])
            BY <1>9, <1>10, <1>12, <1>13
        <2>. DEFINE m == CHOOSE n \in DOMAIN coded : c \in ChannelsAt(DecLayout, slots[n])
        <2>2. m \in DOMAIN coded /\ c \in ChannelsAt(DecLayout, slots[m])
            BY <2>1
        <2>3. pcm'[c] = coded[m]
            BY <1>11, <2>1
        <2>. HIDE DEF m
        <2>4. pcm'[c] \in 1..EncLayout.channels /\ EncLayout.mapping[pcm'[c]] = slot
            BY <1>9, <1>10, <2>2, <2>3
        <2>5. Placed(c)'
            BY <1>8, <2>4 DEF Placed
        <2>. QED BY <1>11, <1>13, <2>5
    <1>14. CASE StreamAt(DecLayout, slot) # k
        <2>1. ~ \E n \in DOMAIN coded : c \in ChannelsAt(DecLayout, slots[n])
            BY <1>9, <1>10, <1>12, <1>14
        <2>. QED BY <1>11, <1>14, <2>1
    <1>. QED BY <1>13, <1>14

\* DecodeStream: the stream's channels are copied to their slots.
LEMMA ChannelsDecodeStream ==
    ASSUME ChannelsInv, DecodeStream
    PROVE  (ChannelsInPlace /\ ChannelsSoFar)'
    <1>1. StreamShape /\ Decoding
        BY DEF ChannelsInv, DecodeStream
    <1>2. Created /\ EncLayout.streams \in Nat \ {0} /\ DecLayout.streams = EncLayout.streams
          /\ DecLayout \in LayoutRecords
        BY <1>1, AtWork, BusyIsCreated, LayoutLemma
    <1>3. decoder.stream \in Nat /\ decoder.stream # None
        BY <1>1, <1>2 DEF Decoding, StreamShape, MultiShape, DecoderShape, None
    <1>4. UNCHANGED <<layouts, sent>>
        BY DEF DecodeStream
    <1>5. EncLayout' = EncLayout /\ DecLayout' = DecLayout
        BY <1>4, KeptLayouts
    <1>6. ASSUME NEW units, StreamPlayed(units), decoder'.stream = decoder.stream + 1
          PROVE  (ChannelsInPlace /\ ChannelsSoFar)'
        <2>1. decoder'.stream # None
            BY <1>3, <1>6 DEF None
        <2>2. ASSUME NEW c \in DOMAIN pcm', Len(sent) = EncLayout.streams,
                     DecLayout.mapping[c] # Muted,
                     StreamAt(DecLayout, DecLayout.mapping[c]) < decoder'.stream
              PROVE  Placed(c)'
            <3>1. DOMAIN pcm' = DOMAIN pcm
                BY <1>6, CopiedShape DEF StreamPlayed
            <3>2. c \in DOMAIN pcm
                BY <3>1
            <3>3. /\ StreamAt(DecLayout, DecLayout.mapping[c]) = decoder.stream => Placed(c)'
                  /\ StreamAt(DecLayout, DecLayout.mapping[c]) # decoder.stream => pcm'[c] = pcm[c]
                BY <1>1, <1>6, <2>2, <3>2, CopiedLemma
            <3>4. StreamAt(DecLayout, DecLayout.mapping[c]) \in Nat
                <4>1. c \in 1..DecLayout.channels
                    BY <1>1, <1>2, <3>2 DEF StreamShape, OutputShape
                <4>2. DecLayout.mapping[c] \in Nat /\ DecLayout.coupled <= DecLayout.streams
                    BY <1>2, <4>1 DEF Created, ValidLayout, LayoutRecords
                <4>. QED BY <1>2, <4>2, SlotsLemma
            <3>5. CASE StreamAt(DecLayout, DecLayout.mapping[c]) = decoder.stream
                BY <3>3, <3>5
            <3>6. CASE StreamAt(DecLayout, DecLayout.mapping[c]) # decoder.stream
                <4>1. StreamAt(DecLayout, DecLayout.mapping[c]) < decoder.stream
                    BY <1>3, <1>6, <2>2, <3>4, <3>6
                <4>2. Placed(c)
                    BY <1>3, <2>2, <3>2, <4>1 DEF ChannelsInv, ChannelsSoFar
                <4>3. pcm'[c] = pcm[c]
                    BY <3>3, <3>6
                <4>. QED BY <1>5, <4>2, <4>3 DEF Placed
            <3>. QED BY <3>5, <3>6
        <2>3. ChannelsSoFar'
            BY <1>4, <1>5, <2>2 DEF ChannelsSoFar
        <2>. QED BY <2>1, <2>3 DEF ChannelsInPlace, Returned
    <1>7. CASE Late \/ StreamFailed
        <2>1. decoder'.stream = None /\ decoder'.units = 0
            BY <1>7 DEF Late, StreamFailed, NoPacket
        <2>. QED BY <2>1 DEF ChannelsInPlace, Returned, ChannelsSoFar
    <1>8. decoder = [stream |-> decoder.stream, rest |-> decoder.rest, units |-> decoder.units,
                     lost |-> decoder.lost, frames |-> decoder.frames, error |-> decoder.error]
        BY <1>1 DEF StreamShape, MultiShape, DecoderShape
    <1>9. CASE Concealed
        <2>1. decoder'.stream = decoder.stream + 1 /\ StreamPlayed(decoder.units)
            BY <1>8, <1>9 DEF Concealed
        <2>. QED BY <1>6, <2>1
    <1>10. ASSUME NEW q, NEW d, Decoded(q, d)
           PROVE  (ChannelsInPlace /\ ChannelsSoFar)'
        <2>. DEFINE rest == SubSeq(decoder.rest, q.length + 1, Len(decoder.rest))
                    all == Append(decoder.frames, q.frames)
        <2>1. /\ decoder' = [decoder EXCEPT !.stream = decoder.stream + 1, !.units = d,
                                            !.rest = rest, !.frames = all]
              /\ StreamPlayed(d)
            BY <1>10 DEF Decoded
        <2>. HIDE DEF rest, all
        <2>2. decoder'.stream = decoder.stream + 1
            BY <1>8, <2>1
        <2>. QED BY <1>6, <2>1, <2>2
    <1>. QED BY <1>7, <1>9, <1>10, DecodeStreamLemma

\* ReturnSound: the muted channels are silenced.
LEMMA ChannelsReturnSound ==
    ASSUME ChannelsInv, ReturnSound
    PROVE  (ChannelsInPlace /\ ChannelsSoFar)'
    <1>1. StreamShape /\ decoder.stream = DecLayout.streams /\ DecLayout # NoLayout
        BY DEF ChannelsInv, ReturnSound
    <1>2. Created /\ EncLayout.streams \in Nat \ {0} /\ DecLayout.streams = EncLayout.streams
          /\ DecLayout \in LayoutRecords
        BY <1>1, AtWork, BusyIsCreated, LayoutLemma
    <1>3. /\ UNCHANGED <<layouts, sent>> /\ pcm' = Silenced(DecLayout, pcm)
          /\ decoder' = [decoder EXCEPT !.stream = None]
        BY DEF ReturnSound
    <1>4. EncLayout' = EncLayout /\ DecLayout' = DecLayout
        BY <1>3, KeptLayouts
    <1>5. decoder'.stream = None
        BY <1>1, <1>3 DEF StreamShape, MultiShape, DecoderShape
    <1>6. ASSUME NEW c \in DOMAIN pcm', Len(sent) = EncLayout.streams
          PROVE  IF DecLayout.mapping[c] = Muted THEN pcm'[c] = 0 ELSE Placed(c)'
        <2>1. c \in DOMAIN pcm /\ pcm'[c] = IF DecLayout.mapping[c] = Muted THEN 0 ELSE pcm[c]
            BY <1>3 DEF Silenced
        <2>2. CASE DecLayout.mapping[c] = Muted
            BY <2>1, <2>2
        <2>3. CASE DecLayout.mapping[c] # Muted
            <3>1. c \in 1..DecLayout.channels
                BY <1>1, <1>2, <2>1 DEF StreamShape, OutputShape
            <3>2. /\ DecLayout.mapping[c] \in Nat /\ DecLayout.coupled <= DecLayout.streams
                  /\ DecLayout.mapping[c] < DecLayout.streams + DecLayout.coupled
                BY <1>2, <2>3, <3>1 DEF Created, ValidLayout, LayoutRecords, SlotCount
            <3>3. StreamAt(DecLayout, DecLayout.mapping[c]) < DecLayout.streams
                BY <1>2, <3>2, SlotsLemma
            <3>4. decoder.stream # None
                BY <1>1, <1>2 DEF None
            <3>5. Placed(c)
                BY <1>1, <1>6, <2>1, <2>3, <3>3, <3>4 DEF ChannelsInv, ChannelsSoFar
            <3>. QED BY <1>4, <2>1, <2>3, <3>5 DEF Placed
        <2>. QED BY <2>2, <2>3
    <1>7. ChannelsInPlace'
        BY <1>3, <1>4, <1>6 DEF ChannelsInPlace, Placed
    <1>. QED BY <1>5, <1>7 DEF ChannelsSoFar

\* Any step.
LEMMA ChannelsStep ==
    ASSUME ChannelsInv, [Next]_vars
    PROVE  ChannelsInv'
    <1>1. StreamShape' /\ StreamShape
        BY ShapeStep DEF ChannelsInv
    <1>2. ASSUME UNCHANGED <<layouts, decoder, sent, pcm>>
          PROVE  (ChannelsInPlace /\ ChannelsSoFar)'
        <2>1. EncLayout' = EncLayout /\ DecLayout' = DecLayout
            BY <1>2, KeptLayouts
        <2>. QED BY <1>2, <2>1 DEF ChannelsInv, ChannelsInPlace, ChannelsSoFar, Returned, Placed
    <1>3. ASSUME decoder'.stream = None, decoder'.units = 0
          PROVE  (ChannelsInPlace /\ ChannelsSoFar)'
        BY <1>3 DEF ChannelsInPlace, Returned, ChannelsSoFar
    <1>4. CASE UNCHANGED vars
        BY <1>1, <1>2, <1>4 DEF ChannelsInv, vars
    <1>5. ASSUME NEW l \in Layouts, Create(l)
          PROVE  ChannelsInv'
        <2>1. NotCreated
            BY <1>5, LayoutLemma DEF ChannelsInv, StreamShape, MultiShape, Create
        <2>2. decoder'.stream = None /\ decoder'.units = 0
            BY <1>5, <2>1 DEF Create, NotCreated, IdleDecoder
        <2>. QED BY <1>1, <1>3, <2>2 DEF ChannelsInv
    <1>6. ASSUME NEW size, NEW units, CallEncoder(size, units)
          PROVE  ChannelsInv'
        <2>1. decoder'.stream = None /\ decoder'.units = 0
            BY <1>6 DEF CallEncoder, IdleDecoder
        <2>. QED BY <1>1, <1>3, <2>1 DEF ChannelsInv
    <1>7. CASE EncoderRefuses \/ \E p \in StreamPackets : EncodeStream(p) /\ StreamWritten(p)
        <2>1. encoder.stream # None /\ decoder' = decoder
            BY <1>7 DEF EncoderRefuses, Encoding, StreamWritten, EncoderFails
        <2>2. decoder'.stream = None /\ decoder'.units = 0
            BY <1>1, <2>1 DEF StreamShape, MultiShape, EncoderShape
        <2>. QED BY <1>1, <1>3, <2>2 DEF ChannelsInv
    <1>8. CASE ReturnPacket
        <2>1. UNCHANGED <<layouts, decoder, sent, pcm>>
            BY <1>8 DEF ReturnPacket
        <2>. QED BY <1>1, <1>2, <2>1 DEF ChannelsInv
    <1>9. CASE \E packet \in Bytes : \E units \in Rooms : CallDecoder(packet, units)
        <2>1. PICK packet \in Bytes : \E units \in Rooms : CallDecoder(packet, units)
            BY <1>9
        <2>2. PICK units \in Rooms : CallDecoder(packet, units)
            BY <2>1
        <2>3. /\ Created /\ EncLayout.streams \in Nat /\ DecLayout \in LayoutRecords
            BY <1>1, <2>2, AtWork, LayoutLemma DEF CallDecoder, Idle
        <2>4. \/ decoder'.stream = 0
              \/ decoder'.stream = None /\ decoder'.units = 0
            BY <2>2, <2>3, CallDecoderLemma DEF NoPacket
        <2>5. CASE decoder'.stream = None /\ decoder'.units = 0
            BY <1>1, <1>3, <2>5 DEF ChannelsInv
        <2>6. CASE decoder'.stream = 0
            <3>1. UNCHANGED layouts /\ DOMAIN pcm' = DOMAIN pcm
                BY <2>2 DEF CallDecoder
            <3>2. DecLayout' = DecLayout
                BY <3>1, KeptLayouts
            <3>3. ASSUME NEW c \in DOMAIN pcm'
                  PROVE  ~(StreamAt(DecLayout, DecLayout.mapping[c]) < 0)
                <4>1. c \in 1..DecLayout.channels
                    BY <1>1, <2>3, <3>1, <3>3 DEF StreamShape, OutputShape
                <4>2. DecLayout.mapping[c] \in Nat /\ DecLayout.coupled <= DecLayout.streams
                    BY <2>3, <4>1 DEF Created, ValidLayout, LayoutRecords
                <4>3. StreamAt(DecLayout, DecLayout.mapping[c]) \in Nat
                    BY <2>3, <4>2, SlotsLemma
                <4>. QED BY <4>3
            <3>4. ChannelsSoFar'
                BY <2>6, <3>2, <3>3 DEF ChannelsSoFar
            <3>. QED BY <1>1, <2>6, <3>4 DEF ChannelsInv, ChannelsInPlace, Returned, None
        <2>. QED BY <2>4, <2>5, <2>6
    <1>10. CASE DecodeStream
        BY <1>1, <1>10, ChannelsDecodeStream DEF ChannelsInv
    <1>11. CASE ReturnSound
        BY <1>1, <1>11, ChannelsReturnSound DEF ChannelsInv
    <1>. QED BY <1>1, <1>4, <1>5, <1>6, <1>7, <1>8, <1>9, <1>10, <1>11, StepCases

\* When opus_multistream_decode returns, each output channel has the sound of an
\* input channel of its slot, or silence if it is muted, for every pair of layouts
\* the two constructors accept.
THEOREM ChannelsAlwaysInPlace == Spec => []ChannelsInPlace
    <1>1. Init => ChannelsInv
        BY ShapeInit DEF Init, IdleDecoder, ChannelsInv, ChannelsInPlace, Returned, ChannelsSoFar
    <1>2. ChannelsInv => ChannelsInPlace
        BY DEF ChannelsInv
    <1>. QED BY <1>1, <1>2, ChannelsStep, PTL DEF Spec


-------------------------------------------------------------------------------
(***************************************************************************)
(* The packet arrives.  While it is being written, what there is of it     *)
(* is read as it was written whatever will follow, where something may.    *)
(***************************************************************************)

\* What a stream's encoder writes is one packet, which gives its frames.
LEMMA OneFramePacket ==
    ASSUME NEW p \in StreamPackets, OneFrame(p.bytes)
    PROVE  /\ p.bytes \in Bytes /\ Len(p.bytes) >= 1
           /\ p.frames = [m \in 1..1 |-> Tail(p.bytes)]
           /\ \E q : Parse(p.bytes, FALSE) = {q} /\ q.length = Len(p.bytes) /\ q.frames = p.frames
    <1>. DEFINE packet == p.bytes
                n == Len(packet) - 1
                first == TocRead(packet)
    <1>1. packet \in Bytes /\ packet # <<>> /\ \E q \in Parse(packet, FALSE) : q.frames = p.frames
        BY PacketsAssumption DEF OneFrame
    <1>2. n \in Nat /\ Len(packet) \in Nat
        BY <1>1 DEF Bytes
    <1>3. MaxFrameBytes \in Nat
        BY MaxByteAssumption DEF MaxFrameBytes
    <1>. HIDE DEF packet
    <1>0. OneFrame(packet)
        BY DEF packet
    <1>4. HeaderRead(packet, FALSE) = {first}
        BY <1>0, OneFrameHeader
    <1>5. first.last = n
        BY DEF TocRead
    <1>. HIDE DEF first, n
    <1>6. n <= MaxFrameBytes
        <2>1. CASE n > MaxFrameBytes
            <3>0. first.last > MaxFrameBytes /\ ~(first.last <= MaxFrameBytes)
                BY <1>2, <1>3, <1>5, <2>1
            <3>1. LastSize(packet, first, FALSE) = {}
                BY <3>0 DEF LastSize
            <3>2. Parse(packet, FALSE) = {}
                BY <1>1, <1>4, <3>1 DEF Parse
            <3>. QED BY <1>1, <3>2
        <2>. QED BY <1>2, <1>3, <2>1
    <1>7. PICK q : /\ Parse(packet, FALSE) = {q} /\ q.length = 1 + 0 + n
                   /\ q.frames = [m \in 1..1 |-> SubSeq(packet, 0 + 2, 1 + 0 + n)]
        <2>. DEFINE b == 0
                    sd == FALSE
        <2>1. b \in Nat /\ b + n <= Len(packet) - 1 /\ b = 0 /\ n = Len(packet) - 1
            BY <1>2 DEF n
        <2>0. sd \in BOOLEAN /\ ~sd
            OBVIOUS
        <2>. HIDE DEF b, sd
        <2>3. /\ sd => SizeAt(packet, 1) = {[bytes |-> b, size |-> n]}
              /\ ~sd => b = 0 /\ n = Len(packet) - 1 /\ n <= MaxFrameBytes
            BY <1>6, <2>0, <2>1
        <2>4. packet \in Bytes
            BY <1>1
        <2>2. ReadsFrame(packet, sd, b + 2, 1 + b + n)
            BY ONLY <1>0, <1>2, <2>0, <2>1, <2>3, <2>4, OneFrameParse
        <2>. QED BY <2>2 DEF b, sd, ReadsFrame
    <1>8. 1 + 0 + n = Len(packet) /\ 0 + 2 = 2 /\ Len(packet) >= 1
        BY <1>2 DEF n
    <1>9. SubSeq(packet, 2, Len(packet)) = Tail(packet)
        BY <1>1, <1>8, HeadTailProperties DEF Bytes
    <1>10. q.length = Len(packet) /\ q.frames = [m \in 1..1 |-> Tail(packet)]
        BY <1>7, <1>8, <1>9
    <1>11. q.frames = p.frames
        BY <1>1, <1>7
    <1>. QED BY <1>1, <1>7, <1>8, <1>10, <1>11 DEF packet

\* What a stream writes is read to its end, whatever follows it.
ReadBack(p, selfDelimited, behind) ==
    \E q : LET packet == WrittenPacket(p.bytes, selfDelimited) \o behind
           IN  /\ Parse(packet, selfDelimited) = {q}
               /\ Duration(SubSeq(packet, 1, q.length)) = {p.units}
               /\ SubSeq(packet, q.length + 1, Len(packet)) = behind
               /\ q.frames = p.frames

\* The last stream's packet is written as it is, with nothing behind it.
LEMMA LastIsReadBack ==
    ASSUME NEW p \in StreamPackets, OneFrame(p.bytes)
    PROVE  ReadBack(p, FALSE, <<>>)
    <1>1. PICK q : Parse(p.bytes, FALSE) = {q} /\ q.length = Len(p.bytes) /\ q.frames = p.frames
        BY OneFramePacket
    <1>2. p.bytes \in Bytes /\ Duration(p.bytes) = {p.units}
        BY PacketsAssumption
    <1>3. WrittenPacket(p.bytes, FALSE) \o <<>> = p.bytes
        BY <1>2 DEF WrittenPacket, Bytes
    <1>4. <<>> \in Bytes /\ p.bytes \o <<>> = p.bytes
        BY <1>2 DEF Bytes
    <1>5. SubSeq(p.bytes, 1, Len(p.bytes)) = p.bytes
          /\ SubSeq(p.bytes, Len(p.bytes) + 1, Len(p.bytes)) = <<>>
        BY <1>2, <1>4, Joined
    <1>. QED BY <1>1, <1>2, <1>3, <1>5 DEF ReadBack

\* The others' packets have their size in front.
LEMMA DelimitedIsReadBack ==
    ASSUME NEW p \in StreamPackets, OneFrame(p.bytes), NEW behind \in Bytes
    PROVE  ReadBack(p, TRUE, behind)
    <1>. DEFINE toc  == Head(p.bytes)
                body == Tail(p.bytes)
                size == EncodeSize(Len(p.bytes) - 1)
                w    == (<<toc>> \o size) \o body
                r    == w \o behind
                b    == Len(size)
                n    == Len(body)
                sd   == TRUE
    <1>1. /\ p.bytes \in Bytes /\ p.bytes # <<>> /\ p.frames = [m \in 1..1 |-> body]
          /\ Duration(p.bytes) = {p.units} /\ Code(toc) = 0
        BY OneFramePacket, PacketsAssumption DEF OneFrame
    <1>2. toc \in Nat /\ body \in Bytes /\ Len(p.bytes) - 1 = n /\ n \in Nat
        BY <1>1, HeadTailProperties DEF Bytes
    <1>3. size \in Bytes /\ b \in Nat /\ <<toc>> \in Bytes /\ Len(<<toc>>) = 1
          /\ size = EncodeSize(n)
        <2>1. size = EncodeSize(n)
            BY <1>2
        <2>. HIDE DEF size, n, toc
        <2>2. size \in Bytes
            BY <1>2, <2>1, EncodeSizeNat
        <2>3. Len(size) \in Nat
            BY <2>2 DEF Bytes
        <2>4. <<toc>> \in Bytes /\ Len(<<toc>>) = 1
            BY <1>2 DEF Bytes
        <2>. QED BY <2>1, <2>2, <2>3, <2>4
    <1>4. WrittenPacket(p.bytes, TRUE) = w
        BY DEF WrittenPacket
    <1>. HIDE DEF toc, body, size
    <1>. DEFINE front == <<toc>> \o size
    <1>5. front \in Bytes /\ Len(front) = 1 + b /\ front[1] = toc
        BY <1>2, <1>3 DEF Bytes
    <1>6. w = front \o body /\ w \in Bytes /\ Len(w) = 1 + b + n /\ w[1] = toc
        <2>1. front \o body \in Bytes /\ Len(front \o body) = Len(front) + Len(body)
              /\ 1 \in 1..Len(front) /\ (front \o body)[1] = front[1]
            <3>1. 1 \in 1..Len(front)
                BY <1>3, <1>5
            <3>. QED BY <1>2, <1>5, <3>1, Joined
        <2>. QED BY <1>5, <2>1
    <1>7. /\ r \in Bytes /\ Len(r) = Len(w) + Len(behind) /\ r[1] = toc
          /\ SubSeq(r, 1, Len(w)) = w /\ SubSeq(r, Len(w) + 1, Len(r)) = behind
        <2>1. 1 \in 1..Len(w)
            BY <1>2, <1>3, <1>6
        <2>. QED BY <1>6, <2>1, Joined
    <1>8. SubSeq(r, b + 2, 1 + b + n) = body
        <2>1. SubSeq((front \o body) \o behind, Len(front) + 1, Len(front) + Len(body)) = body
            BY <1>2, <1>5, Between
        <2>2. Len(front) + 1 = b + 2 /\ Len(front) + Len(body) = 1 + b + n
            BY <1>2, <1>3, <1>5
        <2>. QED BY <2>1, <2>2
    <1>9. SizeAt(r, 1) = {[bytes |-> b, size |-> n]}
        <2>1. body \o behind \in Bytes
            BY <1>2, Joined
        <2>2. r = (<<toc>> \o size) \o (body \o behind)
            <3>1. r = (front \o body) \o behind
                OBVIOUS
            <3>. HIDE DEF r, front
            <3>2. (front \o body) \o behind = front \o (body \o behind)
                <4>1. front \in Seq(Nat) /\ body \in Seq(Nat) /\ behind \in Seq(Nat)
                    BY <1>2, <1>5 DEF Bytes
                <4>. HIDE DEF body
                <4>. QED BY ONLY <4>1, Appended
            <3>. QED BY <3>1, <3>2 DEF front
        <2>3. SizeAt(<<toc>> \o EncodeSize(n) \o (body \o behind), 1)
                = {[bytes |-> Len(EncodeSize(n)), size |-> n]}
            BY <1>2, <2>1, SizeReadBack
        <2>. QED BY <1>3, <2>2, <2>3
    <1>10. OneFrame(r) /\ OneFrame(w) /\ Head(r) = toc /\ Head(w) = toc
        <2>1. \A s \in Bytes : Len(s) >= 1 => s # <<>> /\ Head(s) = s[1]
            BY DEF Bytes
        <2>2. Len(w) >= 1 /\ Len(r) >= 1
            BY <1>2, <1>3, <1>6, <1>7 DEF Bytes
        <2>. QED BY <1>1, <1>6, <1>7, <2>1, <2>2 DEF OneFrame
    <1>. HIDE DEF w, r, front, b, n
    <1>11. ReadsFrame(r, sd, b + 2, 1 + b + n)
        <2>1. b + n <= Len(r) - 1
            BY <1>2, <1>3, <1>6, <1>7 DEF Bytes
        <2>2. sd \in BOOLEAN /\ sd
            OBVIOUS
        <2>. HIDE DEF sd
        <2>. QED BY ONLY <1>2, <1>3, <1>7, <1>9, <1>10, <2>1, <2>2, OneFrameParse
    <1>12. PICK q : /\ Parse(r, TRUE) = {q} /\ q.length = 1 + b + n
                    /\ q.frames = [m \in 1..1 |-> SubSeq(r, b + 2, 1 + b + n)]
        BY <1>11 DEF ReadsFrame
    <1>13. Duration(SubSeq(r, 1, q.length)) = {p.units}
        <2>1. Duration(w) = Duration(p.bytes)
            BY <1>10, OneFrameDuration DEF toc
        <2>. QED BY <1>1, <1>6, <1>7, <1>12, <2>1
    <1>14. SubSeq(r, q.length + 1, Len(r)) = behind /\ q.frames = p.frames
        BY <1>1, <1>6, <1>7, <1>8, <1>12
    <1>15. WrittenPacket(p.bytes, TRUE) \o behind = r
        BY <1>4 DEF r
    <1>. QED BY <1>12, <1>13, <1>14, <1>15 DEF ReadBack

\* The first k streams of a packet are read, last units each and have the frames
\* that were sent; behind lies what follows them.
Delivered(packet, k, units, behind, out) ==
    /\ Behind(packet, k) = {behind}
    /\ \A s \in 0..(k - 1) :
         /\ StreamUnits(packet, s) = {units} /\ out[s + 1].units = units
         /\ \A r \in Behind(packet, s) :
              \A q \in Parse(r, SelfDelimited(s)) : q.frames = out[s + 1].frames

\* What may follow the first streams of a packet: nothing follows the last.
Tails(k) == IF k = EncLayout.streams THEN {<<>>} ELSE Bytes

\* So it is with the streams written so far.
DeliveredSoFar ==
    encoder.stream # None =>
      \A behind \in Tails(encoder.stream) :
        Delivered(encoder.written \o behind, encoder.stream, encoder.units, behind, sent)

\* The inductive invariant.
ArriveInv == StreamShape /\ StreamsArrive /\ DeliveredSoFar

\* It depends on the layouts alone.
LEMMA KeptDelivered ==
    ASSUME UNCHANGED layouts
    PROVE  /\ \A packet, k, units, behind, out :
                Delivered(packet, k, units, behind, out) => Delivered(packet, k, units, behind, out)'
           /\ \A k : Tails(k)' = Tails(k)
           /\ \A s : SelfDelimited(s)' = SelfDelimited(s)
    <1>1. EncLayout' = EncLayout
        BY DEF EncLayout
    <1>2. \A s : SelfDelimited(s)' = SelfDelimited(s)
        BY <1>1 DEF SelfDelimited
    <1>3. \A k : Tails(k)' = Tails(k)
        BY <1>1 DEF Tails
    <1>4. /\ \A packet, n : Behind(packet, n)' = Behind(packet, n)
          /\ \A packet, n : StreamUnits(packet, n)' = StreamUnits(packet, n)
        BY KeptBehind
    <1>5. ASSUME NEW packet, NEW k, NEW units, NEW behind, NEW out,
                 Delivered(packet, k, units, behind, out)
          PROVE  Delivered(packet, k, units, behind, out)'
        BY <1>2, <1>4, <1>5 DEF Delivered
    <1>. QED BY <1>2, <1>3, <1>5

\* One stream more.
LEMMA DeliveredStep ==
    ASSUME NEW packet, NEW k \in Nat, NEW units, NEW behind, NEW p, NEW T, NEW out \in Seq(T),
           Len(out) = k, NEW record \in T, record.frames = p.frames, record.units = units,
           p.units = units, ReadBack(p, SelfDelimited(k), behind),
           Delivered(packet, k, units, WrittenPacket(p.bytes, SelfDelimited(k)) \o behind, out)
    PROVE  Delivered(packet, k + 1, units, behind, Append(out, record))
    <1>. DEFINE r == WrittenPacket(p.bytes, SelfDelimited(k)) \o behind
                next == Append(out, record)
    <1>1. PICK q : /\ Parse(r, SelfDelimited(k)) = {q}
                   /\ Duration(SubSeq(r, 1, q.length)) = {units}
                   /\ SubSeq(r, q.length + 1, Len(r)) = behind
                   /\ q.frames = p.frames
        BY DEF ReadBack
    <1>. HIDE DEF r
    <1>2. Behind(packet, k) = {r}
        BY DEF Delivered, r
    <1>3. Behind(packet, k + 1) = {behind}
        <2>1. Behind(packet, k + 1) = Beyond({r}, k)
            <3>1. Behind(packet, k + 1) = Beyond(Behind(packet, k), k)
                BY BehindStep
            <3>. QED BY <1>2, <3>1
        <2>2. Beyond({r}, k) = {SubSeq(r, q.length + 1, Len(r))}
            BY <1>1 DEF Beyond
        <2>. QED BY <1>1, <2>1, <2>2
    <1>4. StreamUnits(packet, k) = {units}
        BY <1>1, <1>2 DEF StreamUnits
    <1>5. next[k + 1] = record /\ \A s \in 0..(k - 1) : next[s + 1] = out[s + 1]
        OBVIOUS
    <1>. HIDE DEF next
    <1>6. ASSUME NEW s \in 0..k
          PROVE  /\ StreamUnits(packet, s) = {units} /\ next[s + 1].units = units
                 /\ \A t \in Behind(packet, s) :
                      \A u \in Parse(t, SelfDelimited(s)) : u.frames = next[s + 1].frames
        <2>1. CASE s = k
            BY <1>1, <1>2, <1>4, <1>5, <2>1
        <2>2. CASE s # k
            <3>1. s \in 0..(k - 1)
                BY <2>2
            <3>. QED BY <1>5, <3>1 DEF Delivered
        <2>. QED BY <2>1, <2>2
    <1>7. (k + 1) - 1 = k
        OBVIOUS
    <1>. QED BY <1>3, <1>6, <1>7 DEF Delivered, next

\* EncodeStream, when it succeeds.
LEMMA DeliverWritten ==
    ASSUME \A p \in StreamPackets : OneFrame(p.bytes),
           ArriveInv, NEW p \in StreamPackets, StreamWritten(p)
    PROVE  (StreamsArrive /\ DeliveredSoFar)'
    <1>. DEFINE k      == encoder.stream
                sd     == SelfDelimited(k)
                w      == WrittenPacket(p.bytes, sd)
                record == [frames |-> p.frames, units |-> p.units,
                           channels |-> Coded(EncLayout, k)]
                written == encoder.written \o w
    <1>1. StreamShape /\ EncLayout # NoLayout
        BY BusyIsCreated DEF ArriveInv, StreamWritten
    <1>2. EncLayout.streams \in Nat \ {0}
        BY <1>1, AtWork
    <1>3. /\ k # None /\ k \in Nat /\ k < EncLayout.streams
          /\ encoder.written \in Bytes /\ sent \in Seq(SentRecords) /\ Len(sent) = k
          /\ channel = <<>>
          /\ encoder = [stream |-> encoder.stream, size |-> encoder.size, units |-> encoder.units,
                        written |-> encoder.written, error |-> encoder.error]
        BY <1>1, <1>2 DEF StreamWritten, Encoding, StreamShape, MultiShape, EncoderShape, None
    <1>4. /\ UNCHANGED <<layouts, channel>> /\ sent' = Append(sent, record)
          /\ p.units = encoder.units
          /\ encoder' = [encoder EXCEPT !.stream = k + 1, !.written = written]
        BY DEF StreamWritten
    <1>5. w \in Bytes
        <2>1. sd \in BOOLEAN
            BY DEF SelfDelimited
        <2>. QED BY <2>1, StreamPacketLemma
    <1>6. record \in SentRecords /\ record.frames = p.frames /\ record.units = p.units
        BY <1>3 DEF SentRecords
    <1>. HIDE DEF written, record, w, sd
    <1>7. encoder'.stream = k + 1 /\ encoder'.written = written /\ encoder'.units = encoder.units
        BY <1>3, <1>4
    <1>8. ASSUME NEW behind \in Tails(k + 1)
          PROVE  Delivered(written \o behind, k + 1, encoder.units, behind, Append(sent, record))
        <2>1. behind \in Bytes
            <3>1. <<>> \in Bytes
                BY DEF Bytes
            <3>. QED BY <3>1 DEF Tails
        <2>2. ReadBack(p, sd, behind)
            <3>1. CASE k + 1 = EncLayout.streams
                <4>1. sd = FALSE /\ behind = <<>>
                    BY <3>1 DEF sd, SelfDelimited, Tails
                <4>. QED BY <4>1, LastIsReadBack
            <3>2. CASE k + 1 # EncLayout.streams
                <4>1. sd = TRUE
                    BY <3>2 DEF sd, SelfDelimited
                <4>. QED BY <2>1, <4>1, DelimitedIsReadBack
            <3>. QED BY <3>1, <3>2
        <2>3. w \o behind \in Tails(k)
            <3>1. w \o behind \in Bytes
                BY <1>5, <2>1, Joined
            <3>. QED BY <1>2, <1>3, <3>1 DEF Tails
        <2>4. Delivered(encoder.written \o (w \o behind), k, encoder.units, w \o behind, sent)
            BY <1>3, <2>3 DEF ArriveInv, DeliveredSoFar
        <2>5. written \o behind = encoder.written \o (w \o behind)
            BY <1>3, <1>5, <2>1, Appended DEF written, Bytes
        <2>6. Delivered(written \o behind, k, encoder.units, w \o behind, sent)
            BY <2>4, <2>5
        <2>. QED BY <1>3, <1>4, <1>6, <2>2, <2>6, DeliveredStep DEF w, sd
    <1>9. DeliveredSoFar'
        <2>1. ASSUME NEW behind \in Tails(k + 1)
              PROVE  Delivered(encoder.written \o behind, encoder.stream, encoder.units,
                               behind, sent)'
            <3>1. Delivered(written \o behind, k + 1, encoder.units, behind, Append(sent, record))
                BY <1>8
            <3>. HIDE DEF k
            <3>. QED BY <1>4, <1>7, <3>1, KeptDelivered
        <2>2. Tails(encoder.stream)' = Tails(k + 1)
            BY <1>4, <1>7, KeptDelivered
        <2>. QED BY <2>1, <2>2 DEF DeliveredSoFar
    <1>10. StreamsArrive'
        BY <1>3, <1>4 DEF StreamsArrive
    <1>. QED BY <1>9, <1>10

\* The packet gives each stream what was sent to it.
Arrived(packet, out) ==
    /\ Validated(packet) = {out[1].units}
    /\ Behind(packet, EncLayout.streams) = {<<>>}
    /\ \A stream \in Streams : \A r \in Behind(packet, stream) :
         \A q \in Parse(r, SelfDelimited(stream)) : q.frames = out[stream + 1].frames

\* That depends on the layouts alone.
LEMMA KeptArrived ==
    ASSUME UNCHANGED layouts
    PROVE  \A packet, out : Arrived(packet, out) => Arrived(packet, out)'
    <1>1. EncLayout' = EncLayout /\ Streams' = Streams
        BY KeptLayouts
    <1>2. /\ \A packet, n : Behind(packet, n)' = Behind(packet, n)
          /\ \A packet, n : StreamUnits(packet, n)' = StreamUnits(packet, n)
          /\ \A s : SelfDelimited(s)' = SelfDelimited(s)
        BY KeptBehind, KeptDelivered
    <1>3. \A packet : Validated(packet)' = Validated(packet)
        BY <1>1, <1>2 DEF Validated
    <1>4. \A packet, out : Arrived(packet, out) => Arrived(packet, out)'
        <2>. TAKE packet, out
        <2>. HAVE Arrived(packet, out)
        <2>. QED BY <1>1, <1>2, <1>3 DEF Arrived
    <1>. QED BY <1>4

\* ReturnPacket.
LEMMA ArriveReturned ==
    ASSUME ArriveInv, ReturnPacket
    PROVE  (StreamsArrive /\ DeliveredSoFar)'
    <1>1. StreamShape /\ EncLayout # NoLayout
        BY DEF ArriveInv, ReturnPacket
    <1>. DEFINE N == EncLayout.streams
    <1>2. N \in Nat \ {0} /\ encoder.stream = N /\ encoder.stream # None
        BY <1>1, AtWork DEF ReturnPacket, None
    <1>3. UNCHANGED <<layouts, sent>> /\ channel' = encoder.written /\ encoder'.stream = None
        BY DEF ReturnPacket, IdleEncoder
    <1>4. encoder.written \in Bytes
        BY <1>1 DEF StreamShape, MultiShape, EncoderShape
    <1>. DEFINE packet == encoder.written
                units  == encoder.units
    <1>5. Delivered(packet, N, units, <<>>, sent)
        <2>1. <<>> \in Tails(encoder.stream)
            BY <1>2 DEF Tails
        <2>2. Delivered(encoder.written \o <<>>, encoder.stream, encoder.units, <<>>, sent)
            BY <1>2, <2>1 DEF ArriveInv, DeliveredSoFar
        <2>3. encoder.written \o <<>> = encoder.written
            BY <1>4 DEF Bytes
        <2>. QED BY <1>2, <2>2, <2>3
    <1>. HIDE DEF packet, units
    <1>6. EncLayout' = EncLayout /\ Streams' = Streams /\ Streams = 0..(N - 1) /\ 0 \in Streams
        BY <1>2, <1>3, KeptLayouts DEF Streams
    <1>7. \A s \in Streams : StreamUnits(packet, s) = {units} /\ sent[s + 1].units = units
        BY <1>5, <1>6 DEF Delivered
    <1>8. Validated(packet) = {units} /\ sent[1].units = units
        <2>1. StreamUnits(packet, 0) = {units} /\ sent[0 + 1].units = units
            BY <1>6, <1>7
        <2>2. Validated(packet) = {units}
            BY <1>7, <2>1 DEF Validated
        <2>. QED BY <2>1, <2>2
    <1>9. Arrived(packet, sent)
        <2>1. ASSUME NEW stream \in Streams, NEW r \in Behind(packet, stream),
                     NEW q \in Parse(r, SelfDelimited(stream))
              PROVE  q.frames = sent[stream + 1].frames
            BY <1>5, <1>6 DEF Delivered
        <2>2. Behind(packet, EncLayout.streams) = {<<>>}
            BY <1>5 DEF Delivered
        <2>. QED BY <1>8, <2>1, <2>2 DEF Arrived
    <1>10. Arrived(channel, sent)'
        BY <1>3, <1>9, KeptArrived DEF packet
    <1>11. StreamsArrive'
        BY <1>10 DEF StreamsArrive, Arrived
    <1>. QED BY <1>3, <1>11 DEF DeliveredSoFar

\* Any step.
LEMMA ArriveStep ==
    ASSUME \A p \in StreamPackets : OneFrame(p.bytes), ArriveInv, [Next]_vars
    PROVE  ArriveInv'
    <1>1. StreamShape' /\ StreamShape
        BY ShapeStep DEF ArriveInv
    <1>2. ASSUME UNCHANGED <<layouts, encoder, sent, channel>>
          PROVE  ArriveInv'
        <2>1. StreamsArrive'
            <3>1. CASE channel = <<>>
                BY <1>2, <3>1 DEF StreamsArrive
            <3>2. CASE channel # <<>>
                <4>1. Arrived(channel, sent)
                    BY <3>2 DEF ArriveInv, StreamsArrive, Arrived
                <4>2. Arrived(channel, sent)'
                    BY <1>2, <4>1, KeptArrived
                <4>. QED BY <4>2 DEF StreamsArrive, Arrived
            <3>. QED BY <3>1, <3>2
        <2>2. DeliveredSoFar'
            <3>1. ASSUME encoder.stream # None, NEW behind \in Tails(encoder.stream)
                  PROVE  Delivered(encoder.written \o behind, encoder.stream, encoder.units,
                                   behind, sent)'
                <4>1. Delivered(encoder.written \o behind, encoder.stream, encoder.units,
                                   behind, sent)
                    BY <3>1 DEF ArriveInv, DeliveredSoFar
                <4>. QED BY <1>2, <4>1, KeptDelivered
            <3>2. Tails(encoder.stream)' = Tails(encoder.stream)
                BY <1>2, KeptDelivered
            <3>. QED BY <1>2, <3>1, <3>2 DEF DeliveredSoFar
        <2>. QED BY <1>1, <2>1, <2>2 DEF ArriveInv
    <1>3. ASSUME channel' = <<>>, encoder'.stream = None
          PROVE  ArriveInv'
        BY <1>1, <1>3 DEF ArriveInv, StreamsArrive, DeliveredSoFar
    <1>4. CASE UNCHANGED vars
        BY <1>2, <1>4 DEF vars
    <1>5. ASSUME NEW l \in Layouts, Create(l)
          PROVE  ArriveInv'
        <2>1. NotCreated
            BY <1>1, <1>5, LayoutLemma DEF StreamShape, MultiShape, Create
        <2>2. channel' = <<>> /\ encoder'.stream = None
            BY <1>5, <2>1 DEF Create, NotCreated, IdleEncoder
        <2>. QED BY <1>3, <2>2
    <1>6. ASSUME NEW size, NEW units, CallEncoder(size, units)
          PROVE  ArriveInv'
        <2>1. EncLayout # NoLayout /\ UNCHANGED layouts /\ channel' = <<>> /\ sent' = <<>>
              /\ \/ encoder' = [IdleEncoder EXCEPT !.error = "small"]
                 \/ encoder' = [IdleEncoder EXCEPT !.stream = 0, !.size = size, !.units = units]
            BY <1>6 DEF CallEncoder, Idle
        <2>2. EncLayout.streams \in Nat \ {0}
            BY <1>1, <2>1, AtWork
        <2>3. CASE encoder' = [IdleEncoder EXCEPT !.error = "small"]
            BY <1>3, <2>1, <2>3 DEF IdleEncoder
        <2>4. CASE encoder' = [IdleEncoder EXCEPT !.stream = 0, !.size = size, !.units = units]
            <3>1. encoder'.stream = 0 /\ encoder'.written = <<>> /\ encoder'.units = units
                BY <2>4 DEF IdleEncoder
            <3>2. ASSUME NEW behind \in Bytes
                  PROVE  Delivered(<<>> \o behind, 0, units, behind, <<>>)
                <4>1. <<>> \o behind = behind
                    BY DEF Bytes
                <4>2. Behind(behind, 0) = {behind}
                    BY BehindStep
                <4>3. 0..(0 - 1) = {}
                    OBVIOUS
                <4>. QED BY <4>1, <4>2, <4>3 DEF Delivered
            <3>3. Tails(encoder.stream)' = Bytes
                <4>1. Tails(0) = Bytes
                    BY <2>2 DEF Tails
                <4>. QED BY <2>1, <3>1, <4>1, KeptDelivered
            <3>4. ASSUME NEW behind \in Bytes
                  PROVE  Delivered(encoder.written \o behind, encoder.stream, encoder.units,
                                   behind, sent)'
                <4>1. Delivered(<<>> \o behind, 0, units, behind, <<>>)
                    BY <3>2
                <4>. QED BY <2>1, <3>1, <4>1, KeptDelivered
            <3>. QED BY <1>1, <2>1, <3>3, <3>4 DEF ArriveInv, StreamsArrive, DeliveredSoFar
        <2>. QED BY <2>1, <2>3, <2>4
    <1>7. CASE EncoderRefuses
        <2>1. channel' = <<>> /\ encoder'.stream = None
            BY <1>7 DEF EncoderRefuses, EncoderFails, IdleEncoder
        <2>. QED BY <1>3, <2>1
    <1>8. CASE \E p \in StreamPackets : EncodeStream(p) /\ StreamWritten(p)
        BY <1>1, <1>8, DeliverWritten DEF ArriveInv
    <1>9. CASE ReturnPacket
        BY <1>1, <1>9, ArriveReturned DEF ArriveInv
    <1>10. CASE (\E packet \in Bytes : \E units \in Rooms : CallDecoder(packet, units)) \/ DecodeStream \/ ReturnSound
        <2>1. UNCHANGED <<layouts, encoder, sent, channel>>
            BY <1>10 DEF CallDecoder, DecodeStream, ReturnSound
        <2>. QED BY <1>2, <2>1, SMTT(30)
    <1>. QED BY <1>1, <1>4, <1>5, <1>6, <1>7, <1>8, <1>9, <1>10, StepCases

\* The packet opus_multistream_encode returns gives each stream's decoder the frames
\* of that stream's encoder and lasts as long as they do, for every layout and every
\* number of streams, if the streams' packets have one frame each.  Without that
\* hypothesis it is false: write_stream_packet writes one size in front of a packet
\* of several frames right behind its TOC byte, where the parser looks for the first
\* frame's.
THEOREM StreamsAlwaysArrive ==
    ASSUME \A p \in StreamPackets : OneFrame(p.bytes)
    PROVE  Spec => []StreamsArrive
    <1>1. Init => ArriveInv
        BY ShapeInit DEF Init, IdleEncoder, ArriveInv, StreamsArrive, DeliveredSoFar
    <1>2. ArriveInv /\ [Next]_vars => ArriveInv'
        BY ArriveStep
    <1>3. ArriveInv => StreamsArrive
        BY DEF ArriveInv
    <1>. QED BY <1>1, <1>2, <1>3, PTL DEF Spec

-------------------------------------------------------------------------------
(***************************************************************************)
(* A packet that arrives whole is heard by all streams, or by none.        *)
(***************************************************************************)

\* A call with the packet the encoder returned moves every stream by what the encoder
\* coded; only the caller, with less room than that, has it refused, as a whole.
WholePacketsAreHeard ==
    channel # <<>> /\ taken.packet = channel /\ decoder.stream = None =>
      \/ decoder.error = "room" /\ \A stream \in Streams : Moved(stream) = 0
      \/ decoder.error = "none" /\ \A stream \in Streams : Moved(stream) = sent[1].units

\* The least length of what is written for the first streams.
LeastWritten(streams) == IF streams = EncLayout.streams THEN SmallestPacket ELSE 2 * streams

\* What is written is long enough, and the decoder has not had it yet; once it is a
\* packet, there is a record of each stream, and all last the same.
WrittenWhole ==
    /\ encoder.stream # None =>
         Len(encoder.written) >= LeastWritten(encoder.stream) /\ taken.packet = <<>>
    /\ channel # <<>> =>
         /\ Len(channel) >= SmallestPacket /\ Len(sent) = EncLayout.streams
         /\ \A stream \in Streams : sent[stream + 1].units = sent[1].units

\* The decoder is reading it, or has heard it.
HeardSoFar ==
    channel # <<>> /\ taken.packet = channel =>
      IF decoder.stream = None THEN WholePacketsAreHeard
      ELSE ~decoder.lost /\ Reading(channel, sent[1].units)

\* The inductive invariant.
HeardInv == StepInv /\ ArriveInv /\ WrittenWhole /\ HeardSoFar

\* The length of what is written for a stream.
LEMMA WrittenLength ==
    ASSUME NEW p \in StreamPackets, NEW selfDelimited \in BOOLEAN, NEW before \in Bytes
    PROVE  LET packet == WrittenPacket(p.bytes, selfDelimited)
           IN  Len(before \o packet) >= Len(before) + (IF selfDelimited THEN 2 ELSE 1)
    <1>. DEFINE packet == WrittenPacket(p.bytes, selfDelimited)
                size   == EncodeSize(Len(p.bytes) - 1)
    <1>1. p.bytes \in Bytes /\ p.bytes # <<>> /\ packet \in Bytes
        BY StreamPacketLemma
    <1>2. Len(p.bytes) \in Nat /\ Len(p.bytes) >= 1
        BY <1>1 DEF Bytes
    <1>3. Len(packet) >= IF selfDelimited THEN 2 ELSE 1
        <2>1. CASE ~selfDelimited
            <3>1. packet = p.bytes
                BY <2>1 DEF WrittenPacket
            <3>. QED BY <1>2, <2>1, <3>1
        <2>2. CASE selfDelimited
            <3>1. Head(p.bytes) \in Nat /\ Tail(p.bytes) \in Bytes /\ Len(p.bytes) - 1 \in Nat
                BY <1>1, <1>2, HeadTailProperties DEF Bytes
            <3>2. size \in Bytes /\ Len(size) >= 1
                <4>. DEFINE n == Len(p.bytes) - 1
                <4>1. n \in Nat /\ size = EncodeSize(n)
                    BY <3>1
                <4>. HIDE DEF n, size
                <4>2. Escape \in Nat
                    BY MaxByteAssumption DEF Escape
                <4>3. CASE n < Escape
                    <5>1. size = <<n>> /\ size \in Bytes
                        BY <4>1, <4>3, EncodeSizeNat
                    <5>. QED BY <5>1
                <4>4. CASE n >= Escape
                    <5>1. PICK first \in Nat, second \in Nat : size = <<first, second>>
                        BY <4>1, <4>4, EncodeSizeNat
                    <5>2. size \in Bytes
                        BY <4>1, EncodeSizeNat
                    <5>. QED BY <5>1, <5>2
                <4>. QED BY <4>1, <4>2, <4>3, <4>4
            <3>. HIDE DEF size
            <3>3. <<Head(p.bytes)>> \in Bytes /\ Len(<<Head(p.bytes)>>) = 1
                BY <3>1 DEF Bytes
            <3>4. /\ <<Head(p.bytes)>> \o size \in Bytes
                  /\ Len(<<Head(p.bytes)>> \o size) = 1 + Len(size)
                BY <3>2, <3>3, Joined
            <3>5. Len((<<Head(p.bytes)>> \o size) \o Tail(p.bytes))
                    = 1 + Len(size) + Len(Tail(p.bytes))
                BY <3>1, <3>4, Joined
            <3>6. packet = (<<Head(p.bytes)>> \o size) \o Tail(p.bytes)
                BY <2>2 DEF WrittenPacket, size
            <3>7. Len(size) \in Nat /\ Len(Tail(p.bytes)) \in Nat
                BY <3>1, <3>2 DEF Bytes
            <3>8. Len(packet) = 1 + Len(size) + Len(Tail(p.bytes))
                BY <3>5, <3>6
            <3>9. Len(packet) >= 2
                <4>. DEFINE front == Len(size)
                            back  == Len(Tail(p.bytes))
                <4>1. front \in Nat /\ back \in Nat /\ front >= 1 /\ Len(packet) = 1 + front + back
                    BY <3>2, <3>7, <3>8
                <4>. HIDE DEF front, back
                <4>. QED BY ONLY <4>1
            <3>. QED BY <2>2, <3>9
        <2>. QED BY <2>1, <2>2
    <1>. HIDE DEF packet
    <1>4. Len(before \o packet) = Len(before) + Len(packet)
          /\ Len(before) \in Nat /\ Len(packet) \in Nat
        BY <1>1 DEF Bytes
    <1>. QED BY <1>3, <1>4 DEF packet

\* EncodeStream, when it succeeds.
LEMMA HeardWritten ==
    ASSUME HeardInv, NEW p \in StreamPackets, StreamWritten(p)
    PROVE  (WrittenWhole /\ HeardSoFar)'
    <1>. DEFINE k  == encoder.stream
                sd == SelfDelimited(k)
                written == encoder.written \o WrittenPacket(p.bytes, sd)
    <1>1. StreamShape /\ EncLayout # NoLayout
        BY BusyIsCreated DEF HeardInv, ArriveInv, StreamWritten
    <1>2. EncLayout.streams \in Nat \ {0}
        BY <1>1, AtWork
    <1>3. /\ k # None /\ k \in Nat /\ k < EncLayout.streams
          /\ encoder.written \in Bytes /\ channel = <<>>
          /\ encoder = [stream |-> encoder.stream, size |-> encoder.size, units |-> encoder.units,
                        written |-> encoder.written, error |-> encoder.error]
        BY <1>1, <1>2 DEF StreamWritten, Encoding, StreamShape, MultiShape, EncoderShape, None
    <1>4. /\ UNCHANGED <<layouts, channel, taken>>
          /\ encoder' = [encoder EXCEPT !.stream = k + 1, !.written = written]
        BY DEF StreamWritten
    <1>5. Len(encoder.written) >= 2 * k /\ taken.packet = <<>>
        BY <1>2, <1>3 DEF HeardInv, WrittenWhole, LeastWritten
    <1>6. Len(written) >= Len(encoder.written) + (IF sd THEN 2 ELSE 1)
        <2>1. sd \in BOOLEAN
            BY DEF SelfDelimited
        <2>. HIDE DEF sd
        <2>. QED BY <1>3, <2>1, WrittenLength
    <1>7. Len(encoder.written) \in Nat /\ Len(written) \in Nat
        <2>1. written \in Bytes
            <3>1. sd \in BOOLEAN
                BY DEF SelfDelimited
            <3>2. WrittenPacket(p.bytes, sd) \in Bytes
                BY <3>1, StreamPacketLemma
            <3>. HIDE DEF sd
            <3>. QED BY <1>3, <3>2, Joined
        <2>. HIDE DEF written
        <2>. QED BY <1>3, <2>1 DEF Bytes
    <1>8. sd <=> k + 1 # EncLayout.streams
        BY DEF SelfDelimited
    <1>. HIDE DEF written, sd
    <1>9. encoder'.stream = k + 1 /\ encoder'.written = written
        BY <1>3, <1>4
    <1>10. Len(written) >= LeastWritten(k + 1)
        <2>1. CASE k + 1 = EncLayout.streams
            BY <1>2, <1>3, <1>5, <1>6, <1>7, <1>8, <2>1 DEF LeastWritten, SmallestPacket
        <2>2. CASE k + 1 # EncLayout.streams
            BY <1>2, <1>3, <1>5, <1>6, <1>7, <1>8, <2>2 DEF LeastWritten
        <2>. QED BY <2>1, <2>2
    <1>11. EncLayout' = EncLayout
        BY <1>4, KeptLayouts
    <1>12. LeastWritten(encoder.stream)' = LeastWritten(k + 1)
        BY <1>9, <1>11 DEF LeastWritten, SmallestPacket
    <1>13. channel' = <<>> /\ taken'.packet = <<>>
        BY <1>3, <1>4, <1>5
    <1>14. WrittenWhole'
        BY <1>9, <1>10, <1>12, <1>13 DEF WrittenWhole
    <1>15. HeardSoFar'
        BY <1>13 DEF HeardSoFar
    <1>. QED BY <1>14, <1>15

\* ReturnPacket.
LEMMA HeardReturned ==
    ASSUME HeardInv, ReturnPacket
    PROVE  (WrittenWhole /\ HeardSoFar)'
    <1>. DEFINE N == EncLayout.streams
    <1>1. StreamShape /\ EncLayout # NoLayout
        BY DEF HeardInv, ArriveInv, ReturnPacket
    <1>2. N \in Nat \ {0} /\ encoder.stream = N /\ encoder.stream # None
        BY <1>1, AtWork DEF ReturnPacket, None
    <1>3. /\ UNCHANGED <<layouts, sent, taken>> /\ channel' = encoder.written
          /\ encoder'.stream = None
        BY DEF ReturnPacket, IdleEncoder
    <1>4. Len(encoder.written) >= SmallestPacket /\ taken.packet = <<>>
        BY <1>2 DEF HeardInv, WrittenWhole, LeastWritten
    <1>5. Delivered(encoder.written \o <<>>, N, encoder.units, <<>>, sent)
        <2>1. <<>> \in Tails(encoder.stream)
            BY <1>2 DEF Tails
        <2>. QED BY <1>2, <2>1 DEF HeardInv, ArriveInv, DeliveredSoFar
    <1>6. EncLayout' = EncLayout /\ Streams' = Streams /\ Streams = 0..(N - 1) /\ 0 \in Streams
        BY <1>2, <1>3, KeptLayouts DEF Streams
    <1>7. Len(sent) = N
        BY <1>1, <1>2 DEF StreamShape, MultiShape, EncoderShape
    <1>8. \A s \in Streams : sent[s + 1].units = sent[1].units
        <2>1. \A s \in Streams : sent[s + 1].units = encoder.units
            BY <1>5, <1>6 DEF Delivered
        <2>2. sent[0 + 1].units = encoder.units
            BY <1>6, <2>1
        <2>. QED BY <2>1, <2>2
    <1>9. SmallestPacket' = SmallestPacket
        BY <1>6 DEF SmallestPacket
    <1>10. WrittenWhole'
        BY <1>3, <1>4, <1>6, <1>7, <1>8, <1>9 DEF WrittenWhole
    <1>11. HeardSoFar'
        BY <1>3, <1>4 DEF HeardSoFar
    <1>. QED BY <1>10, <1>11

\* What is sent and what is written stay.
LEMMA KeptWritten ==
    ASSUME WrittenWhole, UNCHANGED <<layouts, encoder, sent, channel>>,
           encoder.stream # None => taken'.packet = <<>>
    PROVE  WrittenWhole'
    <1>1. EncLayout' = EncLayout /\ Streams' = Streams
        BY KeptLayouts
    <1>2. SmallestPacket' = SmallestPacket /\ \A n : LeastWritten(n)' = LeastWritten(n)
        BY <1>1 DEF SmallestPacket, LeastWritten
    <1>3. LeastWritten(encoder.stream)' = LeastWritten(encoder.stream)
        BY <1>1 DEF SmallestPacket, LeastWritten
    <1>. QED BY <1>1, <1>2, <1>3 DEF WrittenWhole

\* The packet of a call that decodes it, and its duration.
LEMMA WholeValidated ==
    ASSUME HeardInv, channel # <<>>
    PROVE  /\ Validated(channel) = {sent[1].units} /\ ~(Len(channel) < SmallestPacket)
    <1>1. Len(channel) >= SmallestPacket
        BY DEF HeardInv, WrittenWhole
    <1>2. Len(channel) \in Nat
        BY DEF HeardInv, StepInv, StreamShape, MultiShape, EncoderShape, Bytes
    <1>3. SmallestPacket \in Int
        <2>1. EncLayout.streams \in Nat
            <3>1. CASE NotCreated
                BY <3>1 DEF NotCreated
            <3>2. CASE Created
                BY <3>2, LayoutLemma
            <3>. QED BY <3>1, <3>2 DEF HeardInv, StepInv, StreamShape, MultiShape
        <2>. QED BY <2>1 DEF SmallestPacket
    <1>. QED BY <1>1, <1>2, <1>3 DEF HeardInv, ArriveInv, StreamsArrive

\* Receive, ReceiveCut and ReceiveForeign.
LEMMA HeardCallDecoder ==
    ASSUME HeardInv, NEW packet \in Bytes, NEW units \in Rooms, CallDecoder(packet, units)
    PROVE  (WrittenWhole /\ HeardSoFar)'
    <1>1. UNCHANGED <<layouts, encoder, sent, channel>> /\ encoder.stream = None
          /\ taken' = [packet |-> packet, before |-> played]
        BY DEF CallDecoder, Idle
    <1>2. WrittenWhole'
        BY <1>1, KeptWritten DEF HeardInv
    <1>3. EncLayout.streams \in Nat
        BY AtWork DEF CallDecoder, Idle, HeardInv, StepInv
    <1>4. /\ InStep' /\ NotMoved'
          /\ decoder'.stream # None /\ ~decoder'.lost =>
                \A d \in Validated(packet) : Reading(packet, d)'
        BY StepCallDecoder DEF HeardInv
    <1>5. ASSUME channel # <<>>, packet = channel
          PROVE  \/ decoder'.stream = None /\ decoder'.error = "room"
                 \/ decoder'.stream = 0 /\ ~decoder'.lost
        <2>1. Validated(packet) # {} /\ ~(Len(packet) < SmallestPacket)
            BY <1>5, WholeValidated
        <2>. QED BY <1>3, <1>5, <2>1, CallDecoderLemma DEF NoPacket
    <1>6. ASSUME channel # <<>>, packet = channel
          PROVE  HeardSoFar'
        <2>1. CASE decoder'.stream = None /\ decoder'.error = "room"
            <3>1. \A s \in Streams' : Moved(s)' = 0
                BY <1>4 DEF InStep, NotMoved, Counted, Moved
            <3>. QED BY <2>1, <3>1 DEF HeardSoFar, WholePacketsAreHeard
        <2>2. CASE decoder'.stream = 0 /\ ~decoder'.lost
            <3>1. decoder'.stream # None
                BY <2>2 DEF None
            <3>2. Reading(packet, sent[1].units)'
                <4>1. sent[1].units \in Validated(packet)
                    BY <1>6, WholeValidated
                <4>2. PICK d : d = sent[1].units
                    OBVIOUS
                <4>3. Reading(packet, d)'
                    BY <1>4, <2>2, <3>1, <4>1, <4>2
                <4>4. sent'[1].units = d
                    BY <1>1, <4>2
                <4>. QED BY <4>3, <4>4 DEF Reading
            <3>3. Reading(channel, sent[1].units)'
                BY <1>1, <1>6, <3>2 DEF Reading
            <3>. QED BY <2>2, <3>1, <3>3 DEF HeardSoFar
        <2>. QED BY <1>5, <1>6, <2>1, <2>2
    <1>7. CASE ~(channel # <<>> /\ packet = channel)
        <2>1. ~(channel' # <<>> /\ taken'.packet = channel')
            BY <1>1, <1>7
        <2>. QED BY <1>2, <2>1 DEF HeardSoFar
    <1>. QED BY <1>2, <1>6, <1>7

\* A whole packet gives its stream's decoder what the stream's encoder wrote.
LEMMA WholeIsIntact ==
    ASSUME HeardInv, Decoding, channel # <<>>, ~decoder.lost, Reading(channel, sent[1].units)
    PROVE  PlayedAtFailure(decoder.stream) = {}
    <1>. DEFINE k == decoder.stream
    <1>1. Created /\ EncLayout.streams \in Nat \ {0} /\ DecLayout.streams = EncLayout.streams
        BY AtWork, BusyIsCreated DEF HeardInv, StepInv
    <1>2. k \in Nat /\ k < EncLayout.streams /\ k \in Streams
        BY <1>1 DEF Decoding, HeardInv, StepInv, StreamShape, MultiShape, DecoderShape, None, Streams
    <1>3. ASSUME NEW q \in Parse(decoder.rest, SelfDelimited(k)),
                 NEW d \in Duration(SubSeq(decoder.rest, 1, q.length))
          PROVE  Intact(k, q, d)
        <2>1. d = sent[1].units
            BY <1>3, ReadingLemma DEF HeardInv, StepInv
        <2>2. k < Len(sent) /\ sent[k + 1].units = sent[1].units
            BY <1>2 DEF HeardInv, WrittenWhole
        <2>3. q.frames = sent[k + 1].frames
            <3>1. decoder.rest \in Behind(channel, k)
                BY DEF Reading
            <3>. QED BY <1>2, <3>1 DEF HeardInv, ArriveInv, StreamsArrive
        <2>. QED BY <2>1, <2>2, <2>3 DEF Intact
    <1>. HIDE DEF k
    <1>4. PlayedAtFailure(k) = {}
        BY <1>3, Zenon DEF PlayedAtFailure
    <1>. QED BY <1>4 DEF k

\* DecodeStream: no decoder fails.
LEMMA HeardDecodeStream ==
    ASSUME HeardInv, DecodeStream
    PROVE  (WrittenWhole /\ HeardSoFar)'
    <1>1. Decoding /\ UNCHANGED <<layouts, encoder, sent, channel, taken>>
        BY DEF DecodeStream
    <1>2. Created /\ EncLayout.streams \in Nat \ {0} /\ DecLayout.streams = EncLayout.streams
        BY <1>1, AtWork, BusyIsCreated DEF HeardInv, StepInv
    <1>3. decoder.stream \in Nat /\ decoder.stream # None /\ decoder.stream + 1 # None
        BY <1>1, <1>2 DEF Decoding, HeardInv, StepInv, StreamShape, MultiShape, DecoderShape, None
    <1>4. WrittenWhole'
        BY <1>1, KeptWritten DEF HeardInv, WrittenWhole
    <1>5. ASSUME channel # <<>>, taken.packet = channel
          PROVE  HeardSoFar'
        <2>1. ~decoder.lost /\ Reading(channel, sent[1].units)
            BY <1>3, <1>5 DEF HeardInv, HeardSoFar
        <2>2. ~StreamFailed
            BY <1>1, <1>5, <2>1, WholeIsIntact DEF StreamFailed
        <2>3. ~Concealed
            BY <2>1 DEF Concealed
        <2>4. PICK packet, units : packet = channel /\ units = sent[1].units
            OBVIOUS
        <2>5. Reading(packet, units)' /\ decoder'.stream = decoder.stream + 1 /\ ~decoder'.lost
            <3>1. PICK q \in Parse(decoder.rest, SelfDelimited(decoder.stream)) :
                    \E d \in Duration(SubSeq(decoder.rest, 1, q.length)) :
                      (Late /\ d > decoder.units) \/ Decoded(q, d)
                BY <2>2, <2>3, DecodeStreamLemma
            <3>2. PICK d \in Duration(SubSeq(decoder.rest, 1, q.length)) :
                    (Late /\ d > decoder.units) \/ Decoded(q, d)
                BY <3>1
            <3>3. Reading(packet, units)
                BY <2>1, <2>4
            <3>4. Reading(packet, units)' /\ decoder'.stream = decoder.stream + 1
                  /\ decoder'.lost = decoder.lost
                BY <1>1, <3>2, <3>3, ReadingStep DEF HeardInv
            <3>. QED BY <2>1, <3>4
        <2>6. Reading(channel, sent[1].units)'
            BY <1>1, <2>4, <2>5 DEF Reading
        <2>. QED BY <1>3, <2>5, <2>6 DEF HeardSoFar
    <1>6. CASE ~(channel # <<>> /\ taken.packet = channel)
        <2>1. ~(channel' # <<>> /\ taken'.packet = channel')
            BY <1>1, <1>6
        <2>. QED BY <1>4, <2>1 DEF HeardSoFar
    <1>. QED BY <1>4, <1>5, <1>6

\* ReturnSound.
LEMMA HeardReturnSound ==
    ASSUME HeardInv, ReturnSound
    PROVE  (WrittenWhole /\ HeardSoFar)'
    <1>1. Created /\ EncLayout.streams \in Nat \ {0} /\ DecLayout.streams = EncLayout.streams
        BY AtWork, BusyIsCreated DEF ReturnSound, HeardInv, StepInv
    <1>2. decoder.stream = EncLayout.streams /\ decoder.stream # None
          /\ UNCHANGED <<layouts, encoder, sent, channel, taken>>
        BY <1>1 DEF ReturnSound, None
    <1>3. WrittenWhole'
        BY <1>2, KeptWritten DEF HeardInv, WrittenWhole
    <1>4. decoder'.stream = None /\ decoder'.error = "none"
          /\ \A stream \in Streams' : Moved(stream)' = decoder.units
        BY StepReturnSound DEF HeardInv
    <1>5. ASSUME channel # <<>>, taken.packet = channel
          PROVE  HeardSoFar'
        <2>1. decoder.units = sent[1].units
            BY <1>1, <1>2, <1>5 DEF HeardInv, HeardSoFar, Reading
        <2>. QED BY <1>2, <1>4, <2>1 DEF HeardSoFar, WholePacketsAreHeard
    <1>6. CASE ~(channel # <<>> /\ taken.packet = channel)
        <2>1. ~(channel' # <<>> /\ taken'.packet = channel')
            BY <1>2, <1>6
        <2>. QED BY <1>3, <2>1 DEF HeardSoFar
    <1>. QED BY <1>3, <1>5, <1>6

\* Any step.
LEMMA HeardStep ==
    ASSUME \A p \in StreamPackets : OneFrame(p.bytes), HeardInv, [Next]_vars
    PROVE  HeardInv'
    <1>1. StepInv' /\ ArriveInv' /\ StreamShape
        BY StepStep, ArriveStep DEF HeardInv, StepInv
    <1>2. ASSUME channel' = <<>>, encoder'.stream = None
          PROVE  (WrittenWhole /\ HeardSoFar)'
        BY <1>2 DEF WrittenWhole, HeardSoFar
    <1>3. CASE UNCHANGED vars
        <2>1. UNCHANGED <<layouts, encoder, sent, channel, taken, decoder, played>>
            BY <1>3 DEF vars
        <2>2. WrittenWhole'
            BY <2>1, KeptWritten DEF HeardInv, WrittenWhole
        <2>3. \A packet, units : Reading(packet, units) => Reading(packet, units)'
            BY <2>1, KeptBehind DEF Reading
        <2>4. WholePacketsAreHeard' <=> WholePacketsAreHeard
            <3>1. Streams' = Streams /\ \A s : Moved(s)' = Moved(s)
                BY <2>1, KeptBehind DEF Moved
            <3>. QED BY <2>1, <3>1 DEF WholePacketsAreHeard
        <2>5. Reading(channel, sent[1].units) => Reading(channel, sent[1].units)'
            BY <2>1, KeptBehind DEF Reading
        <2>. QED BY <1>1, <2>1, <2>2, <2>4, <2>5 DEF HeardInv, HeardSoFar
    <1>4. ASSUME NEW l \in Layouts, Create(l)
          PROVE  HeardInv'
        <2>1. NotCreated
            BY <1>1, <1>4, LayoutLemma DEF StreamShape, MultiShape, Create
        <2>2. channel' = <<>> /\ encoder'.stream = None
            BY <1>4, <2>1 DEF Create, NotCreated, IdleEncoder
        <2>. QED BY <1>1, <1>2, <2>2 DEF HeardInv
    <1>5. ASSUME NEW size, NEW units, CallEncoder(size, units)
          PROVE  HeardInv'
        <2>1. EncLayout # NoLayout /\ UNCHANGED layouts /\ channel' = <<>>
              /\ taken'.packet = <<>>
              /\ \/ encoder' = [IdleEncoder EXCEPT !.error = "small"]
                 \/ encoder' = [IdleEncoder EXCEPT !.stream = 0, !.size = size, !.units = units]
            BY <1>5 DEF CallEncoder, Idle
        <2>2. EncLayout.streams \in Nat \ {0} /\ EncLayout' = EncLayout
            BY <1>1, <2>1, AtWork, KeptLayouts
        <2>3. encoder'.stream \in {None, 0} /\ encoder'.written = <<>>
            BY <2>1 DEF IdleEncoder
        <2>4. encoder'.stream = 0 => LeastWritten(encoder.stream)' = 0
            BY <2>2, <2>3 DEF LeastWritten
        <2>5. Len(<<>>) = 0
            OBVIOUS
        <2>6. WrittenWhole'
            BY <2>1, <2>3, <2>4, <2>5 DEF WrittenWhole
        <2>7. HeardSoFar'
            BY <2>1 DEF HeardSoFar
        <2>. QED BY <1>1, <2>6, <2>7 DEF HeardInv
    <1>6. CASE EncoderRefuses
        <2>1. channel' = <<>> /\ encoder'.stream = None
            BY <1>6 DEF EncoderRefuses, EncoderFails, IdleEncoder
        <2>. QED BY <1>1, <1>2, <2>1 DEF HeardInv
    <1>7. CASE \E p \in StreamPackets : EncodeStream(p) /\ StreamWritten(p)
        BY <1>1, <1>7, HeardWritten DEF HeardInv
    <1>8. CASE ReturnPacket
        BY <1>1, <1>8, HeardReturned DEF HeardInv
    <1>9. CASE \E packet \in Bytes : \E units \in Rooms : CallDecoder(packet, units)
        BY <1>1, <1>9, HeardCallDecoder DEF HeardInv
    <1>10. CASE DecodeStream
        BY <1>1, <1>10, HeardDecodeStream DEF HeardInv
    <1>11. CASE ReturnSound
        BY <1>1, <1>11, HeardReturnSound DEF HeardInv
    <1>. QED BY <1>1, <1>3, <1>4, <1>5, <1>6, <1>7, <1>8, <1>9, <1>10, <1>11, StepCases

\* Called with the packet opus_multistream_encode returned, opus_multistream_decode moves
\* every stream's decoder by the duration all the encoders coded, and no stream is left
\* behind; a caller with less room for the sound has the packet refused before anything
\* moves.  So it is for every layout and number of streams, if the streams' packets have
\* one frame each and a stream's decoder takes what its own encoder wrote.
THEOREM NoPacketIsAbandoned ==
    ASSUME \A p \in StreamPackets : OneFrame(p.bytes)
    PROVE  Spec => []WholePacketsAreHeard
    <1>1. Init => HeardInv
        <2>. SUFFICES ASSUME Init PROVE HeardInv
            OBVIOUS
        <2>1. channel = <<>> /\ encoder.stream = None
            BY DEF Init, IdleEncoder
        <2>2. ArriveInv
            BY <2>1, ShapeInit DEF ArriveInv, StreamsArrive, DeliveredSoFar
        <2>. QED BY <2>1, <2>2, StepInit DEF HeardInv, WrittenWhole, HeardSoFar
    <1>2. HeardInv /\ [Next]_vars => HeardInv'
        BY HeardStep
    <1>3. HeardInv => WholePacketsAreHeard
        BY DEF HeardInv, HeardSoFar, WholePacketsAreHeard
    <1>. QED BY <1>1, <1>2, <1>3, PTL DEF Spec

===============================================================================
