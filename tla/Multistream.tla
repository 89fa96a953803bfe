------------------------------ MODULE Multistream ------------------------------
(***************************************************************************)
(* A multistream encoder and decoder and what lies between them            *)
(* (opus_multistream.rs).  The encoder has one Opus encoder per stream and *)
(* appends their packets, all but the last self-delimited; the decoder     *)
(* reads the whole packet before the first stream's decoder moves, then    *)
(* decodes stream by stream and copies each to its channels.  One step of  *)
(* the model is one turn of either loop.                                   *)
(*                                                                         *)
(* The Opus encoders and decoders are counted, not modelled: an encoder    *)
(* writes any packet of StreamPackets that fits its room or finds that it  *)
(* has no room, a decoder returns the frames and the channels it was sent, *)
(* or fails on anything else.                                              *)
(***************************************************************************)
EXTENDS PacketFraming, StreamRates

CONSTANTS
    Layouts,         \* records [encoder, decoder]: the layouts asked for
    StreamPackets,   \* records [bytes, frames, units]: what an encoder writes
    Buffers,         \* lengths of the buffer an encoder is given
    Foreign,         \* packets of another encoder, as bytes
    Cuts,            \* how many bytes of a packet are left of it
    FrameUnitsAsked, \* durations of a frame, in units of 2.5 ms
    Rooms,           \* durations a decoder has room for, in the same units
    Calls            \* calls of the encoder and the decoder each (a bound)

ASSUME BuffersAssumption == Buffers \subseteq Nat /\ Calls \in Nat

\* A decoder is made for the streams of the encoder it listens to.
LayoutRecords == [channels : Nat, streams : Nat, coupled : Nat, mapping : Seq(Nat)]

ASSUME LayoutsAssumption ==
    \A l \in Layouts :
      /\ l.encoder \in LayoutRecords /\ l.decoder \in LayoutRecords
      /\ l.encoder.streams = l.decoder.streams
      /\ l.encoder.coupled = l.decoder.coupled

\* An Opus encoder writes packets that can be read, of the duration they say.
ASSUME PacketsAssumption ==
    \A p \in StreamPackets :
      /\ p.bytes \in Bytes /\ Duration(p.bytes) = {p.units}
      /\ \E q \in Parse(p.bytes, FALSE) : q.frames = p.frames

ASSUME ForeignAssumption == Foreign \subseteq Bytes

ASSUME RoomsAssumption == Rooms \subseteq Nat

VARIABLES
    layouts,    \* of the two sides; streams = 0 before they are created
    encoder,    \* a call of the encoder, see IdleEncoder
    clocks,     \* frames each stream's encoder has coded, by stream
    sent,       \* per stream of the last packet: its frames and channels
    channel,    \* the packet on its way, or <<>> (lost)
    decoder,    \* a call of the decoder, see IdleDecoder
    played,     \* units each stream's decoder has decoded, by stream
    pcm,        \* per output channel: the input channel heard, 0 silence
    calls,      \* calls of either side so far
    taken       \* history: the packet of the decoder's last call, and what the
                \* streams had played before it

vars == <<layouts, encoder, clocks, sent, channel, decoder, played, pcm, calls, taken>>

IdleEncoder == [stream |-> None, size |-> 0, units |-> 0, written |-> <<>>, error |-> "none"]
IdleDecoder == [stream |-> None, rest |-> <<>>, units |-> 0, lost |-> FALSE,
                frames |-> <<>>, error |-> "none"]

EncLayout == layouts.encoder
DecLayout == layouts.decoder

Streams == 0..(EncLayout.streams - 1)
SelfDelimited(stream) == stream + 1 # EncLayout.streams
SmallestPacket == 2 * EncLayout.streams - 1

Untouched == -1

Init ==
    /\ layouts = [encoder |-> NoLayout, decoder |-> NoLayout]
    /\ encoder = IdleEncoder /\ decoder = IdleDecoder
    /\ clocks = <<>> /\ sent = <<>> /\ channel = <<>>
    /\ played = <<>> /\ pcm = <<>>
    /\ calls = [encoder |-> 0, decoder |-> 0]
    /\ taken = [packet |-> <<>>, before |-> <<>>]

\* opus_multistream_encoder_create and opus_multistream_decoder_create; a layout
\* that is not valid is refused.
Create(l) ==
    /\ EncLayout = NoLayout
    /\ ValidEncoderLayout(l.encoder) /\ ValidLayout(l.decoder)
    /\ layouts' = l
    /\ clocks' = [stream \in 0..(l.encoder.streams - 1) |-> 0]
    /\ played' = [stream \in 0..(l.decoder.streams - 1) |-> 0]
    /\ taken' = [packet |-> <<>>, before |-> played']
    /\ pcm' = [c \in 1..l.decoder.channels |-> Untouched]
    /\ UNCHANGED <<encoder, sent, channel, decoder, calls>>

-------------------------------------------------------------------------------
(***************************************************************************)
(* The encoder.                                                            *)
(***************************************************************************)
Idle == EncLayout # NoLayout /\ encoder.stream = None /\ decoder.stream = None

CallEncoder(size, units) ==
    /\ Idle /\ calls.encoder < Calls
    /\ calls' = [calls EXCEPT !.encoder = @ + 1]
    /\ sent' = <<>> /\ channel' = <<>>
    /\ encoder' = IF size < SmallestPacket THEN [IdleEncoder EXCEPT !.error = "small"]
                  ELSE [IdleEncoder EXCEPT !.stream = 0, !.size = size, !.units = units]
    /\ decoder' = IdleDecoder
    /\ taken' = [packet |-> <<>>, before |-> played]
    /\ UNCHANGED <<layouts, clocks, played, pcm>>

\* The buffer of a stream: what is left when the streams after it have their
\* least, less the bytes of a self-delimiting size.
Reserved(stream) == LET after == EncLayout.streams - stream - 1
                    IN  IF after = 0 THEN 0 ELSE 2 * after - 1

Overhead(stream) == IF SelfDelimited(stream) THEN 2 ELSE 0

Available(stream) == encoder.size - Len(encoder.written) - Reserved(stream)
HasRoom(stream) == Available(stream) > Overhead(stream) + 1
Room(stream) == Available(stream) - Overhead(stream)

\* Mutant: the size counts the TOC byte.
WrittenPacketCounted(packet, selfDelimited) ==
    IF selfDelimited THEN <<Head(packet)>> \o EncodeSize(Len(packet)) \o Tail(packet)
    ELSE packet

\* write_stream_packet: the size of all that stands behind the TOC byte.
WrittenPacket(packet, selfDelimited) ==
    IF selfDelimited THEN <<Head(packet)>> \o EncodeSize(Len(packet) - 1) \o Tail(packet)
    ELSE packet

EncoderFails(error) ==
    /\ encoder' = [IdleEncoder EXCEPT !.error = error]
    /\ sent' = <<>> /\ channel' = <<>>
    /\ UNCHANGED <<layouts, decoder, played, pcm, calls, taken>>

\* The channels of the input a stream codes: the first of each slot.
Coded(l, stream) ==
    [n \in DOMAIN SlotsOf(l, stream) |->
       CHOOSE c \in ChannelsAt(l, SlotsOf(l, stream)[n]) :
         \A d \in ChannelsAt(l, SlotsOf(l, stream)[n]) : c <= d]

HasChannels(stream) ==
    \A n \in DOMAIN SlotsOf(EncLayout, stream) :
      ChannelsAt(EncLayout, SlotsOf(EncLayout, stream)[n]) # {}

Encoding(stream) == stream # None /\ stream < EncLayout.streams

\* There is no room for the next stream.
RefuseStream ==
    /\ Encoding(encoder.stream) /\ ~HasRoom(encoder.stream)
    /\ EncoderFails("room")
    /\ UNCHANGED clocks

\* The stream's encoder finds its buffer too small.
FailStream ==
    /\ Encoding(encoder.stream) /\ HasRoom(encoder.stream)
    /\ EncoderFails("encoder")
    /\ UNCHANGED clocks

EncodeStream(p) ==
    LET stream  == encoder.stream
        packet  == WrittenPacket(p.bytes, SelfDelimited(stream))
    IN  /\ Encoding(stream) /\ HasRoom(stream)
        /\ p.units = encoder.units /\ Len(p.bytes) <= Room(stream)
        /\ IF ~HasChannels(stream)
           THEN EncoderFails("channel") /\ UNCHANGED clocks
           ELSE /\ clocks' = [clocks EXCEPT ![stream] = @ + 1]
                /\ IF Len(packet) > encoder.size - Len(encoder.written)
                   THEN EncoderFails("unwritten")
                   ELSE /\ encoder' = [encoder EXCEPT !.stream = @ + 1, !.written = @ \o packet]
                        /\ sent' = Append(sent, [frames |-> p.frames, units |-> p.units,
                                                 channels |-> Coded(EncLayout, stream)])
                        /\ UNCHANGED <<layouts, channel, decoder, played, pcm, calls, taken>>

ReturnPacket ==
    /\ encoder.stream = EncLayout.streams /\ EncLayout # NoLayout
    /\ channel' = encoder.written
    /\ encoder' = IdleEncoder
    /\ UNCHANGED <<layouts, clocks, sent, decoder, played, pcm, calls, taken>>

-------------------------------------------------------------------------------
(***************************************************************************)
(* The decoder.                                                            *)
(***************************************************************************)
\* What lies behind the first n streams of a packet, as a set: empty if they
\* cannot be read.
Behind(packet, n) ==
    LET rest[k \in 0..n] ==
            IF k = 0 THEN {packet}
            ELSE UNION {{SubSeq(r, q.length + 1, Len(r)) :
                           q \in Parse(r, SelfDelimited(k - 1))} : r \in rest[k - 1]}
    IN  rest[n]

\* The durations of the streams.
StreamUnits(packet, stream) ==
    UNION {UNION {Duration(SubSeq(r, 1, q.length)) : q \in Parse(r, SelfDelimited(stream))} :
             r \in Behind(packet, stream)}

\* Mutant: only the first stream's duration is looked at.
ValidatedFirst(packet) ==
    IF Behind(packet, EncLayout.streams) = {} THEN {} ELSE StreamUnits(packet, 0)

\* opus_multistream_packet_validate: the duration all streams have, as a set.
Validated(packet) ==
    {d \in StreamUnits(packet, 0) : \A stream \in Streams : StreamUnits(packet, stream) = {d}}

DecoderFails(error) ==
    /\ decoder' = [IdleDecoder EXCEPT !.error = error]
    /\ UNCHANGED <<played, pcm>>

\* The call up to the first stream: of a packet, or of none, with `units' as the
\* duration there is room for.
CallDecoder(packet, units) ==
    /\ Idle /\ calls.decoder < Calls
    /\ calls' = [calls EXCEPT !.decoder = @ + 1]
    /\ taken' = [packet |-> packet, before |-> played]
    /\ UNCHANGED <<layouts, encoder, clocks, sent, channel>>
    /\ pcm' = [c \in DOMAIN pcm |-> Untouched]
    /\ UNCHANGED played
    /\ decoder' =
         CASE packet = <<>> ->
                [IdleDecoder EXCEPT !.stream = 0, !.units = units, !.lost = TRUE]
           [] packet # <<>> /\ Len(packet) < SmallestPacket ->
                [IdleDecoder EXCEPT !.error = "invalid"]
           [] packet # <<>> /\ Len(packet) >= SmallestPacket /\ Validated(packet) = {} ->
                [IdleDecoder EXCEPT !.error = "invalid"]
           [] packet # <<>> /\ Len(packet) >= SmallestPacket
                /\ \E d \in Validated(packet) : d > units ->
                [IdleDecoder EXCEPT !.error = "room"]
           [] OTHER ->
                [IdleDecoder EXCEPT !.stream = 0, !.units = units, !.rest = packet]

\* Mutant: a channel takes the slot of its number.
CopiedByNumber(l, stream, coded, out) ==
    [c \in DOMAIN out |->
       IF \E n \in DOMAIN coded : SlotsOf(l, stream)[n] = c - 1
       THEN coded[CHOOSE n \in DOMAIN coded : SlotsOf(l, stream)[n] = c - 1]
       ELSE out[c]]

\* A stream's channels are copied to all channels of their slots.
Copied(l, stream, coded, out) ==
    [c \in DOMAIN out |->
       IF \E n \in DOMAIN coded : c \in ChannelsAt(l, SlotsOf(l, stream)[n])
       THEN coded[CHOOSE n \in DOMAIN coded : c \in ChannelsAt(l, SlotsOf(l, stream)[n])]
       ELSE out[c]]

\* What the stream's decoder gives for each channel it has: what it was sent, or
\* went on to conceal.
Heard(stream) ==
    IF stream < Len(sent) THEN sent[stream + 1].channels
    ELSE [n \in DOMAIN SlotsOf(DecLayout, stream) |-> 0]

Decoding == decoder.stream # None /\ decoder.stream < DecLayout.streams

\* Durations that a decoder of some history does not conceal: what is left when it
\* has cut them into frames is none of CELT's, or comes back shorter than asked for.
HardToConceal(units) == units % 4 = 3 \/ (units > 8 /\ units % 8 \in 5..7)

\* What the stream's encoder wrote has arrived.
Intact(stream, q, d) ==
    /\ stream < Len(sent)
    /\ q.frames = sent[stream + 1].frames /\ d = sent[stream + 1].units

\* What the stream's decoder may have played when it fails, as a set: of a loss whole
\* chunks of 10 ms, of bytes that its encoder has not written whole frames.
PlayedAtFailure(stream) ==
    {part \in 0..(decoder.units - 1) :
       IF decoder.lost THEN HardToConceal(decoder.units) /\ part % 4 = 0
       ELSE \E q \in Parse(decoder.rest, SelfDelimited(stream)) :
            \E d \in Duration(SubSeq(decoder.rest, 1, q.length)) :
              /\ d <= decoder.units /\ ~Intact(stream, q, d)
              /\ \E k \in 0..(Len(q.frames) - 1) : part = k * (d \div Len(q.frames))}

\* One stream is decoded or concealed; the units decoded are the most the next
\* stream may have.  If its decoder fails, the call does, wherever it is: the streams
\* before have played theirs, this one may have played a part, the others nothing.
DecodeStream ==
    LET stream == decoder.stream
    IN  /\ Decoding
        /\ UNCHANGED <<layouts, encoder, clocks, sent, channel, calls, taken>>
        /\ \/ /\ decoder.lost
              /\ played' = [played EXCEPT ![stream] = @ + decoder.units]
              /\ decoder' = [decoder EXCEPT !.stream = @ + 1]
              /\ pcm' = Copied(DecLayout, stream, Heard(stream), pcm)
           \/ /\ ~decoder.lost
              /\ \E q \in Parse(decoder.rest, SelfDelimited(stream)) :
                 \E d \in Duration(SubSeq(decoder.rest, 1, q.length)) :
                   IF d > decoder.units THEN DecoderFails("late")
                   ELSE /\ played' = [played EXCEPT ![stream] = @ + d]
                        /\ decoder' = [decoder EXCEPT !.stream = @ + 1, !.units = d,
                                         !.rest = SubSeq(@, q.length + 1, Len(@)),
                                         !.frames = Append(@, q.frames)]
                        /\ pcm' = Copied(DecLayout, stream, Heard(stream), pcm)
           \/ /\ \E part \in PlayedAtFailure(stream) :
                   played' = [played EXCEPT ![stream] = @ + part]
              /\ decoder' = [IdleDecoder EXCEPT !.error = "decoder"]
              /\ UNCHANGED pcm

Silenced(l, out) == [c \in DOMAIN out |-> IF l.mapping[c] = Muted THEN 0 ELSE out[c]]

ReturnSound ==
    /\ decoder.stream = DecLayout.streams /\ DecLayout # NoLayout
    /\ pcm' = Silenced(DecLayout, pcm)
    /\ decoder' = [decoder EXCEPT !.stream = None]
    /\ UNCHANGED <<layouts, encoder, clocks, sent, channel, played, calls, taken>>

\* The decoder is called with the packet, with a part of it, or with none.
Receive(units) ==
    \/ channel # <<>> /\ CallDecoder(channel, units)
    \/ CallDecoder(<<>>, units)

ReceiveForeign(packet, units) == CallDecoder(packet, units)

ReceiveCut(n, units) ==
    n \in 1..(Len(channel) - 1) /\ CallDecoder(SubSeq(channel, 1, n), units)

Next ==
    \/ \E l \in Layouts : Create(l)
    \/ \E size \in Buffers, units \in FrameUnitsAsked : CallEncoder(size, units)
    \/ RefuseStream \/ FailStream
    \/ \E p \in StreamPackets : EncodeStream(p)
    \/ ReturnPacket
    \/ \E units \in Rooms : Receive(units)
    \/ \E units \in Rooms : \E n \in Cuts : ReceiveCut(n, units)
    \/ \E packet \in Foreign, units \in Rooms : ReceiveForeign(packet, units)
    \/ DecodeStream \/ ReturnSound

Spec == Init /\ [][Next]_vars

-------------------------------------------------------------------------------
(***************************************************************************)
(* Correctness.                                                            *)
(***************************************************************************)
Returned == decoder.stream = None /\ decoder.units # 0

TypeOK ==
    /\ EncLayout = NoLayout \/ ValidEncoderLayout(EncLayout)
    /\ encoder.stream \in {None} \cup 0..EncLayout.streams
    /\ decoder.stream \in {None} \cup 0..DecLayout.streams
    /\ encoder.written \in Bytes /\ channel \in Bytes /\ decoder.rest \in Bytes
    /\ DOMAIN clocks = Streams /\ DOMAIN played = Streams /\ DOMAIN taken.before = Streams
    /\ Len(sent) <= EncLayout.streams
    /\ calls \in [encoder : 0..Calls, decoder : 0..Calls]

\* The packet the encoder returns gives each stream's decoder the frames of that
\* stream's encoder, at the positions the decoder looks for them, and is as long
\* as the encoder says.
StreamsArrive ==
    channel # <<>> =>
      /\ Validated(channel) = {sent[1].units}
      /\ Behind(channel, EncLayout.streams) = {<<>>}
      /\ \A stream \in Streams : \A r \in Behind(channel, stream) :
           \A q \in Parse(r, SelfDelimited(stream)) : q.frames = sent[stream + 1].frames

\* A call of the decoder moves all streams by the same time, whatever was lost, cut or
\* replaced: a packet that is refused is refused before the first stream's decoder
\* moves.  Only when a stream's own decoder fails does the call stop halfway; then the
\* streams before it are one packet ahead of it and of those behind it, which have not
\* moved.
Moved(stream) == played[stream] - taken.before[stream]

StoppedAt(stream) ==
    /\ Moved(stream) >= 0
    /\ \A a \in Streams : a < stream => Moved(a) > Moved(stream)
    /\ \A a, b \in Streams : a < stream /\ b < stream => Moved(a) = Moved(b)
    /\ \A a \in Streams : a > stream => Moved(a) = 0

StreamsInStep ==
    decoder.stream = None =>
      IF decoder.error = "decoder" THEN \E stream \in Streams : StoppedAt(stream)
      ELSE \A a, b \in Streams : Moved(a) = Moved(b)

\* When a call returns each channel has been written: the input channel that
\* shares its slot, or silence if it is muted.
ChannelsInPlace ==
    Returned /\ Len(sent) = EncLayout.streams =>
      \A c \in DOMAIN pcm :
        IF DecLayout.mapping[c] = Muted THEN pcm[c] = 0
        ELSE /\ pcm[c] \in 1..EncLayout.channels
             /\ EncLayout.mapping[pcm[c]] = DecLayout.mapping[c]

===============================================================================
