--------------------------- MODULE MultistreamPadding ---------------------------
(***************************************************************************)
(* Padding and stripping a multistream packet (repacketizer.rs): one       *)
(* packet per stream, all but the last self-delimited, in one buffer.      *)
(* Stripping works in place: one step of the model is one turn of its loop,*)
(* which reads the packet of a stream at `offset' and writes it, without   *)
(* padding, at `dst' of the same buffer.                                   *)
(*                                                                         *)
(* Beside the code's state the model keeps what the buffer holds: `given', *)
(* the buffer when the call began, `carried', the frames of each stream,   *)
(* and `bare', what it was stripped to before.                             *)
(***************************************************************************)
EXTENDS Repacketizer

CONSTANTS
    NbStreams,   \* streams in a packet
    Received,    \* records [bytes, streams]: packets, the frames of each stream
    Lengths(_)   \* the lengths a packet of some length is padded to (a bound)

NbStreamsAssumption == NbStreams \in Nat \ {0}

VARIABLES data, loop, given, carried, bare

vars == <<data, loop, given, carried, bare>>

Idle == [stream |-> 0, offset |-> 0, remaining |-> 0, dst |-> 0]

Init ==
    /\ data = <<>> /\ loop = Idle
    /\ given = <<>> /\ carried = <<>> /\ bare = <<>>

\* A call that fails may leave the buffer half written: it is dropped.
Fail ==
    /\ data' = <<>> /\ loop' = Idle
    /\ given' = <<>> /\ carried' = <<>> /\ bare' = <<>>

SelfDelimits(stream) == stream # NbStreams

\* The packets behind the first n, or none if one of the n is no packet.
Behind(bytes, n) ==
    LET rest[k \in 0..n] ==
            IF k = 0 THEN bytes
            ELSE FlattenSeq(SetToSeq({SubSeq(rest[k - 1], q.length + 1, Len(rest[k - 1])) :
                                        q \in Parse(rest[k - 1], TRUE)}))
    IN  rest[n]

-------------------------------------------------------------------------------
Receive(r) ==
    /\ loop = Idle
    /\ data' = r.bytes /\ carried' = r.streams
    /\ loop' = Idle /\ given' = <<>> /\ bare' = <<>>

\* opus_multistream_packet_pad: the last packet is padded.  A length that is not
\* greater is refused, or is no change, at once.
CallPad(newLen) ==
    /\ loop = Idle /\ data # <<>> /\ newLen > Len(data)
    /\ \E rest \in {Behind(data, NbStreams - 1)} :
       \E o \in Pad(rest, Len(rest) + (newLen - Len(data))) :
         IF o.error # "none" THEN Fail
         ELSE /\ data' = SubSeq(data, 1, Len(data) - Len(rest)) \o o.bytes
              /\ UNCHANGED <<loop, given, carried, bare>>

\* opus_multistream_packet_unpad.
CallUnpad ==
    /\ loop = Idle /\ data # <<>>
    /\ loop' = [Idle EXCEPT !.stream = 1, !.remaining = Len(data)]
    /\ given' = data
    /\ UNCHANGED <<data, carried, bare>>

\* The buffer after bytes were written at dst.
Written(buffer, dst, bytes) ==
    [n \in DOMAIN buffer |->
       IF n \in (dst + 1)..(dst + Len(bytes)) THEN bytes[n - dst] ELSE buffer[n]]

\* Mutant: writing goes on by what was read.
AdvancedByRead(l, q, bytes) ==
    [stream |-> l.stream + 1, offset |-> l.offset + q.length,
     remaining |-> l.remaining - q.length, dst |-> l.dst + q.length]

\* The turn of the loop that has read q of the stream's packet and stripped it to
\* `bytes'.
Advanced(l, q, bytes) ==
    [stream |-> l.stream + 1, offset |-> l.offset + q.length,
     remaining |-> l.remaining - q.length, dst |-> l.dst + Len(bytes)]

UnpadStream ==
    LET selfDelimited == SelfDelimits(loop.stream)
        packet == SubSeq(data, loop.offset + 1, loop.offset + loop.remaining)
    IN  /\ loop.stream \in 1..NbStreams
        /\ UNCHANGED <<given, carried, bare>>
        /\ \E q \in Parse(packet, selfDelimited) :
           \E o \in UnpadInto(SubSeq(packet, 1, q.length), Len(data) - loop.dst,
                              selfDelimited) :
             /\ o.error = "none"
             /\ data' = Written(data, loop.dst, o.bytes)
             /\ loop' = Advanced(loop, q, o.bytes)

UnpadFails ==
    LET selfDelimited == SelfDelimits(loop.stream)
        packet == SubSeq(data, loop.offset + 1, loop.offset + loop.remaining)
    IN  /\ loop.stream \in 1..NbStreams
        /\ \A q \in Parse(packet, selfDelimited) :
           \E o \in UnpadInto(SubSeq(packet, 1, q.length), Len(data) - loop.dst,
                              selfDelimited) : o.error # "none"
        /\ Fail

\* Returns the length of what was written.
UnpadReturns ==
    /\ loop.stream = NbStreams + 1
    /\ data' = SubSeq(data, 1, loop.dst)
    /\ bare' = data'
    /\ loop' = Idle /\ given' = <<>>
    /\ UNCHANGED carried

Next ==
    \/ \E r \in Received : Receive(r)
    \/ \E newLen \in Lengths(Len(data)) : CallPad(newLen)
    \/ CallUnpad \/ UnpadStream \/ UnpadFails \/ UnpadReturns

Spec == Init /\ [][Next]_vars

-------------------------------------------------------------------------------
(***************************************************************************)
(* Correctness.                                                            *)
(***************************************************************************)
TypeOK ==
    /\ data \in Bytes /\ given \in Bytes /\ bare \in Bytes
    /\ loop \in [stream : 0..(NbStreams + 1), offset : Nat, remaining : Nat, dst : Nat]
    /\ \A s \in DOMAIN carried : carried[s] \in Seq(Bytes)

\* Stripping in place never writes over bytes it has still to read: what is
\* written stays behind what is read, and the rest is as it was given.
InPlace ==
    loop # Idle =>
      /\ loop.dst <= loop.offset
      /\ loop.offset + loop.remaining = Len(data)
      /\ SubSeq(data, loop.offset + 1, Len(data))
           = SubSeq(given, loop.offset + 1, Len(given))

\* Between calls the buffer holds one packet for each stream, with the frames the
\* stream was given, whatever was padded and stripped before, and without padding
\* when it is stripped.
StreamPacket(n) == Parse(Behind(data, n - 1), SelfDelimits(n))

CarriesTheStreams ==
    loop = Idle /\ carried # <<>> =>
      \A n \in 1..NbStreams :
        /\ StreamPacket(n) # {}
        /\ \A q \in StreamPacket(n) :
             /\ q.frames = carried[n]
             /\ n = NbStreams => q.length = Len(Behind(data, n - 1))
             /\ data = bare => q.padding = <<>>

\* A good packet can always be stripped, and padded to any greater length.
GoodPacketsKeep == [][carried # <<>> => data' # <<>>]_vars

\* Stripping gives the same bytes however the packet was padded since it was
\* stripped before.
StripsTheSame == [][UnpadReturns => bare \in {<<>>, data'}]_vars
===============================================================================
