----------------------------- MODULE MCMultistream -----------------------------
(***************************************************************************)
(* Multistream: an encoder and a decoder and the packets between them      *)
(* (Multistream), how the encoder shares its rate (StreamRates), and       *)
(* padding and stripping its packets (MultistreamPadding).  `part' says    *)
(* which of them a behaviour is about; the variables of the others stay as *)
(* they are.                                                               *)
(***************************************************************************)
EXTENDS Multistream

CONSTANT Parts    \* the parts a run is about

VARIABLES
    part,                               \* "streams", "rates" or "padding"
    data, loop, given, carried, bare    \* of MultistreamPadding

padVars == <<data, loop, given, carried, bare>>

-------------------------------------------------------------------------------
(***************************************************************************)
(* Multistream with MaxByte = 7, so that sizes from 4 bytes take two.      *)
(* Three streams of which the first is stereo, channels in another order   *)
(* than the slots, heard twice or muted at the decoder; and layouts that   *)
(* are refused.                                                            *)
(***************************************************************************)
Surround == Layout(4, 3, 1, <<2, 0, 1, 3>>)
Downmix == Layout(5, 3, 1, <<3, 255, 0, 3, 2>>)
NoRight == Layout(4, 3, 1, <<2, 0, 0, 3>>)
TooMany == Layout(4, 3, 1, <<2, 0, 1, 4>>)

MCLayouts ==
    {[encoder |-> Surround, decoder |-> Surround],
     [encoder |-> Surround, decoder |-> Downmix],
     [encoder |-> NoRight, decoder |-> Surround],
     [encoder |-> Surround, decoder |-> TooMany]}

\* A packet of one frame of n bytes: 5 and 10 ms of CELT.
OneFrame(toc, units, n, byte) ==
    [bytes |-> <<toc>> \o [k \in 1..n |-> byte], frames |-> <<[k \in 1..n |-> byte]>>,
     units |-> units]

\* Packets without bytes, of one, with the longest size of one byte and with
\* sizes of two bytes.
MCPackets ==
    {OneFrame(168, 2, n, 10 + n) : n \in {0, 1, 3, 4}}
      \cup {OneFrame(176, 4, n, 20 + n) : n \in {1, 4}}

MCBuffers == {4, 5, 9, 12, 25}

\* What an encoder writes for a longer frame or at a constant bit rate: two frames
\* of a size, two of different sizes, three, and one with padding.
MCFramed ==
    MCPackets \cup
    {[bytes |-> <<169, 31, 32>>, frames |-> <<<<31>>, <<32>>>>, units |-> 4],
     [bytes |-> <<170, 1, 33, 34, 35>>, frames |-> <<<<33>>, <<34, 35>>>>, units |-> 4],
     [bytes |-> <<171, 65, 1, 36, 0>>, frames |-> <<<<36>>>>, units |-> 2]}

\* Streams of different durations, one that is longer than 120 ms, bytes behind
\* the last stream's frames, too few streams.
MCForeign == {
    <<168, 1, 7, 176, 1, 8, 168, 9>>,
    <<168, 1, 7, 168, 1, 8, 176, 9>>,
    <<187, 7, 1, 7, 7, 7, 7, 7, 7, 7, 187, 7, 0, 176, 9>>,
    <<176, 1, 7, 169, 1, 8, 8, 171, 2, 5, 6>>,
    <<168, 1, 7, 168>>}

NoForeign == {}

PlainLayouts == {[encoder |-> Surround, decoder |-> Surround]}

LargeBuffers == {40}

-------------------------------------------------------------------------------
(***************************************************************************)
(* StreamRates: every layout of at most eight channels that a mapping      *)
(* family has and some it refuses, ambisonics with and without the two     *)
(* channels beside the sound field, as many independent channels as a      *)
(* layout may have.                                                        *)
(***************************************************************************)
MCRequests ==
    [channels : 0..9, family : {0, 1, 255}]
      \cup [channels : {1, 3, 4, 5, 6, 9, 11, 16, 18, 225, 227, 228}, family : {2}]
      \cup [channels : {2}, family : {3}]

MCFrameSizes == {120, 240, 480, 960, 1920}

MCBitrates ==
    {OpusAuto, MaxRate, 1, 700, 3000, 12345, 33333, 64000, 96001, 127999, 200003,
     256000, 384007, 510000, 777777, 1500000, 2400000, 4000000}

-------------------------------------------------------------------------------
(***************************************************************************)
(* MultistreamPadding with three streams.  The first two streams take      *)
(* every form of self-delimited packet: each code, sizes of one and two    *)
(* bytes, sizes written though they are equal, paddings of one and of two  *)
(* length bytes.                                                           *)
(***************************************************************************)
DelimitedPackets == {
    [bytes |-> <<16, 2, 40, 41>>, frames |-> <<<<40, 41>>>>],
    [bytes |-> <<17, 1, 42, 43>>, frames |-> <<<<42>>, <<43>>>>],
    [bytes |-> <<18, 4, 0, 1, 44, 44, 44, 45, 46>>, frames |-> <<<<44, 44, 44, 45>>, <<46>>>>],
    [bytes |-> <<19, 65, 2, 0, 0, 0>>, frames |-> <<<<>>>>],
    [bytes |-> <<19, 195, 7, 1, 1, 1, 1, 47, 48, 49, 0, 0, 0, 0, 0, 0, 0>>,
     frames |-> <<<<47>>, <<48>>, <<49>>>>]}

LastPackets == {
    [bytes |-> <<16, 50>>, frames |-> <<<<50>>>>],
    [bytes |-> <<18, 1, 51, 52, 53>>, frames |-> <<<<51>>, <<52, 53>>>>],
    [bytes |-> <<19, 66, 3, 54, 55, 6, 2, 8>>, frames |-> <<<<54>>, <<55>>>>]}

Padded ==
    {[bytes |-> a.bytes \o b.bytes \o c.bytes,
      streams |-> <<a.frames, b.frames, c.frames>>] :
        a, b \in DelimitedPackets, c \in LastPackets}
    \cup {[bytes |-> bytes, streams |-> <<>>] :
            bytes \in {<<16, 2, 40, 41, 16, 2, 40, 41>>,
                       <<17, 1, 42, 43, 16, 3, 40, 41>>,
                       <<19, 65, 2, 0, 0, 0, 16, 1, 40, 17, 1, 1, 1>>}}

PaddedLengths(n) == {l \in {n + 1, n + 9} : l <= 40} \cup {52}

Padding == INSTANCE MultistreamPadding WITH
             LongId <- 5, MaxId <- 6, NbStreams <- 3,
             Received <- Padded, Lengths <- PaddedLengths

ASSUME Padding!NbStreamsAssumption

-------------------------------------------------------------------------------
MCInit == Init /\ RatesInit /\ Padding!Init /\ part \in Parts

MCNext ==
    \/ part = "streams" /\ Next /\ UNCHANGED <<part, ratesVars, padVars>>
    \/ part = "rates" /\ RatesNext /\ UNCHANGED <<part, vars, padVars>>
    \/ part = "padding" /\ Padding!Next /\ UNCHANGED <<part, vars, ratesVars>>

MCSpec == MCInit /\ [][MCNext]_<<part, vars, ratesVars, padVars>>

\* repacketizer.rs: stripping in place never writes over bytes it has still to
\* read, and between calls the buffer holds one packet for each stream with the
\* frames the stream was given, whatever was padded and stripped before.
CarriesTheStreams ==
    /\ [](part = "padding" => Padding!TypeOK /\ Padding!InPlace /\ Padding!CarriesTheStreams)
    /\ Padding!GoodPacketsKeep /\ Padding!StripsTheSame

\* opus_multistream.rs: the streams of every layout on offer are complete, and share
\* all of the rate that is asked for and no more, those of a kind alike.
RateIsShared ==
    part = "rates" => RatesTypeOK /\ LayoutsComplete /\ SharesAddUp /\ FairlyShared
===============================================================================
