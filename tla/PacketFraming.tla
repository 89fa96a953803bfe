----------------------------- MODULE PacketFraming -----------------------------
(***************************************************************************)
(* How an Opus packet delimits its frames (packet.rs): the four codes of   *)
(* the TOC byte, sizes of one or two bytes, padding, and the self-         *)
(* delimited form the streams of a multistream packet but the last use.    *)
(*                                                                         *)
(* A packet is the sequence of its bytes.  A reading returns a set: of the *)
(* one result, or empty if the packet is refused.  Durations are in units  *)
(* of 2.5 ms.                                                              *)
(***************************************************************************)
EXTENDS Integers, Sequences, SequencesExt

CONSTANT MaxByte    \* the largest byte (255), which continues a padding length

ASSUME MaxByteAssumption ==
    /\ MaxByte \in Nat /\ MaxByte >= 3
    /\ (MaxByte + 1) % 4 = 0

Escape == MaxByte - 3            \* the first size byte with a second (252)
MaxFrameBytes == 5 * MaxByte     \* the largest size (1275)
MaxUnits == 48                   \* 120 ms, and as many frames of 2.5 ms

Bytes == Seq(Nat)

-------------------------------------------------------------------------------
Code(toc) == toc % 4

\* opus_packet_get_samples_per_frame
FrameUnits(toc) ==
    LET size == (toc \div 8) % 4
    IN  CASE toc >= 128                    -> 2 ^ size
          [] toc < 128 /\ toc % 128 >= 96  -> IF size % 2 = 1 THEN 8 ELSE 4
          [] toc < 96                      -> IF size = 3 THEN 24 ELSE 4 * 2 ^ size

\* opus_packet_get_mode, opus_packet_get_bandwidth (1 narrow to 5 full) and
\* opus_packet_get_nb_channels
ModeOf(toc) == CASE toc >= 128                   -> "celt"
                 [] toc < 128 /\ toc % 128 >= 96 -> "hybrid"
                 [] OTHER                        -> "silk"

BandwidthOf(toc) ==
    CASE ModeOf(toc) = "celt"   -> <<1, 3, 4, 5>>[((toc \div 32) % 4) + 1]
      [] ModeOf(toc) = "hybrid" -> 4 + ((toc \div 16) % 2)
      [] OTHER                  -> ((toc \div 32) % 4) + 1

ChannelsOf(toc) == 1 + ((toc \div 4) % 2)

\* opus_packet_get_nb_frames
FrameCount(packet) ==
    CASE packet = <<>>                                  -> {}
      [] packet # <<>> /\ Code(Head(packet)) = 0        -> {1}
      [] packet # <<>> /\ Code(Head(packet)) \in {1, 2} -> {2}
      [] packet # <<>> /\ Code(Head(packet)) = 3        ->
           IF Len(packet) < 2 THEN {} ELSE {packet[2] % 64}

\* opus_packet_get_nb_samples
Duration(packet) ==
    {d \in {n * FrameUnits(Head(packet)) : n \in FrameCount(packet)} : d <= MaxUnits}

-------------------------------------------------------------------------------

(***************************************************************************)
(* A size: encode_size and parse_size.                                     *)
(***************************************************************************)
EncodeSize(size) ==
    IF size < Escape THEN <<size>>
    ELSE LET first == Escape + (size % 4)
         IN  <<first, (size - first) \div 4>>

\* parse_size at the position `at' (from 0).
SizeAt(packet, at) ==
    CASE at < Len(packet) /\ packet[at + 1] < Escape ->
           {[bytes |-> 1, size |-> packet[at + 1]]}
      [] at + 1 < Len(packet) /\ packet[at + 1] >= Escape ->
           {[bytes |-> 2, size |-> 4 * packet[at + 2] + packet[at + 1]]}
      [] OTHER -> {}

-------------------------------------------------------------------------------
(***************************************************************************)
(* opus_packet_parse_impl.  A header h is read up to idx; of the `left'    *)
(* bytes that are neither read nor padding, `last' are for the last frame; *)
(* `sizes' are those of the frames before it, if they are known.           *)
(***************************************************************************)
TocRead(packet) ==
    [idx |-> 1, left |-> Len(packet) - 1, last |-> Len(packet) - 1,
     count |-> 1, cbr |-> FALSE, pad |-> 0, sizes |-> <<>>]

\* One size is read and its frame's bytes are put aside.  The code takes the
\* size bytes from `left' first, which passes zero if they lie in the padding;
\* what it checks next refuses the packet then.
NextSize(packet, h) ==
    {[h EXCEPT !.idx = @ + s.bytes, !.left = @ - s.bytes,
               !.last = @ - s.bytes - s.size, !.sizes = Append(@, s.size)] :
        s \in {t \in SizeAt(packet, h.idx) : t.bytes + t.size <= h.last}}

\* The bytes left are shared equally.
Shared(h) ==
    IF h.left % h.count # 0 THEN {}
    ELSE {[h EXCEPT !.last = h.left \div h.count,
                    !.sizes = [n \in 1..(h.count - 1) |-> h.left \div h.count]]}

CountRead(packet, h) ==
    IF Len(packet) < 2 THEN {}
    ELSE {[h EXCEPT !.idx = @ + 1, !.left = @ - 1, !.last = @ - 1,
                    !.count = packet[2] % 64, !.cbr = packet[2] < 128]}

ValidCount(toc, count) == count > 0 /\ count * FrameUnits(toc) <= MaxUnits

\* The padding's length is the sum of its bytes up to the first below MaxByte,
\* each MaxByte standing for one less.
PaddingRead(packet, h) ==
    LET full == SelectInSeq(SubSeq(packet, h.idx + 1, Len(packet)),
                            LAMBDA b : b # MaxByte) - 1
        pad  == full * (MaxByte - 1) + packet[h.idx + full + 1]
    IN  IF (packet[2] \div 64) % 2 = 0 THEN {h}
        ELSE IF full < 0 \/ full + 1 + pad > h.left THEN {}
        ELSE {[h EXCEPT !.idx = @ + full + 1, !.pad = pad,
                        !.left = @ - (full + 1 + pad),
                        !.last = h.left - (full + 1 + pad)]}

\* The sizes of all frames but the last, with variable bit rate.
SizesRead(packet, h) ==
    LET upTo[n \in 0..(h.count - 1)] ==
            IF n = 0 THEN {h} ELSE UNION {NextSize(packet, g) : g \in upTo[n - 1]}
    IN  upTo[h.count - 1]

Code3Read(packet, selfDelimited) ==
    LET counted == {h \in CountRead(packet, TocRead(packet)) :
                      ValidCount(Head(packet), h.count)}
        padded  == UNION {PaddingRead(packet, h) : h \in counted}
    IN  UNION {CASE ~h.cbr                  -> SizesRead(packet, h)
                 [] h.cbr /\ ~selfDelimited -> Shared(h)
                 [] h.cbr /\ selfDelimited  -> {h} : h \in padded}

HeaderRead(packet, selfDelimited) ==
    LET first == TocRead(packet)
        two   == [first EXCEPT !.count = 2]
        equal == [two EXCEPT !.cbr = TRUE]
    IN  CASE Code(Head(packet)) = 0 -> {first}
          [] Code(Head(packet)) = 1 -> IF selfDelimited THEN {equal} ELSE Shared(equal)
          [] Code(Head(packet)) = 2 -> NextSize(packet, two)
          [] Code(Head(packet)) = 3 -> Code3Read(packet, selfDelimited)

\* The size of the last frame: written in the self-delimited form, else what
\* is left.
LastSizeRead(packet, h) ==
    {[h EXCEPT !.idx = @ + s.bytes,
               !.sizes = IF h.cbr THEN [n \in 1..h.count |-> s.size]
                         ELSE Append(@, s.size)] :
        s \in {t \in SizeAt(packet, h.idx) :
                 IF h.cbr THEN t.bytes + t.size * h.count <= h.left
                 ELSE t.bytes + t.size <= h.last}}

LastSize(packet, h, selfDelimited) ==
    CASE selfDelimited -> LastSizeRead(packet, h)
      [] ~selfDelimited /\ h.last > MaxFrameBytes -> {}
      [] ~selfDelimited /\ h.last <= MaxFrameBytes ->
           {[h EXCEPT !.sizes = Append(@, h.last)]}

\* Where the first n frames end.
FrameEnd(h, n) ==
    LET end[k \in 0..n] == IF k = 0 THEN h.idx ELSE end[k - 1] + h.sizes[k]
    IN  end[n]

Cut(packet, h) ==
    LET end == FrameEnd(h, h.count)
    IN  IF end + h.pad > Len(packet) THEN {}
        ELSE {[toc |-> Head(packet),
               frames |-> [n \in 1..h.count |->
                             SubSeq(packet, FrameEnd(h, n - 1) + 1, FrameEnd(h, n))],
               padding |-> SubSeq(packet, end + 1, end + h.pad),
               length |-> end + h.pad]}

Parse(packet, selfDelimited) ==
    IF packet = <<>> THEN {}
    ELSE UNION {UNION {Cut(packet, g) : g \in LastSize(packet, h, selfDelimited)} :
                  h \in HeaderRead(packet, selfDelimited)}
===============================================================================
