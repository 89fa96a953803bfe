----------------------------- MODULE Repacketizer -----------------------------
(***************************************************************************)
(* OpusRepacketizer (repacketizer.rs) and the functions on packets built   *)
(* on it: frames of packets with one TOC are gathered, with the padding    *)
(* that holds their extensions, and written out as one packet, padded or   *)
(* not.  A repacketizer is the sequence of its frames; the padding of a    *)
(* packet stays with the first of them.                                    *)
(***************************************************************************)
EXTENDS PacketFraming

CONSTANTS LongId, MaxId    \* of the extensions

X == INSTANCE Extensions WITH Lace <- MaxByte

Entries == [data : Bytes, padding : Bytes, padFrames : Nat]
Repacketizers == [toc : Nat, units : Nat, frames : Seq(Entries)]

NewRepacketizer == [toc |-> 0, units |-> 0, frames |-> <<>>]

\* opus_repacketizer_init; the TOC is left as it is.
Reinit(rp) == [rp EXCEPT !.units = 0, !.frames = <<>>]

-------------------------------------------------------------------------------

(***************************************************************************)
(* cat_impl.  The TOC is taken from the first packet before the packet is  *)
(* known to be good.                                                       *)
(***************************************************************************)
WithToc(rp, packet) ==
    IF rp.frames # <<>> THEN rp
    ELSE [rp EXCEPT !.toc = Head(packet), !.units = FrameUnits(Head(packet))]

Fits(rp, packet) ==
    /\ rp.toc \div 4 = Head(packet) \div 4
    /\ \E n \in FrameCount(packet) : (Len(rp.frames) + n) * rp.units <= MaxUnits

EntriesOf(parsed) ==
    [n \in DOMAIN parsed.frames |->
       [data |-> parsed.frames[n],
        padding |-> IF n = 1 THEN parsed.padding ELSE <<>>,
        padFrames |-> IF n = 1 THEN Len(parsed.frames) ELSE 0]]

\* The repacketizer after a packet, and whether the packet was taken.
CatInto(rp, packet, selfDelimited) ==
    IF ~Fits(rp, packet) THEN {[rp |-> rp, ok |-> FALSE]}
    ELSE LET parsed == Parse(packet, selfDelimited)
         IN  {[rp |-> [rp EXCEPT !.frames = @ \o EntriesOf(q)], ok |-> TRUE] :
                q \in parsed}
             \cup {r \in {[rp |-> rp, ok |-> FALSE]} : parsed = {}}

Cat(rp, packet, selfDelimited) ==
    IF packet = <<>> THEN {[rp |-> rp, ok |-> FALSE]}
    ELSE CatInto(WithToc(rp, packet), packet, selfDelimited)

-------------------------------------------------------------------------------
(***************************************************************************)
(* opus_repacketizer_out_range_impl.                                       *)
(***************************************************************************)
Failed(error) == [error |-> error, bytes |-> <<>>]
Done(bytes) == [error |-> "none", bytes |-> bytes]

\* Mutant: the extensions keep the numbers of the frames they came with.
ExtensionsAtOldFrames(entry, n) ==
    {[ok |-> read.exts = <<>> \/ read.at = "none", exts |-> read.exts] :
        read \in {X!Reading[entry.padding, entry.padFrames]}}

\* The extensions in the padding of one entry, n frames into the output.  Padding
\* without a single extension is dropped, well formed or not.
ExtensionsAt(entry, n) ==
    {[ok |-> read.exts = <<>> \/ read.at = "none",
      exts |-> [i \in DOMAIN read.exts |->
                  [read.exts[i] EXCEPT !.frame = @ + n]]] :
        read \in {X!Reading[entry.padding, entry.padFrames]}}

Gather(frames, exts) ==
    LET upTo[n \in 0..Len(frames)] ==
            IF n = 0 THEN {[ok |-> TRUE, exts |-> exts]}
            ELSE UNION {{[ok |-> all.ok /\ own.ok, exts |-> all.exts \o own.exts] :
                           own \in ExtensionsAt(frames[n], n - 1)} :
                          all \in upTo[n - 1]}
    IN  upTo[Len(frames)]

SizesOf(frames) == [n \in DOMAIN frames |-> Len(frames[n].data)]
Payload(frames) == FlattenSeq([n \in DOMAIN frames |-> frames[n].data])
Delimiter(sizes, selfDelimited) ==
    IF selfDelimited THEN EncodeSize(Last(sizes)) ELSE <<>>

\* One or two frames without padding.
PlainHeader(toc, sizes, selfDelimited) ==
    (CASE Len(sizes) = 1                            -> <<4 * (toc \div 4)>>
       [] Len(sizes) = 2 /\ sizes[1] = sizes[2]     -> <<4 * (toc \div 4) + 1>>
       [] Len(sizes) = 2 /\ sizes[1] # sizes[2]     ->
            <<4 * (toc \div 4) + 2>> \o EncodeSize(sizes[1]))
    \o Delimiter(sizes, selfDelimited)

Variable(sizes) == \E n \in DOMAIN sizes : sizes[n] # sizes[1]

SizeBytes(sizes) ==
    IF Variable(sizes)
    THEN FlattenSeq([n \in 1..(Len(sizes) - 1) |-> EncodeSize(sizes[n])])
    ELSE <<>>

\* The length bytes of a padding of `amount' bytes, themselves included.
PaddingLength(amount) ==
    IF amount = 0 THEN <<>>
    ELSE LET full == (amount - 1) \div MaxByte
         IN  [n \in 1..full |-> MaxByte] \o <<amount - full * MaxByte - 1>>

\* Without pad, as many bytes as the extensions and their length bytes take.
PaddingAmount(extLen, spare, pad) ==
    CASE pad                   -> spare
      [] ~pad /\ extLen = 0    -> 0
      [] ~pad /\ extLen > 0    -> extLen + ((extLen + MaxByte - 2) \div (MaxByte - 1))

\* What fills the padding before the extensions.
Filling(size, extLen, pad) ==
    [n \in 1..size |-> IF pad /\ extLen = 0 THEN 0 ELSE 1]

Code3Header(toc, sizes, amount, selfDelimited) ==
    <<4 * (toc \div 4) + 3,
      Len(sizes) + (IF amount # 0 THEN 64 ELSE 0)
                 + (IF Variable(sizes) THEN 128 ELSE 0)>>
    \o PaddingLength(amount) \o SizeBytes(sizes) \o Delimiter(sizes, selfDelimited)

Code3Length(sizes, selfDelimited) ==
    2 + Len(SizeBytes(sizes)) + Len(Delimiter(sizes, selfDelimited))
      + FoldFunction(+, 0, sizes)

\* Mutant: a byte of room must be left over.
Code3LeavesRoom(head, payload, ext, amount, room, pad) ==
    IF head.bare + Len(ext) + Len(PaddingLength(amount)) >= room /\ amount # 0
    THEN Failed("BufferTooSmall")
    ELSE Done(head.bytes \o payload
              \o Filling(amount - Len(ext) - Len(PaddingLength(amount)), Len(ext), pad)
              \o ext)

Code3(head, payload, ext, amount, room, pad) ==
    IF head.bare + Len(ext) + Len(PaddingLength(amount)) > room /\ amount # 0
    THEN Failed("BufferTooSmall")
    ELSE Done(head.bytes \o payload
              \o Filling(amount - Len(ext) - Len(PaddingLength(amount)), Len(ext), pad)
              \o ext)

Code3Out(toc, frames, exts, maxLen, selfDelimited, pad) ==
    LET sizes == SizesOf(frames)
        bare  == Code3Length(sizes, selfDelimited)
    IN  IF bare > maxLen THEN {Failed("BufferTooSmall")}
        ELSE UNION {
               IF g.error # "none" THEN {Failed(g.error)}
               ELSE {Code3([bare |-> bare,
                            bytes |-> Code3Header(toc, sizes, amount, selfDelimited)],
                           Payload(frames), g.bytes, amount, maxLen, pad) :
                       amount \in {PaddingAmount(Len(g.bytes), maxLen - bare, pad)}} :
               g \in {X!Generate(exts, Len(frames), maxLen - bare, FALSE)}}

PlainOut(toc, frames, maxLen, selfDelimited) ==
    {IF Len(bytes) > maxLen THEN Failed("BufferTooSmall") ELSE Done(bytes) :
       bytes \in {PlainHeader(toc, SizesOf(frames), selfDelimited) \o Payload(frames)}}

\* The packet of one or two frames is measured before the padding is looked at.
Packed(toc, frames, exts, maxLen, selfDelimited, pad) ==
    IF Len(frames) > 2 THEN Code3Out(toc, frames, exts, maxLen, selfDelimited, pad)
    ELSE UNION {IF /\ plain.error = "none"
                   /\ exts # <<>> \/ (pad /\ Len(plain.bytes) < maxLen)
                THEN Code3Out(toc, frames, exts, maxLen, selfDelimited, pad)
                ELSE {plain} :
                  plain \in PlainOut(toc, frames, maxLen, selfDelimited)}

OutRange(rp, begin, end, maxLen, selfDelimited, pad, exts) ==
    IF begin >= end \/ end > Len(rp.frames) THEN {Failed("BadArgument")}
    ELSE LET frames == SubSeq(rp.frames, begin + 1, end)
         IN  UNION {IF ~all.ok THEN {Failed("InternalError")}
                    ELSE Packed(rp.toc, frames, all.exts, maxLen, selfDelimited, pad) :
                      all \in Gather(frames, exts)}

-------------------------------------------------------------------------------
(***************************************************************************)
(* opus_packet_pad_impl, opus_packet_pad_with_extensions, opus_packet_unpad*)
(* and the step of opus_multistream_packet_unpad.  Their buffer has room   *)
(* for the new length.                                                     *)
(***************************************************************************)
PadWith(packet, newLen, pad, exts) ==
    CASE packet = <<>> -> {Failed("BadArgument")}
      [] packet # <<>> /\ Len(packet) = newLen -> {Done(packet)}
      [] packet # <<>> /\ Len(packet) > newLen -> {Failed("BadArgument")}
      [] packet # <<>> /\ Len(packet) < newLen ->
           UNION {IF c.ok
                  THEN OutRange(c.rp, 0, Len(c.rp.frames), newLen, FALSE, pad, exts)
                  ELSE {Failed("InvalidPacket")} :
                    c \in Cat(NewRepacketizer, packet, FALSE)}

Pad(packet, newLen) == PadWith(packet, newLen, TRUE, <<>>)

WithoutPadding(rp) ==
    [rp EXCEPT !.frames = [n \in DOMAIN @ |-> [@[n] EXCEPT !.padding = <<>>,
                                                           !.padFrames = 0]]]

UnpadInto(packet, maxLen, selfDelimited) ==
    UNION {IF c.ok
           THEN OutRange(WithoutPadding(c.rp), 0, Len(c.rp.frames), maxLen,
                         selfDelimited, FALSE, <<>>)
           ELSE {Failed("InvalidPacket")} :
             c \in Cat(NewRepacketizer, packet, selfDelimited)}

Unpad(packet) ==
    IF packet = <<>> THEN {Failed("BadArgument")}
    ELSE UnpadInto(packet, Len(packet), FALSE)
===============================================================================
