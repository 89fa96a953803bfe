------------------------------- MODULE Repacking -------------------------------
(***************************************************************************)
(* An application with one repacketizer and one packet in hand: it         *)
(* receives packets, gathers their frames, writes ranges of them out, and  *)
(* pads, extends and strips the packet in hand, in any order.              *)
(*                                                                         *)
(* Beside the code's state the model keeps what the frames are: `held'     *)
(* those of the repacketizer, `carried' those of the packet in hand, each  *)
(* with its data, its extensions, its configuration (the TOC without the   *)
(* code), its place `at' in the packet it came in, and whether that        *)
(* packet's padding is `sound'.                                            *)
(***************************************************************************)
EXTENDS Repacketizer

CONSTANTS
    Received,    \* records [bytes, frames]: packets and the frames they carry
    Added,       \* sequences of extensions the application adds to a packet
    Room,        \* the size of the application's buffer
    MaxHeld,     \* the frames that are enough: none is gathered any more (a bound)
    MaxGathered, \* the length of the longest packet it gathers (a bound)
    MaxExtensions, \* the most extensions the packet in hand may have, to add (a bound)
    Lengths(_)   \* the lengths a packet of some length is padded to (a bound)

VARIABLES rp, packet, held, carried

vars == <<rp, packet, held, carried>>

Init ==
    /\ rp = NewRepacketizer /\ held = <<>>
    /\ packet = <<>> /\ carried = <<>>

\* The n-th frame of a new packet.  The extensions of a packet are stored with
\* its first frame: a frame whose first frame is left out loses them.
Moved(frame, n) ==
    [frame EXCEPT !.at = n,
                  !.exts = IF frame.at > n THEN <<>> ELSE @,
                  !.sound = frame.at > n \/ @]

FramesOut(begin, end) == [n \in 1..(end - begin) |-> Moved(held[begin + n], n)]

Stripped(frames) ==
    [n \in DOMAIN frames |-> [frames[n] EXCEPT !.exts = <<>>, !.sound = TRUE]]

\* `exts' come before those the frames have.
Extended(frames, exts) ==
    [n \in DOMAIN frames |->
       [frames[n] EXCEPT !.exts = X!InFrame(exts, n - 1) \o @]]

\* A call that fails may leave its buffer half written: the packet is dropped.
Replace(result, frames) ==
    IF result.error = "none"
    THEN packet' = result.bytes /\ carried' = frames
    ELSE packet' = <<>> /\ carried' = <<>>

-------------------------------------------------------------------------------
Receive(r) ==
    /\ packet' = r.bytes /\ carried' = r.frames
    /\ UNCHANGED <<rp, held>>

CallInit ==
    /\ rp' = Reinit(rp) /\ held' = <<>>
    /\ UNCHANGED <<packet, carried>>

CallCat ==
    /\ Len(held) < MaxHeld /\ Len(packet) <= MaxGathered
    /\ \E c \in Cat(rp, packet, FALSE) :
         /\ rp' = c.rp
         /\ held' = IF c.ok THEN held \o carried ELSE held
    /\ UNCHANGED <<packet, carried>>

CallOutRange(begin, end) ==
    /\ \E o \in OutRange(rp, begin, end, Room, FALSE, FALSE, <<>>) :
         Replace(o, FramesOut(begin, end))
    /\ UNCHANGED <<rp, held>>

CallPad(newLen) ==
    /\ \E o \in Pad(packet, newLen) : Replace(o, carried)
    /\ UNCHANGED <<rp, held>>

CallPadWithExtensions(newLen, pad, exts) ==
    /\ Len(exts) + FoldFunction(LAMBDA f, n : n + Len(f.exts), 0, carried) <= MaxExtensions
    /\ \E o \in PadWith(packet, newLen, pad, exts) :
         Replace(o, IF newLen = Len(packet) THEN carried ELSE Extended(carried, exts))
    /\ UNCHANGED <<rp, held>>

CallUnpad ==
    /\ \E o \in Unpad(packet) : Replace(o, Stripped(carried))
    /\ UNCHANGED <<rp, held>>

Next ==
    \/ \E r \in Received : Receive(r)
    \/ CallInit
    \/ CallCat
    \/ \E begin, end \in 0..Len(held) : CallOutRange(begin, end)
    \/ \E newLen \in Lengths(Len(packet)) : CallPad(newLen)
    \/ \E newLen \in Lengths(Len(packet)), pad \in BOOLEAN, exts \in Added :
         CallPadWithExtensions(newLen, pad, exts)
    \/ CallUnpad

Spec == Init /\ [][Next]_vars

-------------------------------------------------------------------------------
(***************************************************************************)
(* Correctness.                                                            *)
(***************************************************************************)
TypeOK ==
    /\ rp \in Repacketizers
    /\ packet \in Bytes
    /\ \A frames \in {held, carried} : \A n \in DOMAIN frames :
         /\ frames[n].data \in Bytes
         /\ frames[n].exts \in Seq(X!ExtensionData)
         /\ frames[n].sound \in BOOLEAN

DataOf(frames) == [n \in DOMAIN frames |-> frames[n].data]
Sound(frames) == \A n \in DOMAIN frames : frames[n].sound

\* The extensions each frame has, whatever frame they are numbered for.
ExtensionsOf(parsed) ==
    LET read == X!Reading[parsed.padding, Len(parsed.frames)]
    IN  [n \in DOMAIN parsed.frames |->
           SelectSeq(read.exts, LAMBDA e : e.frame = n - 1)]

Numbered(frames) ==
    [n \in DOMAIN frames |->
       [i \in DOMAIN frames[n].exts |->
          [frames[n].exts[i] EXCEPT !.frame = n - 1]]]

\* Whatever was gathered, split, padded, extended and stripped before, the packet
\* in hand is a packet that carries the frames it should, each once, in order and
\* to the byte, for as long as they last under the configuration they were coded
\* with, and the extensions of each, in order, unless some padding was not sound.
CarriesTheFrames ==
    packet # <<>> /\ carried # <<>> =>
      \E q \in Parse(packet, FALSE) :
        /\ q.frames = DataOf(carried)
        /\ q.length = Len(packet)
        /\ Duration(packet) = {Len(carried) * FrameUnits(q.toc)}
        /\ \A n \in DOMAIN carried : carried[n].config = q.toc \div 4
        /\ Sound(carried) => ExtensionsOf(q) = Numbered(carried)

\* The repacketizer holds the frames of the packets it took, under their one
\* configuration, and never more than 120 ms of them.
HoldsTheFrames ==
    /\ [n \in DOMAIN rp.frames |-> rp.frames[n].data] = DataOf(held)
    /\ \A n \in DOMAIN held : held[n].config = rp.toc \div 4
    /\ Len(rp.frames) * rp.units <= MaxUnits
    /\ rp.frames # <<>> => rp.units = FrameUnits(rp.toc)

\* A range of whole packets can always be written out, given room, and fits in as
\* many bytes as it is written in: out_range gives no error a caller could not
\* avoid.
StartsPacket(n) == n = Len(held) \/ held[n + 1].at = 1

WholePacketsComeOut ==
    \A begin, end \in 0..Len(held) :
      /\ begin < end /\ StartsPacket(begin) /\ StartsPacket(end) /\ Sound(held) =>
           \E o \in OutRange(rp, begin, end, 3 * Room, FALSE, FALSE, <<>>) :
             /\ o.error = "none"
             /\ {o} = OutRange(rp, begin, end, Len(o.bytes), FALSE, FALSE, <<>>)

\* In the self-delimited form the packet can be told from whatever follows it.
SelfDelimited ==
    \A pad \in BOOLEAN, tail \in {<<>>, <<MaxByte, 0>>} :
      \A o \in OutRange(rp, 0, Len(held), Room, TRUE, pad, <<>>) :
        o.error = "none" =>
          \E q \in Parse(o.bytes \o tail, TRUE) :
            /\ q.frames = DataOf(held)
            /\ q.length = Len(o.bytes)

\* Padding gives exactly the length asked for, stripping never makes a packet
\* longer, and what is stripped does not depend on how it was padded before.
PaddingIsUndone ==
    packet # <<>> /\ carried # <<>> =>
      \E bare \in Unpad(packet) :
        /\ bare.error = "none"
        /\ Len(bare.bytes) <= Len(packet)
        /\ Unpad(bare.bytes) = {bare}
        /\ \A newLen \in Lengths(Len(packet)) : \A o \in Pad(packet, newLen) :
             o.error = "none" => Len(o.bytes) = newLen /\ Unpad(o.bytes) = {bare}

\* A packet whose padding is sound can be padded to any greater length: what its
\* extensions take when they are written again is never more than they took.
PaddingFits ==
    packet # <<>> /\ carried # <<>> /\ Sound(carried) =>
      \A newLen \in Lengths(Len(packet)) : \A o \in Pad(packet, newLen) :
        newLen >= Len(packet) => o.error = "none"

\* Any form of a packet can be had from any other: what is held comes out, alone or
\* told apart from what follows, and padding is put on and taken off without a trace.
FormsAreInterchangeable ==
    /\ TypeOK
    /\ HoldsTheFrames
    /\ WholePacketsComeOut
    /\ SelfDelimited
    /\ PaddingIsUndone
    /\ PaddingFits
===============================================================================
