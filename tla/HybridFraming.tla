---------------------------- MODULE HybridFraming ----------------------------
(***************************************************************************)
(* Where the redundant frame of a hybrid packet is: encode_frame_native    *)
(* writes a header of up to 37 bits behind SILK's, gives CELT what is left *)
(* and puts the redundant frame behind it; decode_frame has to find it     *)
(* from the length of the packet alone, which CELT at a variable rate      *)
(* makes shorter than the encoder had in mind.                             *)
(*                                                                         *)
(* Lengths are in bytes without the TOC, positions (tell) in bits; the     *)
(* range coder rounds them up, by one bit at most.                         *)
(***************************************************************************)
EXTENDS EncoderDecisions

CONSTANTS
    Rooms,      \* bytes a frame may have
    Wishes      \* sizes wanted of the redundant frame, 0 for none

ASSUME RoomsAssumption == Rooms \subseteq Nat \ {0}
ASSUME WishesAssumption == Wishes \subseteq {0} \cup (2..257)

VARIABLES
    stage,      \* "silk", "header", "celt", "read" or "failed": the last step taken
    room, wish, start,  \* the frame: its bytes, the redundancy wanted, SILK's bits
    tell,       \* the encoder's position
    header,     \* "present" once a redundancy header has been written
    red,        \* bytes of the redundant frame
    sent,       \* bytes of the frame sent
    read        \* what the decoder made of it: [header, red]

framingVars == <<stage, room, wish, start, tell, header, red, sent, read>>

FramingInit ==
    /\ stage = "silk"
    /\ room \in Rooms /\ wish \in Wishes
    /\ start \in 1..(8 * room)
    /\ tell = start
    /\ header = "absent" /\ red = 0 /\ sent = 0
    /\ read = [header |-> "absent", red |-> 0]

\* Mutant: the decoder's room for a header is taken for the encoder's.
HeaderFitsOwn(position, bytes) == position + 17 <= 8 * bytes

\* Bits that a header needs at most, in the encoder and the decoder.
HeaderFits(position, bytes) == position + 37 <= 8 * bytes

\* Mutant: the size of the redundant frame itself is not taken off.
RoomForRedundancyLoose(position, bytes) == bytes - (position \div 8)

\* Bytes left behind the size of the redundant frame, which is yet to come.
RoomForRedundancy(position, bytes) == bytes - ((position + 18) \div 8)

\* The flag (a bit at most if it is clear, 12 if it is set), which coder the
\* redundancy leads to, and its size, 8 bits or less.
WriteHeader ==
    /\ stage = "silk"
    /\ HeaderFits(start, room)
    /\ header' = "present"
    /\ \/ /\ wish = 0
          /\ tell' \in {start, start + 1}
          /\ UNCHANGED red
       \/ /\ wish # 0
          /\ red' = WrittenRedundancy(wish, RoomForRedundancy(start + 13, room))
          /\ tell' \in {start + 20, start + 21}
    /\ stage' = "header"
    /\ UNCHANGED <<room, wish, start, sent, read>>

NoHeader ==
    /\ stage = "silk"
    /\ ~HeaderFits(start, room)
    /\ stage' = "header"
    /\ UNCHANGED <<room, wish, start, tell, header, red, sent, read>>

\* Mutant: CELT at a variable rate keeps no room for the header it follows.
MinAllowedAlone(eighths) == ((eighths + 63) \div 64) + 2

\* The least a variable rate leaves a hybrid frame, from the position in eighths
\* of a bit: the decoder must still find room for the header.
MinAllowed(eighths) == Most(((eighths + 63) \div 64) + 2, (eighths + 8 * 37 + 63) \div 64)

\* CELT takes all that is left, or less at a variable rate.
Celt ==
    /\ stage = "header"
    /\ room - red >= 2
    /\ \E part \in 0..7 :
         LET least == Least(MinAllowed(8 * tell - part), room - red)
         IN  sent' \in {least + red, room}
    /\ stage' = "celt"
    /\ UNCHANGED <<room, wish, start, tell, header, red, read>>

\* BufferTooSmall.
TooSmall ==
    /\ stage = "header"
    /\ room - red < 2
    /\ stage' = "failed"
    /\ UNCHANGED <<room, wish, start, tell, header, red, sent, read>>

\* decode_frame: a frame that does not leave room for SILK's bits is dropped.
Read ==
    /\ stage = "celt"
    /\ read' = IF HeaderFits(start, sent)
               THEN [header |-> "present",
                     red |-> IF 8 * (sent - red) < tell THEN 0 ELSE red]
               ELSE [header |-> "absent", red |-> 0]
    /\ stage' = "read"
    /\ UNCHANGED <<room, wish, start, tell, header, red, sent>>

FramingNext == WriteHeader \/ NoHeader \/ Celt \/ TooSmall \/ Read

FramingSpec == FramingInit /\ [][FramingNext]_framingVars

-----------------------------------------------------------------------------
\* The decoder looks for a header exactly where the encoder has written one,
\* however much shorter CELT has left the frame: otherwise all that follows
\* SILK's bits is read out of step.
HeaderIsFound == stage = "read" => read.header = header

\* A redundant frame that was written is never taken for damaged and dropped,
\* nor is one found that was not written.
RedundancyIsFound == stage = "read" => read.red = red

\* CELT starts within the bytes that the redundant frame leaves, so that a frame
\* is never sent without its upper bands, and the two fit the frame.
CeltHasRoom ==
    /\ stage = "header" => tell <= 8 * (room - red)
    /\ stage \in {"celt", "read"} => sent <= room
=============================================================================
