------------------------------ MODULE Extensions ------------------------------
(***************************************************************************)
(* The extensions a packet carries in its padding (extensions.rs): the     *)
(* iterator that reads them and the generator that writes them, which meet *)
(* only in the bytes.  A repeat indicator makes the extensions since the   *)
(* last separator recur in every later frame, their identifiers written    *)
(* once; the two must agree on which those are and on whose length is      *)
(* implied by the end of the padding.                                      *)
(*                                                                         *)
(* Positions and frames count from 0 as in the code.  The thresholds of    *)
(* the format are parameters: TLC reaches both sides of each on short data.*)
(***************************************************************************)
EXTENDS Integers, FiniteSets, Sequences, SequencesExt

CONSTANTS
    LongId,    \* the first identifier with a payload of any length (32)
    MaxId,     \* the last identifier (127)
    Lace       \* a length byte of this value is continued (255)

ASSUME FormatAssumption ==
    /\ LongId \in Nat /\ LongId > 3
    /\ MaxId \in Nat /\ MaxId >= LongId
    /\ Lace \in Nat \ {0}

Data == Seq(Nat)
ExtensionData == [id : Nat, frame : Nat, data : Data]

ByteAt(data, pos) == data[pos + 1]
Bytes(data, from, to) == SubSeq(data, from + 1, to)
Id(byte) == byte \div 2
Flag(byte) == byte % 2

\* Where a reading of the data got to, after `header' bytes that are not payload.
Skips == [ok : BOOLEAN, pos : Nat, len : Int, header : Nat]

At(pos, len, header) == [ok |-> TRUE, pos |-> pos, len |-> len, header |-> header]
Cut == [ok |-> FALSE, pos |-> 0, len |-> 0, header |-> 0]

(***************************************************************************)
(* skip_extension_payload.  A long extension is laced: its length is the   *)
(* sum of the bytes up to the first below Lace; with a flag of 0 it has no *)
(* length and leaves only `trailing' bytes of what follows.                *)
(***************************************************************************)
SkipLaced(data, pos, len) ==
    LET full  == SelectInSeq(Bytes(data, pos, Len(data)), LAMBDA b : b # Lace) - 1
        start == pos + full + 1
        size  == full * Lace + ByteAt(data, pos + full)
    IN  IF full < 0 \/ len - full * (Lace + 1) < 1 \/ size > Len(data) - start
        THEN Cut
        ELSE At(start + size, len - (full + 1) - size, full + 1)

SkipPayload[data \in Data, pos \in Nat, len \in Int, trailing \in Nat, byte \in Nat] ==
    LET id == Id(byte)
    IN  CASE (id = 0 /\ Flag(byte) = 1) \/ id = 2 -> At(pos, len, 0)
          [] id \in 1..(LongId - 1) \ {2} ->
               IF len < Flag(byte) THEN Cut
               ELSE At(pos + Flag(byte), len - Flag(byte), 0)
          [] id \notin 1..(LongId - 1) /\ Flag(byte) = 0 ->
               IF len < trailing THEN Cut
               ELSE At(pos + len - trailing, trailing, 0)
          [] id >= LongId /\ Flag(byte) = 1 -> SkipLaced(data, pos, len)

\* The identifier byte is a header byte too.
Past[skip \in Skips] == IF skip.ok THEN [skip EXCEPT !.header = @ + 1] ELSE skip

SkipExtension(data, pos, len) ==
    Past[SkipPayload[data, pos + 1, len - 1, 0, ByteAt(data, pos)]]

-------------------------------------------------------------------------------
Iterators ==
    [data : Data, frames : Nat, frameMax : Nat,
     pos : Nat, len : Int, frame : Nat, trailing : Nat, lastLong : Int,
     repeatStart : Nat, repeatLen : Nat, repeatFrame : Nat, repeatFlag : 0..1,
     srcPos : Nat, srcLen : Nat]

NewIterator(data, frames, frameMax) ==
    [data |-> data, frames |-> frames, frameMax |-> frameMax,
     pos |-> 0, len |-> Len(data), frame |-> 0, trailing |-> 0, lastLong |-> -1,
     repeatStart |-> 0, repeatLen |-> 0, repeatFrame |-> 0, repeatFlag |-> 0,
     srcPos |-> 0, srcLen |-> 0]

\* A turn of next_extension's loops ends at the next turn to take ("resume" a
\* repeat begun in an earlier call, "enter" the scan, "scan", "repeat") or
\* with what the call returns ("found", "none", "malformed").
Turns == [it : Iterators, at : STRING, exts : Seq(ExtensionData)]

Turn(it, to) == [it |-> it, at |-> to, exts |-> <<>>]
Found(it, ext) == [it |-> it, at |-> "found", exts |-> <<ext>>]

EndRepeat(it, to) ==
    LET next == IF it.repeatFlag = 0 THEN it.frame + 1 ELSE it.frame
    IN  Turn([it EXCEPT !.repeatStart = it.pos, !.lastLong = -1, !.frame = next,
                        !.len = IF it.repeatFlag = 0 /\ next >= it.frames
                                THEN 0 ELSE @,
                        !.repeatFrame = 0],
             to)

\* The last long extension of the last frame has no length if the flag is 0.
RepeatedByte(it, byte, srcEnd) ==
    IF it.repeatFlag = 0 /\ it.repeatFrame + 1 >= it.frames /\ srcEnd = it.lastLong
    THEN 2 * Id(byte)
    ELSE byte

\* One extension of the repeated ones, in frame repeatFrame: the source tells
\* what it is, and its payload is next in the data.
RepeatPayload[it \in Iterators, byte \in Nat, skip \in Skips, here \in STRING] ==
    LET past == [it EXCEPT !.pos = skip.pos, !.len = skip.len]
    IN  CASE ~skip.ok                  -> Turn(it, "malformed")
          [] skip.ok /\ skip.len < 0   -> Turn(past, "malformed")
          [] skip.ok /\ skip.len >= 0 /\ it.repeatFrame >= it.frameMax ->
               Turn(past, here)
          [] skip.ok /\ skip.len >= 0 /\ it.repeatFrame < it.frameMax ->
               Found(past, [id |-> Id(byte), frame |-> it.repeatFrame,
                            data |-> Bytes(it.data, it.pos + skip.header, skip.pos)])

RepeatExtension[it \in Iterators, src \in Skips, here \in STRING] ==
    LET byte == ByteAt(it.data, it.srcPos)
        own  == RepeatedByte(it, byte, src.pos)
        read == [it EXCEPT !.srcPos = src.pos, !.srcLen = src.len]
    IN  CASE ~src.ok               -> Turn(it, "malformed")
          [] src.ok /\ byte <= 3   -> Turn(read, here)
          [] src.ok /\ byte > 3    ->
               RepeatPayload[read, own,
                   SkipPayload[it.data, it.pos, it.len, it.trailing, own], here]

\* Mutant: the source starts over but the frame does not move on.
RepeatTurnOfSameFrame(it, here, after) ==
    CASE it.repeatFrame >= it.frames -> EndRepeat(it, after)
      [] it.repeatFrame < it.frames /\ it.srcLen > 0 ->
           RepeatExtension[it, SkipExtension(it.data, it.srcPos, it.srcLen), here]
      [] it.repeatFrame < it.frames /\ it.srcLen <= 0 ->
           Turn([it EXCEPT !.srcPos = it.repeatStart, !.srcLen = it.repeatLen], here)

\* One turn of next_repeat, which goes on to `after' when it is done.
RepeatTurn(it, here, after) ==
    CASE it.repeatFrame >= it.frames -> EndRepeat(it, after)
      [] it.repeatFrame < it.frames /\ it.srcLen > 0 ->
           RepeatExtension[it, SkipExtension(it.data, it.srcPos, it.srcLen), here]
      [] it.repeatFrame < it.frames /\ it.srcLen <= 0 ->
           Turn([it EXCEPT !.srcPos = it.repeatStart, !.srcLen = it.repeatLen,
                           !.repeatFrame = @ + 1],
                here)

Separate(it, frame) ==
    IF frame >= it.frames
    THEN Turn([it EXCEPT !.frame = frame, !.len = -1], "malformed")
    ELSE Turn([it EXCEPT !.frame = frame, !.repeatStart = it.pos, !.lastLong = -1,
                         !.trailing = 0,
                         !.len = IF frame >= it.frameMax THEN 0 ELSE @],
              "scan")

BeginRepeat(it, start, flag) ==
    Turn([it EXCEPT !.repeatFlag = flag, !.repeatFrame = it.frame + 1,
                    !.repeatLen = start - it.repeatStart,
                    !.srcPos = it.repeatStart, !.srcLen = start - it.repeatStart],
         "repeat")

TakeExtension(it, start, byte, header) ==
    LET next == IF Id(byte) >= LongId
                THEN [it EXCEPT !.lastLong = it.pos, !.trailing = 0]
                ELSE [it EXCEPT !.trailing = @ + Flag(byte)]
    IN  IF it.frame >= it.frameMax THEN Turn(next, "scan")
        ELSE Found(next, [id |-> Id(byte), frame |-> it.frame,
                          data |-> Bytes(it.data, start + header, it.pos)])

\* One turn of next_extension's own loop: `skip' is past the extension at pos.
ScanTurn[it \in Iterators, skip \in Skips] ==
    LET byte == ByteAt(it.data, it.pos)
        past == [it EXCEPT !.pos = skip.pos, !.len = skip.len]
        step == IF Flag(byte) = 0 THEN 1 ELSE ByteAt(it.data, it.pos + 1)
    IN  CASE ~skip.ok                -> Turn(it, "malformed")
          [] skip.ok /\ skip.len < 0 -> Turn(past, "malformed")
          [] skip.ok /\ skip.len >= 0 /\ Id(byte) = 0 -> Turn(past, "scan")
          [] skip.ok /\ skip.len >= 0 /\ Id(byte) = 1 ->
               IF step = 0 THEN Turn(past, "scan")
               ELSE Separate(past, it.frame + step)
          [] skip.ok /\ skip.len >= 0 /\ Id(byte) = 2 ->
               BeginRepeat(past, it.pos, Flag(byte))
          [] skip.ok /\ skip.len >= 0 /\ Id(byte) > 2 ->
               TakeExtension(past, it.pos, byte, skip.header)

NextTurn[s \in Turns] ==
    CASE s.at = "resume" -> RepeatTurn(s.it, "resume", "enter")
      [] s.at = "repeat" -> RepeatTurn(s.it, "repeat", "scan")
      [] s.at = "enter"  -> Turn(s.it, IF s.it.frame >= s.it.frameMax
                                       THEN "none" ELSE "scan")
      [] s.at = "scan"   ->
           IF s.it.len <= 0 THEN Turn(s.it, "none")
           ELSE ScanTurn[s.it, SkipExtension(s.it.data, s.it.pos, s.it.len)]
      [] OTHER           -> s

\* next_extension: the turns until it returns.  No turn moves back, so one for
\* every byte, frame and repeated byte is enough.
NextExtension[it \in Iterators] ==
    LET bound == 3 + (Len(it.data) + 1) * (it.frames + 2)
        turns[n \in 0..bound] ==
            IF n = 0
            THEN Turn(it, CASE it.len < 0 -> "malformed"
                            [] it.len >= 0 /\ it.repeatFrame > 0 -> "resume"
                            [] OTHER -> "enter")
            ELSE NextTurn[turns[n - 1]]
    IN  turns[bound]

\* The extensions of one frame, in their order.
InFrame(exts, f) == SelectSeq(exts, LAMBDA e : e.frame = f)

\* Calls of next_extension from `it' on, until there are no more extensions, one
\* is malformed or one has an identifier in `ids'.
After[walk \in Turns, s \in Turns] == [s EXCEPT !.exts = walk.exts \o @]

GoOn[walk \in Turns, ids \in SUBSET Nat] ==
    IF walk.at = "found" /\ Last(walk.exts).id \notin ids
    THEN After[walk, NextExtension[walk.it]] ELSE walk

Walked(it, ids) ==
    LET calls[n \in 0..(Len(it.data) * it.frames)] ==
            IF n = 0 THEN NextExtension[it] ELSE GoOn[calls[n - 1], ids]
    IN  calls[Len(it.data) * it.frames]

\* opus_packet_extensions_parse, with room for all of them.
Reading[data \in Data, frames \in Nat] ==
    Walked(NewIterator(data, frames, frames), {})

\* opus_packet_extensions_count_ext: what was counted before an error stands.
Counts[read \in Turns, frames \in Nat] ==
    [f \in 1..frames |-> Len(InFrame(read.exts, f - 1))]

CountExt(data, frames) == Counts[Reading[data, frames], frames]

\* Mutant: a frame's slots start after its own count.
FirstSlotAfterOwn(counts, f) == 1 + FoldFunctionOnSet(+, 0, counts, 1..(f + 1))

\* opus_packet_extensions_parse_ext: each extension goes to the next free slot
\* of its frame, the slots being laid out by the counts.
FirstSlot(counts, f) == 1 + FoldFunctionOnSet(+, 0, counts, 1..f)

Filed[read \in Turns, counts \in Seq(Nat), room \in Nat] ==
    LET exts    == read.exts
        slot(i) == FirstSlot(counts, exts[i].frame)
                   + Len(InFrame(SubSeq(exts, 1, i - 1), exts[i].frame))
    IN  CASE \E i \in DOMAIN exts : slot(i) > room ->
               [error |-> "BufferTooSmall", slots |-> <<>>]
          [] (\A i \in DOMAIN exts : slot(i) <= room) /\ read.at = "malformed" ->
               [error |-> "InvalidPacket", slots |-> <<>>]
          [] OTHER ->
               [error |-> "none",
                slots |-> [n \in {slot(i) : i \in DOMAIN exts} |->
                             exts[CHOOSE i \in DOMAIN exts : slot(i) = n]]]

ParseExt(data, frames, counts, room) == Filed[Reading[data, frames], counts, room]

-------------------------------------------------------------------------------
(***************************************************************************)
(* opus_packet_extensions_generate.  rest[f] holds the extensions of the   *)
(* f-th frame (frame f - 1) not yet written, in order.                     *)
(***************************************************************************)
\* The first k extensions left in frame f recur in every later frame.
Recur(rest, f, k) ==
    \A g \in (f + 1)..Len(rest) :
        /\ Len(rest[g]) >= k
        /\ \A j \in 1..k :
             /\ rest[g][j].id = rest[f][j].id
             /\ rest[f][j].id < LongId => Len(rest[g][j].data) = Len(rest[f][j].data)

RepeatCount(rest, f) ==
    IF f = Len(rest) THEN 0
    ELSE CHOOSE k \in 0..Len(rest[f]) :
           /\ Recur(rest, f, k)
           /\ \A m \in (k + 1)..Len(rest[f]) : ~Recur(rest, f, m)

Lacing(size) == [n \in 1..(size \div Lace) |-> Lace] \o <<size % Lace>>

\* write_extension_payload: no length if this is the last of the padding.
PayloadBytes(e, last) ==
    IF e.id < LongId \/ last THEN e.data ELSE Lacing(Len(e.data)) \o e.data

ExtensionBytes(e, last) ==
    LET flag == IF e.id < LongId THEN Len(e.data) ELSE IF last THEN 0 ELSE 1
    IN  <<2 * e.id + flag>> \o PayloadBytes(e, last)

SeparatorBytes(diff) ==
    CASE diff = 0 -> <<>>
      [] diff = 1 -> <<2>>
      [] OTHER    -> <<3, diff>>

\* The extensions es written one after the other, `written' being before them.
RunBytes(es, written, total) ==
    FlattenSeq([i \in 1..Len(es) |-> ExtensionBytes(es[i], written + i = total)])

\* The payloads of the k extensions repeated from frame f in the later frames.
\* With a last repeat the last long one of the last frame has no length.
RepeatedBytes(rest, f, k, last) ==
    LET AllShort(from) == \A m \in from..k : rest[f][m].id < LongId
    IN  FlattenSeq([n \in 1..(Len(rest) - f) |->
            FlattenSeq([j \in 1..k |->
                PayloadBytes(rest[f + n][j],
                             /\ last /\ f + n = Len(rest)
                             /\ rest[f][j].id >= LongId /\ AllShort(j + 1))])])

\* Mutant: a repeat of long extensions ends the frame as one of short ones does.
LastRepeatThoughLong(rest, f, k, written, total) ==
    \/ written + k * (Len(rest) - f) = total
    \/ k = Len(rest[f])

\* Whether the repeat from frame f, after `written' extensions, ends the frame.
LastRepeat(rest, f, k, written, total) ==
    \/ written + k * (Len(rest) - f) = total
    \/ k = Len(rest[f]) /\ \A j \in 1..k : rest[f][j].id < LongId

\* Frame f, after the frames before it: k is the number of its extensions that
\* are repeated, last whether the repeat indicator ends the frame.
Progress == [bytes : Data, frame : Nat, written : Nat,
             rest : Seq(Seq(ExtensionData))]

FrameWritten[acc \in Progress, f \in Nat, total \in Nat, k \in Nat, last \in BOOLEAN] ==
    LET own    == acc.rest[f]
        before == acc.written + k * (Len(acc.rest) - f + 1)
    IN  [bytes |-> acc.bytes
                   \o SeparatorBytes(f - 1 - acc.frame)
                   \o RunBytes(SubSeq(own, 1, k), acc.written, total)
                   \o (IF k = 0 THEN <<>>
                       ELSE <<IF last THEN 4 ELSE 5>>
                            \o RepeatedBytes(acc.rest, f, k, last))
                   \o RunBytes(SubSeq(own, k + 1, Len(own)), before, total),
         frame |-> IF k > 0 /\ last THEN f ELSE f - 1,
         written |-> before + Len(own) - k,
         rest |-> [g \in DOMAIN acc.rest |->
                     IF g > f THEN SubSeq(acc.rest[g], k + 1, Len(acc.rest[g]))
                     ELSE acc.rest[g]]]

Repeating[acc \in Progress, f \in Nat, total \in Nat, k \in Nat] ==
    FrameWritten[acc, f, total, k, LastRepeat(acc.rest, f, k, acc.written + k, total)]

GenerateFrame[acc \in Progress, f \in Nat, total \in Nat] ==
    IF acc.rest[f] = <<>> THEN acc
    ELSE Repeating[acc, f, total, RepeatCount(acc.rest, f)]

ValidExtension(e, frames) ==
    /\ e.id \in 3..MaxId
    /\ e.frame \in 0..(frames - 1)
    /\ e.id < LongId => Len(e.data) <= 1

AllFrames(exts, frames) ==
    LET upTo[f \in 0..frames] ==
            IF f = 0
            THEN [bytes |-> <<>>, frame |-> 0, written |-> 0,
                  rest |-> [g \in 1..frames |-> InFrame(exts, g - 1)]]
            ELSE GenerateFrame[upTo[f - 1], f, Len(exts)]
    IN  upTo[frames].bytes

\* Every byte is appended, so running out of room on the way is having too much
\* at the end.  With pad the bytes are moved to the end of the buffer, behind a
\* filling that the iterator skips.
Fitted[bytes \in Data, maxLen \in Nat, pad \in BOOLEAN] ==
    IF Len(bytes) > maxLen THEN [error |-> "BufferTooSmall", bytes |-> <<>>]
    ELSE [error |-> "none",
          bytes |-> (IF pad THEN [n \in 1..(maxLen - Len(bytes)) |-> 1] ELSE <<>>)
                    \o bytes]

Generate(exts, frames, maxLen, pad) ==
    IF \A i \in DOMAIN exts : ValidExtension(exts[i], frames)
    THEN Fitted[AllFrames(exts, frames), maxLen, pad]
    ELSE [error |-> "BadArgument", bytes |-> <<>>]
===============================================================================
