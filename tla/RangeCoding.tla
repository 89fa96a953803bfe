----------------------------- MODULE RangeCoding -----------------------------
(***************************************************************************)
(* The entropy coder of celt/entenc.rs and celt/entdec.rs, and the second  *)
(* decoder of range.rs that SILK's tables are read with.  The code puts    *)
(* out symbols of 8 bits from registers of 32; here the widths are         *)
(* constants, so that TLC reaches carries that run through several symbols *)
(* and buffers that fill up.                                               *)
(*                                                                         *)
(* A symbol is an interval fl..fh of ft, whatever call codes it: encode,   *)
(* encode_bin (ft a power of two), enc_bit_logp (the last 1 of 2^logp is a *)
(* one) and enc_icdf (whose tables count from above) do the same           *)
(* arithmetic.  "Byte" stands for an output symbol.                        *)
(***************************************************************************)
EXTENDS Integers, Sequences, TLC

CONSTANTS
    SymBits,    \* EC_SYM_BITS, 8 in the code
    CodeBits,   \* EC_CODE_BITS, 32 in the code
    UintBits    \* EC_UINT_BITS, 8 in the code

\* The bit that is left over from one byte to the next is a single one.
ASSUME WidthsAssumption ==
    /\ SymBits \in Nat \ {0, 1} /\ UintBits \in Nat \ {0}
    /\ CodeBits \in Nat /\ CodeBits >= 3 * SymBits /\ CodeBits % SymBits = 0

Base == 2 ^ SymBits
CodeTop == 2 ^ (CodeBits - 1)
CodeBot == CodeTop \div Base
CodeExtra == ((CodeBits - 2) % SymBits) + 1

\* The number of bits of v.
Ilog(v) == CHOOSE n \in 0..CodeBits : v < 2 ^ n /\ (n = 0 \/ v >= 2 ^ (n - 1))

Tell(c) == c.total - Ilog(c.rng)

-----------------------------------------------------------------------------
(***************************************************************************)
(* The encoder.  front holds the bytes from the start of the buffer, back  *)
(* those from its end, the last byte of the buffer first; rem and ext are  *)
(* the bytes that a carry may still change.                                *)
(***************************************************************************)
NewEncoder(storage) ==
    [storage |-> storage, front |-> <<>>, back |-> <<>>, window |-> 0, nend |-> 0,
     total |-> CodeBits + 1, rng |-> CodeTop, val |-> 0, rem |-> -1, ext |-> 0,
     error |-> FALSE]

Full(e) == Len(e.front) + Len(e.back) >= e.storage

WriteByte(e, b) ==
    IF Full(e) THEN [e EXCEPT !.error = TRUE]
    ELSE [e EXCEPT !.front = Append(@, b)]

WriteByteAtEnd(e, b) ==
    IF Full(e) THEN [e EXCEPT !.error = TRUE]
    ELSE [e EXCEPT !.back = Append(@, b)]

RECURSIVE WriteBytes(_, _, _)
WriteBytes(e, b, n) == IF n = 0 THEN e ELSE WriteBytes(WriteByte(e, b), b, n - 1)

\* Mutant: a carry does not run through the bytes that are held back.
CarryOutStuck(e, c) ==
    IF c = Base - 1 THEN [e EXCEPT !.ext = @ + 1]
    ELSE LET carry == c \div Base
             led   == IF e.rem >= 0 THEN WriteByte(e, e.rem + carry) ELSE e
         IN  [WriteBytes(led, Base - 1, e.ext) EXCEPT !.rem = c % Base, !.ext = 0]

\* A byte with its carry: bytes that a carry would run through are counted.
CarryOut(e, c) ==
    IF c = Base - 1 THEN [e EXCEPT !.ext = @ + 1]
    ELSE LET carry == c \div Base
             led   == IF e.rem >= 0 THEN WriteByte(e, e.rem + carry) ELSE e
         IN  [WriteBytes(led, (Base - 1 + carry) % Base, e.ext)
                 EXCEPT !.rem = c % Base, !.ext = 0]

RECURSIVE Normalized(_)
Normalized(e) ==
    IF e.rng > CodeBot THEN e
    ELSE Normalized([CarryOut(e, e.val \div CodeBot)
                    EXCEPT !.val = (e.val * Base) % CodeTop, !.rng = e.rng * Base,
                           !.total = @ + SymBits])

\* What the division leaves over belongs to the first symbol.
Encode(e, fl, fh, ft) ==
    LET r == e.rng \div ft
    IN  Normalized(IF fl > 0
                   THEN [e EXCEPT !.val = @ + e.rng - r * (ft - fl), !.rng = r * (fh - fl)]
                   ELSE [e EXCEPT !.rng = @ - r * (ft - fh)])

\* Bytes of the window that are complete.
RECURSIVE FlushWindow(_)
FlushWindow(e) ==
    IF e.nend < SymBits THEN e
    ELSE FlushWindow([WriteByteAtEnd(e, e.window % Base)
                         EXCEPT !.window = @ \div Base, !.nend = @ - SymBits])

\* Raw bits, from the end of the buffer, least significant first.
EncodeBits(e, v, bits) ==
    LET f == IF e.nend + bits > CodeBits THEN FlushWindow(e) ELSE e
    IN  [f EXCEPT !.window = @ + v * 2 ^ f.nend, !.nend = @ + bits, !.total = @ + bits]

\* The raw bits of an integer below ft, past those the coder itself takes.
UintTail(ft) == IF Ilog(ft - 1) > UintBits THEN Ilog(ft - 1) - UintBits ELSE 0
UintHead(ft) == ((ft - 1) \div 2 ^ UintTail(ft)) + 1

EncodeUint(e, v, ft) ==
    LET head == v \div 2 ^ UintTail(ft)
        led  == Encode(e, head, head + 1, UintHead(ft))
    IN  IF UintTail(ft) = 0 THEN led
        ELSE EncodeBits(led, v % 2 ^ UintTail(ft), UintTail(ft))

\* The top `bits' of a byte replaced by v.
Patched(byte, v, bits) ==
    v * 2 ^ (SymBits - bits) + (byte % 2 ^ (SymBits - bits))

\* The first bits of the stream, wherever they are by now.
PatchInitialBits(e, v, bits) ==
    CASE Len(e.front) > 0 -> [e EXCEPT !.front[1] = Patched(@, v, bits)]
      [] Len(e.front) = 0 /\ e.rem >= 0 -> [e EXCEPT !.rem = Patched(@, v, bits)]
      [] Len(e.front) = 0 /\ e.rem < 0 /\ e.rng <= CodeTop \div 2 ^ bits ->
           [e EXCEPT !.val = Patched(@ \div CodeBot, v, bits) * CodeBot + (@ % CodeBot)]
      [] OTHER -> [e EXCEPT !.error = TRUE]

CanShrink(e, size) == Len(e.front) + Len(e.back) <= size
Shrink(e, size) == [e EXCEPT !.storage = IF size < @ THEN size ELSE @]

\* The fewest bits that identify the range whatever follows them.
LastBits(e) ==
    LET mask(l) == 2 ^ (CodeBits - 1 - l) - 1
        end(l)  == ((e.val + mask(l)) \div (mask(l) + 1)) * (mask(l) + 1)
        few     == CodeBits - Ilog(e.rng)
        l       == IF end(few) + mask(few) >= e.val + e.rng THEN few + 1 ELSE few
    IN  [bits |-> l, end |-> end(l)]

\* Their bytes; bits is then what the last byte has left, less than none.
RECURSIVE PutLast(_, _)
PutLast(e, last) ==
    IF last.bits <= 0 THEN [e |-> e, bits |-> last.bits]
    ELSE PutLast(CarryOut(e, last.end \div CodeBot),
                 [bits |-> last.bits - SymBits, end |-> (last.end * Base) % CodeTop])

\* What is left of the window is put into the last free byte, or into the byte
\* the range coder ends in if its bits are free.
Remainder(e, free) ==
    LET fits == ~Full(e) \/ free >= e.nend
        bits == IF fits THEN e.window ELSE e.window % 2 ^ free
    IN  CASE e.nend = 0 -> e
          [] e.nend > 0 /\ Len(e.back) >= e.storage -> [e EXCEPT !.error = TRUE]
          [] OTHER -> [e EXCEPT !.window = bits, !.error = ~fits]

\* enc_done.
Done(e) ==
    LET put     == PutLast(e, LastBits(e))
        carried == IF put.e.rem >= 0 \/ put.e.ext > 0 THEN CarryOut(put.e, 0) ELSE put.e
        flushed == FlushWindow(carried)
    IN  IF flushed.error THEN flushed ELSE Remainder(flushed, -put.bits)

\* The buffer after enc_done.
Buffer(e) ==
    [i \in 1..e.storage |->
        LET kept == CASE i <= Len(e.front) -> e.front[i]
                      [] i > e.storage - Len(e.back) -> e.back[e.storage - i + 1]
                      [] OTHER -> 0
        IN  IF i = e.storage - Len(e.back) /\ e.nend > 0
            THEN kept + e.window ELSE kept]

-----------------------------------------------------------------------------
(***************************************************************************)
(* The decoder.                                                            *)
(***************************************************************************)
ByteAt(buf, i) == IF i <= Len(buf) THEN buf[i] ELSE 0

RECURSIVE Refilled(_, _)
Refilled(buf, d) ==
    IF d.rng > CodeBot THEN d
    ELSE LET next == ByteAt(buf, d.offs + 1)
             sym  == ((d.rem * Base + next) \div 2 ^ (SymBits - CodeExtra)) % Base
         IN  Refilled(buf,
                 [d EXCEPT !.total = @ + SymBits, !.rng = @ * Base, !.rem = next,
                           !.offs = IF @ < Len(buf) THEN @ + 1 ELSE @,
                           !.val = (@ * Base + (Base - 1 - sym)) % CodeTop])

NewDecoder(buf) ==
    LET first == ByteAt(buf, 1)
        rng   == 2 ^ CodeExtra
    IN  Refilled(buf,
            [offs |-> IF Len(buf) > 0 THEN 1 ELSE 0, endOffs |-> 0, window |-> 0, nend |-> 0,
             total |-> CodeBits + 1 - ((CodeBits - CodeExtra) \div SymBits) * SymBits,
             rng |-> rng, rem |-> first, error |-> FALSE,
             val |-> rng - 1 - (first \div 2 ^ (SymBits - CodeExtra))])

\* The frequency the value falls on.
Frequency(d, ft) ==
    LET s == d.val \div (d.rng \div ft)
    IN  ft - (IF s + 1 < ft THEN s + 1 ELSE ft)

Update(buf, d, fl, fh, ft) ==
    LET r == d.rng \div ft
        s == r * (ft - fh)
    IN  Refilled(buf, [d EXCEPT !.val = @ - s,
                                !.rng = IF fl > 0 THEN r * (fh - fl) ELSE @ - s])

\* Bytes from the end, for as long as the window has room.
RECURSIVE Windowed(_, _)
Windowed(buf, d) ==
    IF d.nend > CodeBits - SymBits THEN d
    ELSE LET next == IF d.endOffs < Len(buf) THEN buf[Len(buf) - d.endOffs] ELSE 0
         IN  Windowed(buf,
                 [d EXCEPT !.window = @ + next * 2 ^ d.nend, !.nend = @ + SymBits,
                           !.endOffs = IF @ < Len(buf) THEN @ + 1 ELSE @])

\* Raw bits: [value, d].
DecodeBits(buf, d, bits) ==
    LET f == IF d.nend < bits THEN Windowed(buf, d) ELSE d
    IN  [value |-> f.window % 2 ^ bits,
         d |-> [f EXCEPT !.window = @ \div 2 ^ bits, !.nend = @ - bits, !.total = @ + bits]]

DecodeUint(buf, d, ft) ==
    LET s    == Frequency(d, UintHead(ft))
        led  == Update(buf, d, s, s + 1, UintHead(ft))
        tail == DecodeBits(buf, led, UintTail(ft))
        t    == s * 2 ^ UintTail(ft) + tail.value
    IN  CASE UintTail(ft) = 0 -> [value |-> s, d |-> led]
          [] UintTail(ft) > 0 /\ t <= ft - 1 -> [value |-> t, d |-> tail.d]
          [] OTHER -> [value |-> ft - 1, d |-> [tail.d EXCEPT !.error = TRUE]]

-----------------------------------------------------------------------------
(***************************************************************************)
(* RangeDecoder of range.rs: the buffer is read bit by bit.                *)
(***************************************************************************)
BitAt(buf, i) ==
    IF i \div SymBits < Len(buf)
    THEN (buf[(i \div SymBits) + 1] \div 2 ^ (SymBits - 1 - (i % SymBits))) % 2
    ELSE 0

\* The number that the next n bits make.
RECURSIVE BitsAt(_, _, _)
BitsAt(buf, i, n) == IF n = 0 THEN 0 ELSE 2 * BitsAt(buf, i, n - 1) + BitAt(buf, i + n - 1)

\* Bits past the end are not counted as read.
Advance(buf, i, n) ==
    IF i + n <= Len(buf) * SymBits THEN i + n ELSE Len(buf) * SymBits

RECURSIVE SilkRefilled(_, _)
SilkRefilled(buf, d) ==
    IF d.rng > CodeBot THEN d
    ELSE SilkRefilled(buf,
             [d EXCEPT !.rng = @ * Base, !.total = @ + SymBits,
                       !.bitsRead = Advance(buf, @, SymBits),
                       !.val = (@ * Base + Base - 1 - BitsAt(buf, d.bitsRead, SymBits)) % CodeTop])

NewSilkDecoder(buf) ==
    SilkRefilled(buf,
        [bitsRead |-> Advance(buf, 0, SymBits - 1), rng |-> 2 ^ CodeExtra,
         total |-> CodeBits + 1 - ((CodeBits - CodeExtra) \div SymBits) * SymBits,
         val |-> 2 ^ CodeExtra - 1 - BitsAt(buf, 0, SymBits - 1)])

SilkUpdate(buf, d, fl, fh, ft) ==
    LET r == d.rng \div ft
    IN  SilkRefilled(buf, [d EXCEPT !.val = @ - r * (ft - fh),
                                    !.rng = IF fl = 0 THEN @ - r * (ft - fh) ELSE r * (fh - fl)])

\* The raw bits of a large integer are read on from the front, and the integer
\* is not checked against its limit.
SilkDecodeUint(buf, d, ft) ==
    LET s    == Frequency(d, UintHead(ft))
        led  == SilkUpdate(buf, d, s, s + 1, UintHead(ft))
        tail == UintTail(ft)
    IN  IF tail = 0 THEN [value |-> s, d |-> led]
        ELSE [value |-> s * 2 ^ tail + BitsAt(buf, led.bitsRead, tail),
              d |-> [led EXCEPT !.bitsRead = Advance(buf, @, tail), !.total = @ + tail]]

-----------------------------------------------------------------------------
(***************************************************************************)
(* A payload through the entropy coder: written item by item into a buffer *)
(* that may be shrunk, finished, perhaps damaged on its way, and read item *)
(* by item by the decoder of entdec.rs and, as far as it goes, by the one  *)
(* of range.rs.                                                            *)
(*                                                                         *)
(* An item is a record [kind, table, value]:                               *)
(*   "symbol"  number `value' of a table of cumulative frequencies;        *)
(*   "uint"    an integer below table[1];                                  *)
(*   "bits"    table[1] raw bits;                                          *)
(*   "header"  table[1] flags at the start, which SILK reserves and fills  *)
(*             in when the payload is finished.                            *)
(***************************************************************************)

CONSTANTS
    Users,      \* who writes: each has a selection of items, buffers and damages
    Items,      \* the items a user writes
    MaxItems,   \* bound on the items of a payload
    Storages,   \* sizes of the user's buffer
    Damages     \* values a byte may take on the way, {} for a safe passage

VARIABLES
    user,       \* one of Users
    stage,      \* "write" or "read"
    enc,        \* the encoder
    sent,       \* the items written
    tells,      \* history: the encoder's position after each of them
    buf,        \* the payload
    damaged,    \* whether it was damaged
    dec,        \* the decoder
    silk,       \* the decoder of range.rs, and whether it is still of use
    got         \* the values read, and the decoder's position after each

vars == <<user, stage, enc, sent, tells, buf, damaged, dec, silk, got>>

Total(table) == table[Len(table)]

\* A reserved header is coded as a symbol as unlikely as its bits are many.
PutItem(e, item) ==
    CASE item.kind = "symbol" ->
           Encode(e, item.table[item.value], item.table[item.value + 1], Total(item.table))
      [] item.kind = "uint"   -> EncodeUint(e, item.value, item.table[1])
      [] item.kind = "bits"   -> EncodeBits(e, item.value, item.table[1])
      [] item.kind = "header" -> Encode(e, 0, 1, 2 ^ item.table[1])

Headed == Len(sent) > 0 /\ sent[1].kind = "header"

\* RangeEncoder::finish keeps the bytes written; without it the payload fills
\* its buffer.  The first is used only for payloads without raw bits.
Raw(item) == \/ item.kind = "bits"
             \/ item.kind = "uint" /\ UintTail(item.table[1]) > 0
Trimmable == \A i \in 1..Len(sent) : ~Raw(sent[i])

NoDecoder == [on |-> FALSE]

Init ==
    /\ user \in Users
    /\ stage = "write"
    /\ \E n \in Storages[user] : enc = NewEncoder(n)
    /\ sent = <<>> /\ tells = <<>> /\ buf = <<>> /\ got = <<>>
    /\ damaged = FALSE
    /\ dec = NoDecoder /\ silk = NoDecoder

Put(item) ==
    /\ stage = "write" /\ Len(sent) < MaxItems
    /\ item.kind = "header" => sent = <<>>
    /\ enc' = PutItem(enc, item)
    /\ sent' = Append(sent, item)
    /\ tells' = Append(tells, Tell(enc'))
    /\ UNCHANGED <<user, stage, buf, damaged, dec, silk, got>>

\* enc_shrink, which the encoder does when it knows what a frame may take.
Cut(size) ==
    /\ stage = "write" /\ size < enc.storage
    /\ CanShrink(enc, size)
    /\ enc' = Shrink(enc, size)
    /\ UNCHANGED <<user, stage, sent, tells, buf, damaged, dec, silk, got>>

Filled(e) == IF Headed THEN PatchInitialBits(e, sent[1].value, sent[1].table[1]) ELSE e

\* The decoders start on the payload, or on what has become of it.
Start(payload) ==
    /\ buf' = payload
    /\ dec' = NewDecoder(payload)
    /\ silk' = NewSilkDecoder(payload) @@ [on |-> TRUE]

Finish ==
    /\ stage = "write"
    /\ enc' = Done(Filled(enc))
    /\ \/ Start(Buffer(enc'))
       \/ Trimmable /\ Start(Buffer(Shrink(enc', Len(enc'.front) + Len(enc'.back))))
    /\ stage' = "read"
    /\ UNCHANGED <<user, sent, tells, damaged, got>>

\* A byte is changed, or the payload is cut short, before it is read.
Damage ==
    /\ stage = "read" /\ got = <<>> /\ ~damaged
    /\ damaged' = TRUE
    /\ \/ \E i \in 1..Len(buf), b \in Damages[user] : Start([buf EXCEPT ![i] = b])
       \/ Damages[user] # {} /\ buf # <<>> /\ Start(SubSeq(buf, 1, Len(buf) - 1))
    /\ UNCHANGED <<user, stage, enc, sent, tells, got>>

\* The symbol whose interval holds frequency f.
SymbolAt(table, f) == CHOOSE k \in 1..(Len(table) - 1) : f \in table[k]..(table[k + 1] - 1)

ReadSymbol(d, table) ==
    LET k == SymbolAt(table, Frequency(d, Total(table)))
    IN  [value |-> k, d |-> Update(buf, d, table[k], table[k + 1], Total(table))]

SilkReadSymbol(d, table) ==
    LET k == SymbolAt(table, Frequency(d, Total(table)))
    IN  [value |-> k, d |-> SilkUpdate(buf, d, table[k], table[k + 1], Total(table))]

OneBit == <<0, 1, 2>>

\* The flags of a header are read one by one.
RECURSIVE ReadFlags(_, _), SilkReadFlags(_, _)
ReadFlags(d, n) ==
    IF n = 0 THEN [value |-> 0, d |-> d]
    ELSE LET r == ReadFlags(d, n - 1)
             b == ReadSymbol(r.d, OneBit)
         IN  [value |-> 2 * r.value + b.value - 1, d |-> b.d]
SilkReadFlags(d, n) ==
    IF n = 0 THEN [value |-> 0, d |-> d]
    ELSE LET r == SilkReadFlags(d, n - 1)
             b == SilkReadSymbol(r.d, OneBit)
         IN  [value |-> 2 * r.value + b.value - 1, d |-> b.d]

GetItem(d, item) ==
    CASE item.kind = "symbol" -> ReadSymbol(d, item.table)
      [] item.kind = "uint"   -> DecodeUint(buf, d, item.table[1])
      [] item.kind = "bits"   -> DecodeBits(buf, d, item.table[1])
      [] item.kind = "header" -> ReadFlags(d, item.table[1])

SilkGetItem(d, item) ==
    CASE item.kind = "symbol" -> SilkReadSymbol(d, item.table)
      [] item.kind = "uint"   -> SilkDecodeUint(buf, d, item.table[1])
      [] item.kind = "header" -> SilkReadFlags(d, item.table[1])

Get ==
    /\ stage = "read" /\ Len(got) < Len(sent)
    /\ \E item \in {sent[Len(got) + 1]} :
          \E read \in {GetItem(dec, item)} :
             /\ dec' = read.d
             /\ IF silk.on /\ item.kind # "bits"
                THEN \E second \in {SilkGetItem(silk, item)} :
                        /\ silk' = second.d
                        /\ got' = Append(got, [value |-> read.value, tell |-> Tell(read.d),
                                               second |-> second.value])
                ELSE /\ silk' = NoDecoder
                     /\ got' = Append(got, [value |-> read.value, tell |-> Tell(read.d),
                                            second |-> read.value])
    /\ UNCHANGED <<user, stage, enc, sent, tells, buf, damaged>>

Next == (\E item \in Items[user] : Put(item)) \/ (\E n \in 0..3 : Cut(n)) \/ Finish \/ Damage \/ Get

Spec == Init /\ [][Next]_vars

-----------------------------------------------------------------------------
\* Whether the payload came through as it was written.
Sound == stage = "read" /\ ~enc.error /\ ~damaged

\* The registers stay in their ranges on any payload, so that nothing wraps
\* around: the range is wide enough to be divided, and the value within it.
TypeOK ==
    /\ enc.rng \in (CodeBot + 1)..CodeTop
    /\ enc.rem \in -1..(Base - 2) /\ enc.ext \in Nat
    /\ enc.nend \in 0..CodeBits /\ enc.window < 2 ^ enc.nend
    /\ Len(enc.front) + Len(enc.back) <= enc.storage
    /\ stage = "read" =>
          /\ dec.rng \in (CodeBot + 1)..CodeTop /\ dec.val \in 0..(dec.rng - 1)
          /\ dec.nend \in 0..CodeBits /\ dec.window < 2 ^ dec.nend
          /\ Len(buf) <= enc.storage

\* What is read is what was written, however carries, held-back bytes, raw bits
\* from the other end, a patched header and a shrunk buffer come together.
RoundTrip ==
    Sound => \A i \in 1..Len(got) : got[i].value = sent[i].value

\* After every item encoder and decoder are at the same position: CELT decides
\* from it, on both sides, what is coded next.
TellsAgree ==
    Sound => \A i \in 1..Len(got) : got[i].tell = tells[i]

\* When all is read the ranges are the same: OPUS_GET_FINAL_RANGE compares them.
FinalRangesAgree ==
    Sound /\ Len(got) = Len(sent) => dec.rng = enc.rng

\* A payload never fails to fit while the position says that it does: nothing
\* else is asked before a symbol is coded.
RoomIsEnough ==
    stage = "read" /\ Tell(enc) <= SymBits * enc.storage => ~enc.error

\* A finished SILK payload is too short for the decoder to look for a redundant
\* frame behind it (8 * len >= tell + 17 in decode_frame).
NotTakenForRedundancy ==
    Sound /\ Len(got) = Len(sent) /\ Trimmable /\ Len(buf) < enc.storage =>
        SymBits * Len(buf) < Tell(dec) + 2 * SymBits + 1

\* The two decoders read the same from any payload, damaged or cut short, as
\* long as they are asked for what fits the range coder alone.
DecodersAgree ==
    silk.on /\ (\A i \in 1..Len(got) : ~Raw(sent[i])) =>
        /\ \A i \in 1..Len(got) : got[i].second = got[i].value
        /\ stage = "read" => silk.val = dec.val /\ silk.rng = dec.rng /\ silk.total = dec.total

=============================================================================
