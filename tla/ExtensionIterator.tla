-------------------------- MODULE ExtensionIterator --------------------------
(***************************************************************************)
(* An application that walks the extensions of one packet with             *)
(* OpusExtensionIterator: next_extension, find, reset, and set_frame_max   *)
(* before the first of them.  The padding was written by the generator, or *)
(* is any bytes.                                                           *)
(***************************************************************************)
EXTENDS Extensions

CONSTANTS
    Written,    \* records [exts, frames, fill]: padding the generator wrote,
                \* moved behind `fill' bytes of filling
    Raw,        \* records [data, frames]: padding from anywhere
    Room        \* a buffer no generated padding fills (bounds the model)

VARIABLES
    given,    \* the extensions that were written, or NotGiven
    it,       \* OpusExtensionIterator
    passed,   \* the extensions it went over since it was made or reset
    ended     \* "no", or how the last call returned without an extension

vars == <<given, it, passed, ended>>

NotGiven == <<[id |-> 0, frame |-> 0, data |-> <<>>]>>

WrittenData(w) ==
    LET size == Len(Generate(w.exts, w.frames, Room, FALSE).bytes)
    IN  Generate(w.exts, w.frames, size + w.fill, TRUE).bytes

Begin(exts, data, frames) ==
    /\ given = exts
    /\ it = NewIterator(data, frames, frames)
    /\ passed = <<>>
    /\ ended = "no"

Init ==
    \/ \E w \in Written : Begin(w.exts, WrittenData(w), w.frames)
    \/ \E r \in Raw : Begin(NotGiven, r.data, r.frames)

-------------------------------------------------------------------------------
Return(walk) ==
    /\ it' = walk.it
    /\ passed' = passed \o walk.exts
    /\ ended' = IF walk.at = "found" THEN "no" ELSE walk.at
    /\ UNCHANGED given

\* next_extension stops at any identifier, find at one.
CallNext == \E walk \in {Walked(it, 0..MaxId)} : Return(walk)

CallFind(id) == \E walk \in {Walked(it, {id})} : Return(walk)

CallReset ==
    /\ it' = NewIterator(it.data, it.frames, it.frameMax)
    /\ passed' = <<>>
    /\ ended' = "no"
    /\ UNCHANGED given

CallSetFrameMax(n) ==
    /\ passed = <<>> /\ ended = "no"
    /\ it' = [it EXCEPT !.frameMax = n]
    /\ UNCHANGED <<given, passed, ended>>


Next ==
    \/ CallNext
    \/ \E id \in 3..MaxId : CallFind(id)
    \/ CallReset
    \/ \E n \in 0..it.frames : CallSetFrameMax(n)

\* The application calls on until it is told that there is nothing more.  This
\* is WF_vars(CallNext /\ ended = "no") with its ENABLED written out, since a
\* call is always possible and one that goes over an extension changes `passed'.
CallsOn == []<>(ended # "no") \/ []<><<CallNext>>_vars

Spec == Init /\ [][Next]_vars /\ CallsOn

-------------------------------------------------------------------------------
(***************************************************************************)
(* Correctness.                                                            *)
(***************************************************************************)
TypeOK ==
    /\ it.pos \in 0..Len(it.data) /\ it.len \in -1..Len(it.data)
    /\ it.frames \in Nat /\ it.frameMax \in 0..it.frames /\ it.frame \in Nat
    /\ it.trailing \in Nat /\ it.lastLong \in -1..Len(it.data)
    /\ it.repeatStart \in 0..it.pos /\ it.repeatLen \in 0..it.pos
    /\ it.repeatFrame \in 0..it.frames /\ it.repeatFlag \in 0..1
    /\ it.srcPos \in 0..Len(it.data) /\ it.srcLen \in 0..Len(it.data)
    /\ ended \in {"no", "none", "malformed"}

\* The position and the length left, two fields next_extension and next_repeat
\* move one by one, name the same end of the padding; and the extensions being
\* repeated are those between the last separator and the repeat indicator.
InStep ==
    /\ it.len > 0 => it.pos + it.len = Len(it.data)
    /\ it.repeatFrame > 0 /\ ended # "malformed" =>
         /\ it.srcPos + it.srcLen = it.repeatStart + it.repeatLen
         /\ it.repeatStart + it.repeatLen < it.pos

\* What generate wrote is what the iterator passes, frame by frame, in order and
\* to the byte, whatever was repeated, separated or left without a length, and
\* up to frame_max: the two sides never disagree on what a repeat stands for.
RoundTrip ==
    given # NotGiven =>
      /\ ended # "malformed"
      /\ ended = "none" =>
           \A f \in 0..(it.frameMax - 1) : InFrame(passed, f) = InFrame(given, f)

\* From any bytes an extension is of a frame of the packet that was asked for,
\* and one that generate accepts (tests/extensions.rs, random_extensions_parse).
InRange ==
    \A i \in DOMAIN passed :
       ValidExtension(passed[i], it.frameMax)

\* Extensions read from any bytes can be written again, and read as the same
\* (the test only compares counts and payloads, on random bytes).
Rewritable ==
    ended = "none" /\ it.frameMax = it.frames =>
      \E again \in {Generate(passed, it.frames, Room, FALSE)} :
        /\ again.error = "none"
        /\ \E read \in {Reading[again.bytes, it.frames]} :
             /\ read.at = "none"
             /\ \A f \in 0..(it.frames - 1) :
                  InFrame(read.exts, f) = InFrame(passed, f)

\* set_frame_max only leaves frames out: stopping early, and passing over the
\* repeats of later frames, loses and changes nothing of the earlier ones.
FrameMaxOnlyLeavesOut ==
    \E all \in {Reading[it.data, it.frames]} :
      ended = "none" /\ all.at = "none" =>
        \A f \in 0..(it.frameMax - 1) : InFrame(passed, f) = InFrame(all.exts, f)

\* With the counts of count_ext, parse_ext puts the extensions into as many slots,
\* the frames one after the other and each in the order of the padding.
GroupedByFrame ==
    \E read \in {Reading[it.data, it.frames]} :
      read.at = "none" =>
        \E parsed \in {ParseExt(it.data, it.frames, CountExt(it.data, it.frames),
                                Len(read.exts))} :
          /\ parsed.error = "none"
          /\ parsed.slots =
               FlattenSeq([f \in 1..it.frames |-> InFrame(read.exts, f - 1)])

\* Every call returns and a walk comes to an end, unless the application starts
\* over for ever: no padding keeps an iterator going.
WalkEnds ==
    \/ []<>(ended \in {"none", "malformed"})
    \/ []<><<CallReset>>_vars

\* Whatever bytes the padding holds, the iterator keeps its place, and what is read of
\* them is in range, can be written again, is the same frame by frame, and the same
\* when frames are left out.
AnyBytesAreRead ==
    /\ TypeOK
    /\ InStep
    /\ InRange
    /\ Rewritable
    /\ FrameMaxOnlyLeavesOut
    /\ GroupedByFrame
===============================================================================
