------------------------------ MODULE SilkPulses ------------------------------
(***************************************************************************)
(* The excitation of SILK on the wire (encode_pulses.rs, decode_pulses.rs, *)
(* shell_coder.rs, code_signs.rs).  A frame is cut into blocks.  How many  *)
(* pulses a block has is sent first, for all blocks; then, block by block, *)
(* how they divide into halves, quarters and so on; then the low bits of   *)
(* blocks that have more pulses than the tables allow and were halved      *)
(* until they did not; then the signs.  Every symbol is read from a table  *)
(* that the reader chooses by what it read before.                         *)
(*                                                                         *)
(* The wire is the sequence of symbols, each with the table it was written *)
(* with; RangeCoding shows that the coder carries it.  One action is one   *)
(* block at one stage, at the writer and then at the reader.               *)
(***************************************************************************)
EXTENDS Integers, Sequences, SequencesExt

CONSTANTS
  Limits,                     \* SILK_MAX_PULSES_TABLE, a limit for each level
  MaxLsb,                     \* MAX_LSB_COUNT
  Rates,                      \* rate levels the writer may choose
  Frames,                     \* pulses of the frames
  Foreign                     \* frames of other encoders are read too

Depth == Len(Limits)          \* LOG2_SHELL_CODEC_FRAME_LENGTH
BlockLength == 2 ^ Depth
Escape == Limits[Depth] + 1
MaxSign == 6

(* A limit is never below one pulse for each place: a block that is halved *)
(* keeps pulses.                                                           *)
PulsesAssumption ==
  /\ \A k \in 1..Depth : Limits[k] \in Nat /\ Limits[k] >= 2 ^ k
  /\ MaxLsb \in Nat \ {0} /\ Foreign \in BOOLEAN
  /\ \A p \in Frames : 2 * Len(p) % BlockLength = 0

VARIABLES
  pulses,                     \* the frame
  stage, block,               \* where the writer or the reader is
  enc,                        \* [shifts, sums] of the blocks
  wire,
  dec,                        \* [at, ok, shifts, sums, pulses] of the reader
  foreign                     \* the frame is another encoder's: symbols are arbitrary

vars == <<pulses, stage, block, enc, wire, dec, foreign>>

Abs(x) == IF x < 0 THEN -x ELSE x
Least(a, b) == IF a < b THEN a ELSE b
SymbolOf(table, sym) == [table |-> table, sym |-> sym]

(***************************************************************************)
(* Blocks.                                                                 *)
(***************************************************************************)
(* A frame of 10 ms at 12 kHz ends with half a block.                      *)
Blocks == (Len(pulses) + BlockLength - 1) \div BlockLength

SignBlocks(n) == (n + BlockLength \div 2) \div BlockLength

Sample(p, b, i) ==
  LET k == (b - 1) * BlockLength + i IN IF k <= Len(p) THEN p[k] ELSE 0

Magnitudes(b) == [i \in 1..BlockLength |-> Abs(Sample(pulses, b, i))]

Halved(s, r) == [i \in DOMAIN s |-> s[i] \div 2 ^ r]

Combined(s) == [i \in 1..(Len(s) \div 2) |-> s[2 * i - 1] + s[2 * i]]

(* The sums of a block: of pairs at level 1, of everything at Depth.       *)
Sums(s) == LET L[k \in 0..Depth] == IF k = 0 THEN s ELSE Combined(L[k - 1]) IN L

TooMany(s) == \E k \in 1..Depth : \E i \in DOMAIN Sums(s)[k] : Sums(s)[k][i] > Limits[k]

(* How often a block is halved.                                            *)
Shifts(s) ==
  CHOOSE r \in 0..(2 * MaxLsb) :
    ~TooMany(Halved(s, r)) /\ \A q \in 0..(r - 1) : TooMany(Halved(s, q))

(***************************************************************************)
(* The writer.                                                             *)
(***************************************************************************)
SumsTable(rate) == <<"sum", rate>>
EscapeTable == <<"sum", -1>>
CutTable == <<"sum", -2>>
SplitTable(level, total) == <<"split", level, total>>
LsbTable == <<"lsb">>
SignTable(total) == <<"sign", Least(total, MaxSign)>>

Onward(this, next) ==
  IF block < Blocks THEN stage' = this /\ block' = block + 1
  ELSE stage' = next /\ block' = 1

WriteRate ==
  /\ stage = "rate"
  /\ enc' = [b \in 1..Blocks |->
               LET r == Shifts(Magnitudes(b))
               IN [shifts |-> r, sum |-> Sums(Halved(Magnitudes(b), r))[Depth][1]]]
  /\ \E rate \in Rates : wire' = <<SymbolOf(<<"rate">>, rate)>>
  /\ stage' = "sums" /\ UNCHANGED <<pulses, block, dec, foreign>>

Repeated(x, n) == [i \in 1..n |-> x]

WriteSum ==
  /\ stage = "sums"
  /\ LET base == SumsTable(wire[1].sym)
         e == enc[block]
     IN wire' = wire \o
          IF e.shifts = 0 THEN <<SymbolOf(base, e.sum)>>
          ELSE <<SymbolOf(base, Escape)>> \o Repeated(SymbolOf(EscapeTable, Escape), e.shifts - 1)
               \o <<SymbolOf(EscapeTable, e.sum)>>
  /\ Onward("sums", "shells") /\ UNCHANGED <<pulses, enc, dec, foreign>>

(* How total pulses at node i of a level divide, and what is below.        *)
RECURSIVE Splits(_, _, _)
Splits(L, level, i) ==
  IF level = 0 THEN <<>>
  ELSE (IF L[level][i] > 0 THEN <<SymbolOf(SplitTable(level, L[level][i]), L[level - 1][2 * i - 1])>> ELSE <<>>)
       \o Splits(L, level - 1, 2 * i - 1) \o Splits(L, level - 1, 2 * i)

WriteShell ==
  /\ stage = "shells"
  /\ wire' = wire \o
       IF enc[block].sum > 0 THEN Splits(Sums(Halved(Magnitudes(block), enc[block].shifts)), Depth, 1)
       ELSE <<>>
  /\ Onward("shells", "lsbs") /\ UNCHANGED <<pulses, enc, dec, foreign>>

(* The bits that were halved away, the highest first.                      *)
LowBits(v, n) == [k \in 1..n |-> SymbolOf(LsbTable, (v \div 2 ^ (n - k)) % 2)]

WriteLsbs ==
  /\ stage = "lsbs"
  /\ wire' = wire \o FlattenSeq([i \in 1..BlockLength |-> LowBits(Magnitudes(block)[i], enc[block].shifts)])
  /\ Onward("lsbs", "signs") /\ UNCHANGED <<pulses, enc, dec, foreign>>

WriteSigns ==
  /\ stage = "signs"
  /\ wire' = wire \o
       IF enc[block].sum > 0 /\ block <= SignBlocks(Len(pulses)) THEN
         LET Signed == SelectSeq([i \in 1..BlockLength |-> Sample(pulses, block, i)], LAMBDA v : v # 0)
         IN [k \in DOMAIN Signed |-> SymbolOf(SignTable(enc[block].sum), IF Signed[k] < 0 THEN 0 ELSE 1)]
       ELSE <<>>
  /\ Onward("signs", "read rate") /\ UNCHANGED <<pulses, enc, dec, foreign>>

(***************************************************************************)
(* The reader.  A symbol that was written with another table is taken for  *)
(* the first of the one asked for, and ok falls.                           *)
(***************************************************************************)
ReadSymbol(at, table) ==
  IF at <= Len(wire) /\ wire[at].table = table THEN [sym |-> wire[at].sym, ok |-> TRUE]
  ELSE [sym |-> 0, ok |-> FALSE]

ReadRate ==
  /\ stage = "read rate"
  /\ LET r == ReadSymbol(1, <<"rate">>)
     IN \E rate \in IF foreign THEN Rates ELSE {r.sym} :
          dec' = [at |-> 2, ok |-> foreign \/ r.ok, rate |-> rate, pulses |-> <<>>,
                  sums |-> [b \in 1..Blocks |-> 0], shifts |-> [b \in 1..Blocks |-> 0]]
  /\ stage' = "read sums" /\ UNCHANGED <<pulses, block, enc, wire, foreign>>

SumTable(shifts) ==
  CASE shifts = 0 -> SumsTable(dec.rate)
    [] shifts = MaxLsb -> CutTable
    [] OTHER -> EscapeTable

ReadSum ==
  /\ stage = "read sums"
  /\ LET table == SumTable(dec.shifts[block])
         r == ReadSymbol(dec.at, table)
     IN \E s \in IF foreign THEN 0..(IF table = CutTable THEN Escape - 1 ELSE Escape) ELSE {r.sym} :
          /\ \/ /\ s = Escape /\ dec.shifts[block] <= MaxLsb
                /\ dec' = [dec EXCEPT !.at = @ + 1, !.ok = @ /\ (foreign \/ r.ok), !.shifts[block] = @ + 1]
                /\ UNCHANGED <<stage, block>>
             \/ /\ s # Escape
                /\ dec' = [dec EXCEPT !.at = @ + 1, !.ok = @ /\ (foreign \/ r.ok), !.sums[block] = s]
                /\ Onward("read sums", "read shells")
  /\ UNCHANGED <<pulses, enc, wire, foreign>>

(* The pulses below a node with total pulses, from c on.                   *)
RECURSIVE ReadTree(_, _, _)
ReadTree(level, total, c) ==
  IF level = 0 THEN [c EXCEPT !.got = Append(@, total)]
  ELSE IF total = 0 THEN [c EXCEPT !.got = @ \o Repeated(0, 2 ^ level)]
  ELSE LET r == ReadSymbol(c.at, SplitTable(level, total))
           left == ReadTree(level - 1, r.sym, [c EXCEPT !.at = @ + 1, !.ok = @ /\ r.ok])
       IN ReadTree(level - 1, total - r.sym, left)

(* All of the pulses in one place, or as even as they go: what the tables  *)
(* of another encoder's block may come to.                                 *)
AnyBlock(total) ==
  {[i \in 1..BlockLength |-> IF i = k THEN total ELSE 0] : k \in {1, BlockLength}}
  \cup {[i \in 1..BlockLength |-> (total + i - 1) \div BlockLength]}

ReadShell ==
  /\ stage = "read shells"
  /\ LET c == IF dec.sums[block] = 0 THEN [at |-> dec.at, ok |-> TRUE, got |-> Repeated(0, BlockLength)]
              ELSE ReadTree(Depth, dec.sums[block], [at |-> dec.at, ok |-> TRUE, got |-> <<>>])
     IN \E got \in IF foreign THEN AnyBlock(dec.sums[block]) ELSE {c.got} :
          dec' = [dec EXCEPT !.at = c.at, !.ok = @ /\ (foreign \/ c.ok), !.pulses = @ \o got]
  /\ Onward("read shells", "read lsbs") /\ UNCHANGED <<pulses, enc, wire, foreign>>

RECURSIVE ReadBits(_, _, _)
ReadBits(v, n, c) ==
  IF n = 0 THEN [c EXCEPT !.got = Append(@, v)]
  ELSE LET r == ReadSymbol(c.at, LsbTable)
       IN ReadBits(2 * v + r.sym, n - 1, [c EXCEPT !.at = @ + 1, !.ok = @ /\ r.ok])

RECURSIVE ReadLow(_, _)
ReadLow(i, c) ==
  IF i > BlockLength THEN c
  ELSE ReadLow(i + 1, ReadBits(dec.pulses[(block - 1) * BlockLength + i], dec.shifts[block], c))

(* A block with low bits has signs even if nothing was above them.         *)
WithShifts(sum, shifts) == sum + 32 * shifts

ReadLsbs ==
  /\ stage = "read lsbs"
  /\ LET c == ReadLow(1, [at |-> dec.at, ok |-> TRUE, got |-> <<>>])
         n == dec.shifts[block]
         Raised(low) == [i \in 1..BlockLength |-> 2 ^ n * dec.pulses[(block - 1) * BlockLength + i] + low]
     IN \E got \in IF foreign THEN {Raised(0), Raised(2 ^ n - 1)} ELSE {c.got} :
          dec' = [dec EXCEPT !.at = IF foreign THEN @ ELSE c.at, !.ok = @ /\ (foreign \/ c.ok),
                             !.sums[block] = WithShifts(@, n),
                             !.pulses = [k \in DOMAIN @ |->
                                IF k \in ((block - 1) * BlockLength + 1)..(block * BlockLength)
                                THEN got[k - (block - 1) * BlockLength] ELSE @[k]]]
  /\ Onward("read lsbs", "read signs") /\ UNCHANGED <<pulses, enc, wire, foreign>>

RECURSIVE ReadSign(_, _, _)
ReadSign(i, table, c) ==
  LET k == (block - 1) * BlockLength + i
      r == ReadSymbol(c.at, table)
  IN IF i > BlockLength \/ k > Len(pulses) THEN c
     ELSE IF c.got[k] = 0 THEN ReadSign(i + 1, table, c)
     ELSE ReadSign(i + 1, table, [at |-> c.at + 1, ok |-> c.ok /\ (foreign \/ r.ok),
                                  got |-> [c.got EXCEPT ![k] = IF r.sym = 0 THEN -@ ELSE @]])

ReadSigns ==
  /\ stage = "read signs"
  /\ LET c == ReadSign(1, SignTable(dec.sums[block] % 32), [at |-> dec.at, ok |-> TRUE, got |-> dec.pulses])
     IN dec' = IF dec.sums[block] > 0 /\ block <= SignBlocks(Len(pulses))
               THEN [dec EXCEPT !.at = c.at, !.ok = @ /\ c.ok, !.pulses = c.got]
               ELSE dec
  /\ Onward("read signs", "end") /\ UNCHANGED <<pulses, enc, wire, foreign>>

Init ==
  /\ pulses \in Frames /\ block = 1 /\ enc = <<>> /\ wire = <<>> /\ dec = [at |-> 1]
  /\ \/ stage = "rate" /\ foreign = FALSE
     \/ stage = "read rate" /\ foreign = TRUE /\ Foreign

Next ==
  \/ WriteRate \/ WriteSum \/ WriteShell \/ WriteLsbs \/ WriteSigns
  \/ ReadRate \/ ReadSum \/ ReadShell \/ ReadLsbs \/ ReadSigns

Spec == Init /\ [][Next]_vars

(***************************************************************************)
(* Properties.                                                             *)
(***************************************************************************)
Reading == stage \notin {"rate", "sums", "shells", "lsbs", "signs", "read rate"}

TypeOK ==
  /\ block \in 1..Blocks /\ foreign \in BOOLEAN
  /\ Reading => /\ dec.rate \in Rates /\ Len(dec.pulses) <= Blocks * BlockLength
                /\ dec.at \in 1..(Len(wire) + 1) \/ foreign

(* Every symbol is read from the table it was written with.                *)
InStep == Reading => dec.ok

(* The frame read is the frame written, with nothing behind its end, and   *)
(* no symbol is left for what comes next in the packet.                    *)
FrameComesBack ==
  stage = "end" /\ ~foreign =>
    /\ SubSeq(dec.pulses, 1, Len(pulses)) = pulses
    /\ \A k \in (Len(pulses) + 1)..Len(dec.pulses) : dec.pulses[k] = 0
    /\ dec.at = Len(wire) + 1

(* A symbol written is one of its table's.                                 *)
InTable(s) ==
  CASE s.table[1] = "split" -> s.table[3] <= Limits[s.table[2]] /\ s.sym \in 0..s.table[3]
    [] s.table[1] = "sum" -> s.sym \in 0..Escape
    [] s.table[1] \in {"lsb", "sign"} -> s.sym \in {0, 1}
    [] OTHER -> s.sym \in Rates
EverySymbolInItsTable == \A i \in DOMAIN wire : InTable(wire[i])

(* Whatever the symbols are, a pulse read fits the 16 bits it has.         *)
FitsItsWord ==
  Reading => \A k \in DOMAIN dec.pulses : Abs(dec.pulses[k]) <= 32767
=============================================================================
