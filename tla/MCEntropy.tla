------------------------------ MODULE MCEntropy ------------------------------
(***************************************************************************)
(* What goes through a packet symbol by symbol: the range coder            *)
(* (RangeCoding, with bytes of 2 bits in registers of 8: four to a         *)
(* register, as in the code), SILK's pulses, the numbers of CELT's         *)
(* vectors, and energies and latents.  `part' says which of them a         *)
(* behaviour is about; a variable of the others is left at None.          *)
(***************************************************************************)
EXTENDS RangeCoding, SequencesExt

VARIABLES
    part,                                   \* "payload", "pulses", ...
    pulses, block, codes, wire, read, foreign,  \* of SilkPulses
    n, k, index,                            \* of PulseCoding
    start, decay, at                        \* of LaplaceCoding

pulseVars == <<pulses, block, codes, wire, read, foreign>>
shapeVars == <<n, k, index>>
energyVars == <<start, decay, at>>

-----------------------------------------------------------------------------
Item(kind, table, values) == {[kind |-> kind, table |-> table, value |-> v] : v \in values}

\* A skewed table, an even one with remainder, integers with and without raw
\* bits, and raw bits enough to fill the window.
MixedItems ==
    Item("symbol", <<0, 3, 4, 5>>, 1..3) \cup Item("symbol", <<0, 1, 3>>, 1..2)
      \cup Item("uint", <<7>>, {0, 3, 6}) \cup Item("bits", <<3>>, {2, 7})
      \cup Item("header", <<2>>, {1, 2})

\* What SILK writes.
SilkItems ==
    Item("symbol", <<0, 3, 4, 5>>, 1..3) \cup Item("symbol", <<0, 1, 3>>, 1..2)
      \cup Item("uint", <<4>>, {0, 3}) \cup Item("header", <<2>>, 0..3)

MCUsers == {"celt", "silk"}
MCItems == [celt |-> MixedItems, silk |-> SilkItems]
MCStorages == [celt |-> {1, 3, 6}, silk |-> {6}]
MCDamages == [celt |-> {}, silk |-> {0, 3}]

-----------------------------------------------------------------------------
\* Blocks of four: whatever is in the first, and a few things in half a second one.
SmallFrames ==
    {a \o b : a \in [1..4 -> {-9, -3, 0, 1, 2, 4}],
              b \in {<<0, 0>>, <<-1, 1>>, <<3, 0>>, <<0, -7>>}}

\* The real blocks: 10 ms at 12 kHz, so seven and a half of them.  Blocks at
\* their limits at each level, one over, and far over.
RealLimits == <<8, 10, 12, 16>>
With(f) == [i \in 1..16 |-> IF i \in DOMAIN f THEN f[i] ELSE 0]
RealBlocks ==
    <<With(<<8>>), With(<<-5, 4>>), With(<<4, 4, -2, 1>>), With(<<3, 0, 3, 0, 3, 0, 3, 0>>),
      With(<<4, 0, 3, 0, 3, 0, 3>>), [i \in 1..16 |-> 1], [i \in 1..16 |-> IF i = 9 THEN -2 ELSE 1],
      [i \in 1..16 |-> -128], [i \in 1..16 |-> 0], With(<<127, 0, 0, -1>>)>>
RealFrames ==
    {FlattenSeq([b \in 1..7 |-> RealBlocks[((from + b) % 10) + 1]])
       \o SubSeq(RealBlocks[from], 1, 8) : from \in 1..10}

\* Where another encoder's frames go: one block, and half of one.
BareFrames == {[i \in 1..size |-> 0] : size \in {8, 16}}

Small == INSTANCE SilkPulses WITH
             Limits <- <<2, 4>>, MaxLsb <- 4, Rates <- {0, 1}, Frames <- SmallFrames,
             Foreign <- FALSE, stage <- stage, enc <- codes, dec <- read
Real  == INSTANCE SilkPulses WITH
             Limits <- RealLimits, MaxLsb <- 10, Rates <- {4}, Frames <- RealFrames,
             Foreign <- FALSE, stage <- stage, enc <- codes, dec <- read
Other == INSTANCE SilkPulses WITH
             Limits <- RealLimits, MaxLsb <- 10, Rates <- {4}, Frames <- BareFrames,
             Foreign <- TRUE, stage <- stage, enc <- codes, dec <- read

-----------------------------------------------------------------------------
\* All vectors of few elements and pulses; and of the table, all bands: a band has
\* up to 176 elements, halves of bands included, and no more than 128 pulses.
Shape == INSTANCE PulseCoding WITH
             Dims <- 2..5, Pulses <- 1..5, BandDims <- 2..176, BandPulses <- 1..128

-----------------------------------------------------------------------------
EProbModel ==
  {<<21, 178>>, <<22, 178>>, <<23, 178>>, <<24, 179>>, <<42, 121>>,
   <<48, 138>>, <<53, 134>>, <<54, 115>>, <<54, 132>>, <<54, 135>>,
   <<55, 132>>, <<56, 133>>, <<59, 110>>, <<61, 90>>, <<61, 114>>,
   <<62, 128>>, <<63, 102>>, <<63, 114>>, <<64, 128>>, <<65, 128>>,
   <<65, 129>>, <<66, 98>>, <<66, 128>>, <<69, 99>>, <<70, 96>>, <<71, 86>>,
   <<71, 91>>, <<72, 127>>, <<73, 91>>, <<74, 82>>, <<74, 88>>, <<74, 89>>,
   <<75, 85>>, <<75, 88>>, <<77, 40>>, <<77, 42>>, <<77, 45>>, <<78, 50>>,
   <<78, 89>>, <<83, 78>>, <<84, 81>>, <<84, 83>>, <<86, 74>>, <<86, 80>>,
   <<87, 71>>, <<87, 72>>, <<87, 74>>, <<88, 73>>, <<88, 75>>, <<89, 66>>,
   <<90, 73>>, <<90, 79>>, <<91, 66>>, <<91, 67>>, <<92, 66>>, <<92, 75>>,
   <<92, 78>>, <<92, 79>>, <<92, 82>>, <<93, 60>>, <<93, 64>>, <<93, 74>>,
   <<96, 66>>, <<96, 67>>, <<96, 72>>, <<97, 33>>, <<97, 38>>, <<97, 43>>,
   <<98, 35>>, <<98, 72>>, <<100, 59>>, <<101, 73>>, <<102, 59>>,
   <<103, 60>>, <<103, 62>>, <<104, 60>>, <<105, 42>>, <<105, 58>>,
   <<107, 41>>, <<107, 54>>, <<107, 72>>, <<108, 43>>, <<108, 50>>,
   <<109, 40>>, <<110, 45>>, <<111, 40>>, <<112, 38>>, <<112, 56>>,
   <<113, 38>>, <<113, 55>>, <<114, 36>>, <<114, 40>>, <<114, 55>>,
   <<115, 40>>, <<115, 52>>, <<116, 38>>, <<116, 41>>, <<117, 34>>,
   <<117, 44>>, <<117, 52>>, <<117, 55>>, <<118, 52>>, <<119, 33>>,
   <<120, 36>>, <<120, 40>>, <<122, 37>>, <<123, 32>>, <<123, 44>>,
   <<124, 26>>, <<125, 52>>, <<127, 33>>, <<129, 51>>, <<132, 26>>,
   <<132, 27>>, <<132, 40>>, <<133, 31>>, <<134, 34>>, <<135, 49>>,
   <<136, 19>>, <<137, 39>>, <<138, 35>>, <<139, 15>>, <<139, 21>>,
   <<140, 20>>, <<140, 29>>, <<143, 17>>, <<145, 17>>, <<145, 18>>,
   <<145, 29>>, <<146, 19>>, <<147, 23>>, <<150, 13>>, <<150, 33>>,
   <<152, 20>>, <<154, 26>>, <<155, 14>>, <<157, 32>>, <<158, 18>>,
   <<158, 25>>, <<159, 10>>, <<159, 16>>, <<161, 12>>, <<162, 12>>,
   <<165, 10>>, <<166, 21>>, <<170, 13>>, <<173, 16>>, <<175, 9>>,
   <<176, 10>>, <<177, 9>>, <<177, 10>>, <<177, 11>>, <<178, 7>>,
   <<184, 10>>, <<184, 13>>, <<187, 8>>, <<189, 6>>, <<190, 8>>, <<192, 6>>}

\* E_PROB_MODEL, every pair of it, and latents with every kind of decay.
Energy == INSTANCE LaplaceCoding WITH
              Models <- {<<128 * d[1], 64 * d[2]>> : d \in EProbModel},
              Decays <- {1, 2, 3, 5, 8, 13, 32, 64, 100, 128, 180, 200, 240, 254, 255},
              Zeros <- {1, 2, 127, 128, 253, 254}, MaxMagnitude <- 40

ASSUME /\ Small!PulsesAssumption /\ Real!PulsesAssumption /\ Other!PulsesAssumption
       /\ Shape!PulseAssumption /\ Energy!LaplaceAssumption

-----------------------------------------------------------------------------
None == "none"
NoPayload ==
    /\ user = None /\ enc = None /\ sent = None /\ tells = None /\ buf = None
    /\ damaged = None /\ dec = None /\ silk = None /\ got = None
NoPulses == pulses = None /\ block = None /\ codes = None /\ wire = None /\ read = None /\ foreign = None
NoShape == n = None /\ k = None /\ index = None
NoEnergy == start = None /\ decay = None /\ at = None

MCInit ==
    \/ part = "payload" /\ Init /\ NoPulses /\ NoShape /\ NoEnergy
    \/ /\ NoPayload /\ NoShape /\ NoEnergy
       /\ \/ part = "small pulses" /\ Small!Init
          \/ part = "pulses" /\ Real!Init
          \/ part = "other's pulses" /\ Other!Init
    \/ /\ NoPayload /\ stage = None /\ NoPulses /\ NoEnergy
       /\ \/ part = "shape" /\ Shape!Init
          \/ part = "table" /\ Shape!TableInit
    \/ /\ NoPayload /\ stage = None /\ NoPulses /\ NoShape
       /\ \/ part = "energy" /\ Energy!Init
          \/ part = "latent" /\ Energy!LatentInit

payloadVars == <<user, enc, sent, tells, buf, damaged, dec, silk, got>>

MCNext ==
    \/ part = "payload" /\ Next /\ UNCHANGED <<part, pulseVars, shapeVars, energyVars>>
    \/ part = "small pulses" /\ Small!Next /\ UNCHANGED <<part, payloadVars, shapeVars, energyVars>>
    \/ part = "pulses" /\ Real!Next /\ UNCHANGED <<part, payloadVars, shapeVars, energyVars>>
    \/ part = "other's pulses" /\ Other!Next /\ UNCHANGED <<part, payloadVars, shapeVars, energyVars>>
    \/ part = "shape" /\ Shape!Count /\ UNCHANGED <<part, vars, pulseVars, energyVars>>
    \/ part = "table" /\ Shape!Descend /\ UNCHANGED <<part, vars, pulseVars, energyVars>>
    \/ part = "energy" /\ Energy!NextValue /\ UNCHANGED <<part, vars, pulseVars, shapeVars>>
    \/ part = "latent" /\ Energy!Larger /\ UNCHANGED <<part, vars, pulseVars, shapeVars>>

MCSpec == MCInit /\ [][MCNext]_<<part, vars, pulseVars, shapeVars, energyVars>>

-----------------------------------------------------------------------------
\* entenc.rs, entdec.rs and range.rs: what is read is what was written, from the
\* same positions, however the buffer was filled and cut, by both decoders, from
\* damaged payloads too; what tell() says fits does fit, and finish() leaves SILK's
\* payload too short to be searched for redundancy.
PayloadsComeThrough ==
    part = "payload" =>
      /\ TypeOK /\ RoundTrip /\ TellsAgree /\ FinalRangesAgree
      /\ RoomIsEnough /\ NotTakenForRedundancy
      /\ user = "silk" => DecodersAgree

\* silk_encode_pulses and silk_decode_pulses: a frame comes back whatever its blocks
\* hold, symbol by symbol from the tables it was written with; another encoder's
\* pulses fit their 16 bits.  cwrs.rs: encoder and both decoders number the same
\* vectors alike, all of them; and a vector begun in the table is in it to the end.
PulsesComeBack ==
    /\ part = "small pulses" =>
         Small!TypeOK /\ Small!InStep /\ Small!FrameComesBack /\ Small!EverySymbolInItsTable
    /\ part = "pulses" => Real!InStep /\ Real!FrameComesBack /\ Real!EverySymbolInItsTable
    /\ part = "other's pulses" => Other!FitsItsWord
    /\ part = "shape" => Shape!RoundTrip /\ Shape!EveryVector
    /\ part = "table" => Shape!StaysInTable

\* laplace.rs: every place stands for the value it was given to, and what cannot be
\* sent is replaced alike at both ends; latents are read back from their digits.
EnergiesComeBack ==
    /\ part = "energy" => Energy!EveryPlaceHasAValue /\ Energy!ToldWhatIsSent
    /\ part = "latent" => Energy!DigitsAreRead /\ Energy!EverySymbolHasPlace
=============================================================================
