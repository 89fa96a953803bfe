-------------------------- MODULE PacketProofs ---------------------------
(***************************************************************************)
(* What is written into a packet and what is read of it, for every MaxByte *)
(* and every packet: the size of a frame, the length of a padding, the     *)
(* positions of the frames.                                                *)
(***************************************************************************)
EXTENDS Repacketizer, SequenceTheorems, WellFoundedInduction, TLAPS

-------------------------------------------------------------------------------
(***************************************************************************)
(* Induction.  The facts it needs are sets, so that the provers can use    *)
(* them: a set of numbers that is not empty has a least one.  It gives a   *)
(* recursive function its equations, and an invariant of its steps.        *)
(***************************************************************************)

\* A set of numbers has a least one.
LEMMA LeastNumber ==
    ASSUME NEW S, S \subseteq Nat, S # {}
    PROVE  \E n \in S : \A m \in S : n <= m
    <1>. DEFINE R == OpToRel(<, Nat)
    <1>1. IsWellFoundedOn(R, Nat)
        BY NatLessThanWellFounded
    <1>2. \E n \in S : \A m \in S : ~(<<m, n>> \in R)
        BY <1>1, WFMin
    <1>3. PICK n \in S : \A m \in S : ~(<<m, n>> \in R)
        BY <1>2
    <1>4. ASSUME NEW m \in S PROVE n <= m
        <2>1. ~(<<m, n>> \in R)
            BY <1>3
        <2>2. m < n => <<m, n>> \in R
            BY DEF OpToRel
        <2>3. ~(m < n)
            BY <2>1, <2>2
        <2>4. m \in Nat /\ n \in Nat
            OBVIOUS
        <2>. QED BY <2>3, <2>4
    <1>. QED BY <1>4

\* A set with 0 and every successor of its numbers has them all.
LEMMA Inductive ==
    ASSUME NEW S, 0 \in S, \A n \in Nat : n \in S => n + 1 \in S
    PROVE  Nat \subseteq S
    <1>. SUFFICES ASSUME Nat \ S # {} PROVE FALSE
        OBVIOUS
    <1>1. PICK n \in Nat \ S : \A m \in Nat \ S : n <= m
        BY LeastNumber
    <1>2. n # 0 /\ n - 1 \in Nat /\ ~(n <= n - 1)
        BY <1>1
    <1>3. n - 1 \in S
        BY <1>1, <1>2
    <1>4. n - 1 + 1 \in S /\ n - 1 + 1 = n
        BY <1>2, <1>3
    <1>. QED BY <1>4

\* f takes the steps of G from a, up to n of them, and stays in T.
Steps(n, T, a, G, f) ==
    /\ f \in [0..n -> T] /\ f[0] = a
    /\ \A k \in 1..n : f[k] = G[k][f[k - 1]]

\* A recursion over numbers has a value at each of them, in the set its steps stay in.
LEMMA Recursion ==
    ASSUME NEW T, NEW a \in T, NEW G \in [Nat -> [T -> T]]
    PROVE  \A n \in Nat : \E f : Steps(n, T, a, G, f)
    <1>. DEFINE S == {n \in Nat : \E f : Steps(n, T, a, G, f)}
    <1>1. 0 \in S
        <2>1. Steps(0, T, a, G, [k \in 0..0 |-> a])
            BY DEF Steps
        <2>. QED BY <2>1
    <1>2. ASSUME NEW n \in Nat, n \in S
          PROVE  n + 1 \in S
        <2>1. PICK f : Steps(n, T, a, G, f)
            BY <1>2
        <2>. DEFINE g == [k \in 0..(n + 1) |-> IF k = n + 1 THEN G[n + 1][f[n]] ELSE f[k]]
        <2>2. f[n] \in T /\ G[n + 1][f[n]] \in T
            BY <2>1 DEF Steps
        <2>3. g \in [0..(n + 1) -> T] /\ g[0] = a
            BY <2>1, <2>2 DEF Steps
        <2>4. ASSUME NEW k \in 1..(n + 1)
              PROVE  g[k] = G[k][g[k - 1]]
            <3>1. CASE k = n + 1
                <4>1. g[k] = G[n + 1][f[n]] /\ g[k - 1] = f[n]
                    BY <3>1
                <4>. QED BY <3>1, <4>1
            <3>2. CASE k # n + 1
                <4>1. k \in 1..n /\ k \in 0..(n + 1) /\ k - 1 \in 0..(n + 1) /\ k - 1 # n + 1
                    BY <3>2
                <4>2. g[k] = f[k] /\ g[k - 1] = f[k - 1]
                    BY <3>2, <4>1
                <4>3. f[k] = G[k][f[k - 1]]
                    BY <2>1, <4>1 DEF Steps
                <4>. QED BY <4>2, <4>3
            <3>. QED BY <3>1, <3>2
        <2>. HIDE DEF g
        <2>5. Steps(n + 1, T, a, G, g)
            BY <2>3, <2>4 DEF Steps
        <2>. QED BY <2>5
    <1>. HIDE DEF S
    <1>3. Nat \subseteq S
        BY <1>1, <1>2, Inductive
    <1>. QED BY <1>3 DEF S


-------------------------------------------------------------------------------
(***************************************************************************)
(* Sequences of bytes.                                                     *)
(***************************************************************************)

\* The quotient and the remainder of a division.
LEMMA Division ==
    ASSUME NEW n \in Nat, NEW d \in Nat \ {0}
    PROVE  /\ n \div d \in Nat
           /\ n - (n \div d) * d \in 0..(d - 1)
    OBVIOUS

\* What follows the first bytes.
LEMMA Rest ==
    ASSUME NEW packet \in Bytes, NEW at \in 0..Len(packet)
    PROVE  /\ SubSeq(packet, at + 1, Len(packet)) \in Bytes
           /\ Len(SubSeq(packet, at + 1, Len(packet))) = Len(packet) - at
           /\ \A n \in 1..(Len(packet) - at) :
                SubSeq(packet, at + 1, Len(packet))[n] = packet[at + n]
    <1>1. /\ Len(packet) \in Nat /\ at \in Nat /\ at <= Len(packet)
          /\ \A i \in 1..Len(packet) : packet[i] \in Nat
        BY DEF Bytes
    <1>. DEFINE from == at + 1
                to == Len(packet)
                s == SubSeq(packet, from, to)
    <1>2. /\ from \in Int /\ to \in Int /\ from <= to + 1 /\ to - from + 1 = Len(packet) - at
          /\ \A i \in from..to : packet[i] \in Nat
          /\ \A n \in 1..(Len(packet) - at) : from + n - 1 = at + n
        BY <1>1
    <1>. HIDE DEF from, to
    <1>3. /\ s \in Seq(Nat)
          /\ Len(s) = IF from <= to THEN to - from + 1 ELSE 0
          /\ \A i \in 1..(to - from + 1) : s[i] = packet[from + i - 1]
        BY <1>2, SubSeqProperties
    <1>. HIDE DEF s
    <1>4. Len(s) = Len(packet) - at
        BY <1>2, <1>3
    <1>5. \A n \in 1..(Len(packet) - at) : s[n] = packet[at + n]
        BY <1>2, <1>3
    <1>. QED BY <1>3, <1>4, <1>5 DEF s, from, to, Bytes

\* A part of a packet.
LEMMA SubSeqBytes ==
    ASSUME NEW packet \in Bytes, NEW a \in Int, a >= 1, NEW b \in Int, b <= Len(packet)
    PROVE  SubSeq(packet, a, b) \in Bytes
    <1>1. Len(packet) \in Nat /\ \A i \in a..b : packet[i] \in Nat
        BY DEF Bytes
    <1>. QED BY <1>1, SubSeqProperties DEF Bytes

\* The middle one of three sequences.
LEMMA Middle ==
    ASSUME NEW before \in Bytes, NEW mid \in Bytes, NEW after \in Bytes
    PROVE  /\ before \o mid \o after \in Bytes
           /\ Len(before \o mid \o after) = Len(before) + Len(mid) + Len(after)
           /\ \A n \in 1..Len(mid) : (before \o mid \o after)[Len(before) + n] = mid[n]
    BY DEF Bytes

\* Two sequences, and one between two others.
LEMMA Joined ==
    ASSUME NEW a \in Bytes, NEW z \in Bytes
    PROVE  /\ a \o z \in Bytes /\ Len(a \o z) = Len(a) + Len(z)
           /\ SubSeq(a \o z, 1, Len(a)) = a
           /\ SubSeq(a \o z, Len(a) + 1, Len(a \o z)) = z
           /\ \A n \in 1..Len(a) : (a \o z)[n] = a[n]
    <1>. DEFINE r == a \o z
    <1>1. /\ Len(a) \in Nat /\ Len(z) \in Nat /\ r \in Bytes /\ Len(r) = Len(a) + Len(z)
          /\ \A n \in 1..Len(a) : r[n] = a[n]
          /\ \A n \in 1..Len(z) : r[Len(a) + n] = z[n]
        BY DEF Bytes
    <1>. HIDE DEF r
    <1>2. SubSeq(r, 1, Len(a)) = a
        <2>1. /\ SubSeq(r, 1, Len(a)) \in Seq(Nat) /\ Len(SubSeq(r, 1, Len(a))) = Len(a)
              /\ \A n \in 1..Len(a) : SubSeq(r, 1, Len(a))[n] = a[n]
            BY <1>1 DEF Bytes
        <2>. QED BY <1>1, <2>1, SeqEqual DEF Bytes
    <1>3. SubSeq(r, Len(a) + 1, Len(r)) = z
        <2>1. /\ SubSeq(r, Len(a) + 1, Len(r)) \in Seq(Nat)
              /\ Len(SubSeq(r, Len(a) + 1, Len(r))) = Len(z)
              /\ \A n \in 1..Len(z) : SubSeq(r, Len(a) + 1, Len(r))[n] = z[n]
            <3>1. Len(a) \in 0..Len(r) /\ Len(r) - Len(a) = Len(z)
                BY <1>1
            <3>. QED BY <1>1, <3>1, Rest DEF Bytes
        <2>. QED BY <1>1, <2>1, SeqEqual DEF Bytes
    <1>. QED BY <1>1, <1>2, <1>3 DEF r

\* The middle of three sequences is read where it stands.
LEMMA Between ==
    ASSUME NEW a \in Bytes, NEW m \in Bytes, NEW z \in Bytes
    PROVE  SubSeq((a \o m) \o z, Len(a) + 1, Len(a) + Len(m)) = m
    <1>. DEFINE r == (a \o m) \o z
    <1>1. /\ Len(a) \in Nat /\ Len(m) \in Nat /\ r \in Bytes
          /\ Len(r) = Len(a) + Len(m) + Len(z) /\ Len(z) \in Nat
          /\ \A n \in 1..Len(m) : r[Len(a) + n] = m[n]
        BY DEF Bytes
    <1>. HIDE DEF r
    <1>. DEFINE s == SubSeq(r, Len(a) + 1, Len(a) + Len(m))
    <1>2. s \in Seq(Nat) /\ Len(s) = Len(m) /\ \A n \in 1..Len(m) : s[n] = m[n]
        <2>. DEFINE from == Len(a) + 1
                    to == Len(a) + Len(m)
        <2>1. /\ from \in Int /\ to \in Int /\ to - from + 1 = Len(m) /\ from <= to + 1
              /\ \A n \in 1..Len(m) : from + n - 1 = Len(a) + n
              /\ from >= 1 /\ to <= Len(r)
            BY <1>1
        <2>2. s = SubSeq(r, from, to)
            OBVIOUS
        <2>. HIDE DEF from, to, s
        <2>3. /\ Len(s) = Len(m) /\ s \in Seq(Nat)
              /\ \A n \in 1..Len(m) : s[n] = r[from + n - 1]
            <3>1. \A i \in from..to : r[i] \in Nat
                BY <1>1, <2>1, SMTT(30) DEF Bytes
            <3>2. /\ SubSeq(r, from, to) \in Seq(Nat)
                  /\ Len(SubSeq(r, from, to)) = IF from <= to THEN to - from + 1 ELSE 0
                  /\ \A i \in 1..(to - from + 1) : SubSeq(r, from, to)[i] = r[from + i - 1]
                BY <2>1, <3>1, SubSeqProperties
            <3>3. from <= to \/ Len(m) = 0
                BY <1>1, <2>1
            <3>. QED BY <2>1, <2>2, <3>2, <3>3
        <2>. QED BY <1>1, <2>1, <2>3
    <1>. HIDE DEF s
    <1>3. s = m
        BY <1>1, <1>2, SeqEqual DEF Bytes
    <1>. QED BY <1>3 DEF r, s

\* Appending is associative.
LEMMA Appended ==
    ASSUME NEW a \in Seq(Nat), NEW b \in Seq(Nat), NEW c \in Seq(Nat)
    PROVE  (a \o b) \o c = a \o (b \o c)
    OBVIOUS


-------------------------------------------------------------------------------
(***************************************************************************)
(* The size of a frame.                                                    *)
(***************************************************************************)

\* The quotient and the remainder by 4, as the provers need them.
LEMMA QuarterOf ==
    ASSUME NEW n \in Nat
    PROVE  /\ n % 4 \in 0..3
           /\ n \div 4 \in Nat
           /\ n = 4 * (n \div 4) + (n % 4)
    OBVIOUS

\* encode_size writes bytes: the second, too, is at most MaxByte.
LEMMA EncodeSizeBytes ==
    ASSUME NEW size \in 0..MaxFrameBytes
    PROVE  /\ size < Escape => EncodeSize(size) = <<size>>
           /\ size >= Escape =>
                \E first \in Escape..MaxByte, second \in 0..MaxByte :
                  /\ EncodeSize(size) = <<first, second>>
                  /\ size = 4 * second + first
    <1>. USE MaxByteAssumption DEF Escape, MaxFrameBytes, EncodeSize
    <1>1. CASE size < Escape
        BY <1>1
    <1>2. CASE size >= Escape
        <2>. DEFINE first  == Escape + (size % 4)
                    second == (size - first) \div 4
        <2>1. first \in Escape..MaxByte /\ size - first \in Int
            BY <1>2
        <2>2. MaxByte % 4 = 3
            BY QuarterOf
        <2>3. (size - first) % 4 = 0
            BY <1>2, <2>2
        <2>4. size >= first
            BY <1>2, <2>3
        <2>5. size = 4 * second + first /\ second \in 0..MaxByte
            BY <1>2, <2>1, <2>3, <2>4
        <2>. QED BY <1>2, <2>1, <2>5
    <1>. QED BY <1>1, <1>2

\* A size is written as numbers.
LEMMA EncodeSizeNat ==
    ASSUME NEW size \in Nat
    PROVE  /\ EncodeSize(size) \in Bytes
           /\ size < Escape => EncodeSize(size) = <<size>>
           /\ size >= Escape => \E first \in Nat, second \in Nat :
                /\ first >= Escape /\ EncodeSize(size) = <<first, second>>
                /\ size = 4 * second + first
    <1>0. Escape \in Nat /\ Escape % 4 = 0
        BY MaxByteAssumption DEF Escape
    <1>1. CASE size < Escape
        BY <1>0, <1>1 DEF EncodeSize, Bytes
    <1>2. CASE ~(size < Escape)
        <2>. DEFINE first  == Escape + (size % 4)
                    second == (size - first) \div 4
        <2>1. first \in Nat /\ first >= Escape
            BY <1>0
        <2>2. size >= first /\ (size - first) % 4 = 0
            BY <1>0, <1>2
        <2>3. second \in Nat /\ size = 4 * second + first
            BY <2>1, <2>2
        <2>4. EncodeSize(size) = <<first, second>>
            BY <1>2 DEF EncodeSize
        <2>. HIDE DEF first, second
        <2>5. \A a, b \in Nat : <<a, b>> \in Seq(Nat)
            OBVIOUS
        <2>6. EncodeSize(size) \in Bytes
            BY ONLY <2>1, <2>3, <2>4, <2>5 DEF Bytes
        <2>. QED BY <1>0, <1>2, <2>1, <2>3, <2>4, <2>6
    <1>. QED BY <1>1, <1>2

\* What parse_size makes of one byte.
LEMMA ReadShort ==
    ASSUME NEW packet \in Bytes, NEW at \in Nat, NEW size \in Nat,
           at < Len(packet), packet[at + 1] = size, size < Escape
    PROVE  SizeAt(packet, at) = {[bytes |-> 1, size |-> size]}
    BY MaxByteAssumption DEF SizeAt, Bytes, Escape

\* Of two.
LEMMA ReadLong ==
    ASSUME NEW packet \in Bytes, NEW at \in Nat, NEW first \in Nat, NEW second \in Nat,
           at + 1 < Len(packet), packet[at + 1] = first, packet[at + 2] = second,
           first >= Escape
    PROVE  SizeAt(packet, at) = {[bytes |-> 2, size |-> 4 * second + first]}
    BY MaxByteAssumption DEF SizeAt, Bytes, Escape

\* parse_size reads what encode_size wrote, wherever it stands.
THEOREM SizeRoundTrip ==
    ASSUME NEW before \in Bytes, NEW after \in Bytes,
           NEW size \in 0..MaxFrameBytes
    PROVE  SizeAt(before \o EncodeSize(size) \o after, Len(before))
             = {[bytes |-> Len(EncodeSize(size)), size |-> size]}
    <1>1. /\ size \in Nat /\ Escape \in Nat
          /\ Len(before) \in Nat /\ Len(after) \in Nat
        BY MaxByteAssumption DEF Bytes, Escape, MaxFrameBytes
    <1>2. CASE size < Escape
        <2>. DEFINE packet == before \o <<size>> \o after
        <2>1. EncodeSize(size) = <<size>> /\ Len(<<size>>) = 1
            BY <1>2, EncodeSizeBytes
        <2>2. /\ packet \in Bytes /\ Len(before) < Len(packet)
              /\ packet[Len(before) + 1] = size
            BY <1>1 DEF Bytes
        <2>. HIDE DEF packet
        <2>3. SizeAt(packet, Len(before)) = {[bytes |-> 1, size |-> size]}
            BY <1>1, <1>2, <2>2, ReadShort
        <2>. QED BY <2>1, <2>3 DEF packet
    <1>3. CASE size >= Escape
        <2>1. PICK first \in Escape..MaxByte, second \in 0..MaxByte :
                 EncodeSize(size) = <<first, second>> /\ size = 4 * second + first
            BY <1>3, EncodeSizeBytes
        <2>. DEFINE packet == before \o <<first, second>> \o after
        <2>2. first \in Nat /\ second \in Nat /\ first >= Escape
            BY <1>1
        <2>3. /\ packet \in Bytes /\ Len(before) + 1 < Len(packet)
              /\ packet[Len(before) + 1] = first
              /\ packet[Len(before) + 2] = second
            BY <1>1, <2>2 DEF Bytes
        <2>. HIDE DEF packet
        <2>4. SizeAt(packet, Len(before)) = {[bytes |-> 2, size |-> 4 * second + first]}
            BY <1>1, <2>2, <2>3, ReadLong
        <2>5. Len(<<first, second>>) = 2
            OBVIOUS
        <2>. QED BY <2>1, <2>4, <2>5 DEF packet
    <1>. QED BY <1>1, <1>2, <1>3

\* The size is read where it was written.
LEMMA SizeReadBack ==
    ASSUME NEW toc \in Nat, NEW size \in Nat, NEW behind \in Bytes
    PROVE  /\ Len(EncodeSize(size)) \in Nat
           /\ SizeAt(<<toc>> \o EncodeSize(size) \o behind, 1)
                = {[bytes |-> Len(EncodeSize(size)), size |-> size]}
    <1>. DEFINE r == <<toc>> \o EncodeSize(size) \o behind
    <1>1. EncodeSize(size) \in Bytes /\ Escape \in Nat
        BY EncodeSizeNat, MaxByteAssumption DEF Escape
    <1>2. Len(behind) \in Nat
        BY DEF Bytes
    <1>3. CASE size < Escape
        <2>1. EncodeSize(size) = <<size>>
            BY <1>3, EncodeSizeNat
        <2>2. r = <<toc>> \o <<size>> \o behind
            BY <2>1
        <2>3. Len(r) >= 2 /\ r[2] = size /\ Len(<<size>>) = 1 /\ Len(r) \in Nat
            BY <1>2, <2>2 DEF Bytes
        <2>. HIDE DEF r
        <2>4. SizeAt(r, 1) = {[bytes |-> 1, size |-> size]}
            BY <1>1, <1>3, <2>3 DEF SizeAt
        <2>. QED BY <2>1, <2>3, <2>4 DEF r
    <1>4. CASE size >= Escape
        <2>1. PICK one \in Nat, two \in Nat :
                one >= Escape /\ EncodeSize(size) = <<one, two>> /\ size = 4 * two + one
            BY <1>4, EncodeSizeNat
        <2>2. r = <<toc>> \o <<one, two>> \o behind
            BY <2>1
        <2>3. Len(r) >= 3 /\ r[2] = one /\ r[3] = two /\ Len(<<one, two>>) = 2 /\ Len(r) \in Nat
            BY <1>2, <2>2 DEF Bytes
        <2>. HIDE DEF r
        <2>4. SizeAt(r, 1) = {[bytes |-> 2, size |-> size]}
            BY <1>1, <2>1, <2>3 DEF SizeAt
        <2>. QED BY <2>1, <2>3, <2>4 DEF r
    <1>. QED BY <1>1, <1>3, <1>4


-------------------------------------------------------------------------------
(***************************************************************************)
(* The length of a padding.                                                *)
(***************************************************************************)

\* Where the first byte below MaxByte is.
LEMMA FirstBelow ==
    ASSUME NEW s \in Bytes, NEW n \in 1..Len(s), s[n] # MaxByte,
           \A k \in 1..(n - 1) : s[k] = MaxByte
    PROVE  SelectInSeq(s, LAMBDA b : b # MaxByte) = n
    <1>. DEFINE I == {i \in 1..Len(s) : s[i] # MaxByte}
    <1>1. n \in I /\ \A i \in I : i \in Int /\ n <= i
        BY DEF Bytes
    <1>2. Min(I) = n
        BY <1>1 DEF Min
    <1>. QED BY <1>1, <1>2 DEF SelectInSeq

\* The bytes of a padding's length: `full' of MaxByte and one below it.
LEMMA PaddingLengthBytes ==
    ASSUME NEW amount \in Nat \ {0}
    PROVE  \E full \in Nat, last \in 0..(MaxByte - 1) :
             /\ amount = full * MaxByte + last + 1
             /\ PaddingLength(amount) \in Bytes
             /\ Len(PaddingLength(amount)) = full + 1
             /\ \A n \in 1..full : PaddingLength(amount)[n] = MaxByte
             /\ PaddingLength(amount)[full + 1] = last
    <1>. DEFINE full == (amount - 1) \div MaxByte
                last == amount - full * MaxByte - 1
    <1>1. MaxByte \in Nat \ {0} /\ amount - 1 \in Nat
        BY MaxByteAssumption
    <1>2. full \in Nat /\ (amount - 1) - full * MaxByte \in 0..(MaxByte - 1)
        BY <1>1, Division
    <1>. HIDE DEF full
    <1>3. full * MaxByte \in Nat
        BY <1>1, <1>2
    <1>4. last \in 0..(MaxByte - 1) /\ amount = full * MaxByte + last + 1
        BY <1>1, <1>2, <1>3
    <1>5. PaddingLength(amount) = [n \in 1..full |-> MaxByte] \o <<last>>
        BY DEF PaddingLength, full
    <1>. HIDE DEF last
    <1>. DEFINE ones == [n \in 1..full |-> MaxByte]
    <1>6. ones \in Seq(Nat) /\ Len(ones) = full /\ \A n \in 1..full : ones[n] = MaxByte
        BY <1>1, <1>2
    <1>. HIDE DEF ones
    <1>7. last \in Nat
        BY <1>1, <1>4
    <1>8. /\ ones \o <<last>> \in Seq(Nat)
          /\ Len(ones \o <<last>>) = full + 1
          /\ \A n \in 1..full : (ones \o <<last>>)[n] = MaxByte
          /\ (ones \o <<last>>)[full + 1] = last
        BY <1>2, <1>6, <1>7
    <1>. QED BY <1>2, <1>4, <1>5, <1>8 DEF Bytes, ones

\* The parser takes a padding for as long as the writer meant it: what it skips,
\* length bytes and padding, is the whole amount.
THEOREM PaddingRoundTrip ==
    ASSUME NEW before \in Bytes, NEW after \in Bytes, NEW amount \in Nat \ {0},
           NEW h \in [idx : Nat, left : Nat, last : Int, count : Nat, cbr : BOOLEAN,
                      pad : Nat, sizes : Seq(Nat)],
           h.idx = Len(before), amount <= h.left,
           2 \in 1..Len(before), (before[2] \div 64) % 2 = 1
    PROVE  PaddingRead(before \o PaddingLength(amount) \o after, h)
             = {[h EXCEPT !.idx = h.idx + Len(PaddingLength(amount)),
                          !.pad = amount - Len(PaddingLength(amount)),
                          !.left = h.left - amount,
                          !.last = h.left - amount]}
    <1>. DEFINE code   == PaddingLength(amount)
                packet == before \o code \o after
                rest   == SubSeq(packet, h.idx + 1, Len(packet))
    <1>1. PICK full \in Nat, last \in 0..(MaxByte - 1) :
             /\ amount = full * MaxByte + last + 1
             /\ code \in Bytes /\ Len(code) = full + 1
             /\ \A n \in 1..full : code[n] = MaxByte
             /\ code[full + 1] = last
        BY PaddingLengthBytes
    <1>. HIDE DEF code
    <1>2. /\ packet \in Bytes
          /\ Len(packet) = Len(before) + Len(code) + Len(after)
          /\ \A n \in 1..Len(code) : packet[Len(before) + n] = code[n]
        BY <1>1, Middle
    <1>3. packet[2] = before[2]
        BY <1>1 DEF Bytes
    <1>. HIDE DEF packet
    <1>4. /\ rest \in Bytes /\ Len(rest) = Len(code) + Len(after)
          /\ \A n \in 1..Len(code) : rest[n] = code[n]
        <2>1. /\ Len(before) \in Nat /\ Len(code) \in Nat /\ Len(after) \in Nat
              /\ Len(packet) \in Nat
            BY <1>1, <1>2, LenProperties DEF Bytes
        <2>2. /\ Len(before) \in 0..Len(packet)
              /\ Len(packet) - Len(before) = Len(code) + Len(after)
            BY <1>2, <2>1
        <2>3. rest = SubSeq(packet, Len(before) + 1, Len(packet))
            OBVIOUS
        <2>. HIDE DEF rest
        <2>4. /\ rest \in Bytes /\ Len(rest) = Len(packet) - Len(before)
              /\ \A n \in 1..(Len(packet) - Len(before)) : rest[n] = packet[Len(before) + n]
            BY <1>2, <2>2, <2>3, Rest
        <2>. QED BY <1>2, <2>1, <2>2, <2>4, SMTT(30)
    <1>. HIDE DEF rest
    <1>5. SelectInSeq(rest, LAMBDA b : b # MaxByte) = full + 1
        <2>1. full + 1 \in 1..Len(rest) /\ rest[full + 1] # MaxByte
            BY <1>1, <1>4, MaxByteAssumption, SMTT(30) DEF Bytes
        <2>2. \A k \in 1..((full + 1) - 1) : rest[k] = MaxByte
            BY <1>1, <1>4
        <2>. QED BY <1>4, <2>1, <2>2, FirstBelow
    <1>6. packet[h.idx + full + 1] = last
        BY <1>1, <1>2
    <1>7. full + 1 + (full * (MaxByte - 1) + last) = amount
        BY <1>1, MaxByteAssumption
    <1>. DEFINE found == SelectInSeq(rest, LAMBDA b : b # MaxByte) - 1
                pad   == found * (MaxByte - 1) + packet[h.idx + found + 1]
    <1>8. PaddingRead(packet, h)
            = IF (packet[2] \div 64) % 2 = 0 THEN {h}
              ELSE IF found < 0 \/ found + 1 + pad > h.left THEN {}
              ELSE {[h EXCEPT !.idx = h.idx + found + 1, !.pad = pad,
                              !.left = h.left - (found + 1 + pad),
                              !.last = h.left - (found + 1 + pad)]}
        BY Zenon DEF PaddingRead, rest
    <1>9. found = full
        BY <1>5
    <1>10. pad = full * (MaxByte - 1) + last
        BY <1>6, <1>9
    <1>. HIDE DEF found, pad
    <1>11. /\ found >= 0 /\ ~(found + 1 + pad > h.left)
           /\ h.idx + found + 1 = h.idx + Len(code)
           /\ pad = amount - Len(code)
           /\ found + 1 + pad = amount
        BY <1>1, <1>7, <1>9, <1>10, MaxByteAssumption
    <1>12. (packet[2] \div 64) % 2 # 0
        BY <1>3
    <1>13. PaddingRead(packet, h)
             = {[h EXCEPT !.idx = h.idx + Len(code), !.pad = amount - Len(code),
                          !.left = h.left - amount, !.last = h.left - amount]}
        <2>1. PaddingRead(packet, h)
                = {[h EXCEPT !.idx = h.idx + found + 1, !.pad = pad,
                             !.left = h.left - (found + 1 + pad),
                             !.last = h.left - (found + 1 + pad)]}
            <3>1. ~((packet[2] \div 64) % 2 = 0)
                BY <1>12
            <3>2. ~(found < 0 \/ found + 1 + pad > h.left)
                BY <1>11, <1>9
            <3>. QED BY ONLY <1>8, <3>1, <3>2, Zenon
        <2>. QED BY <1>11, <2>1
    <1>. QED BY <1>13 DEF packet, code


-------------------------------------------------------------------------------
(***************************************************************************)
(* Whatever the bytes are, what is read of a packet are numbers, and lies  *)
(* within the packet.                                                      *)
(***************************************************************************)

\* What the parser knows while it reads a header.
Headers == [idx : Nat, left : Int, last : Nat, count : Nat, cbr : BOOLEAN, pad : Nat,
            sizes : Seq(Nat)]

\* A size takes one byte or two.
LEMMA SizeAtLemma ==
    ASSUME NEW packet \in Bytes, NEW at \in Nat, NEW s \in SizeAt(packet, at)
    PROVE  s.bytes \in {1, 2} /\ s.size \in Nat
    <1>1. Len(packet) \in Nat /\ \A i \in 1..Len(packet) : packet[i] \in Nat
        BY DEF Bytes
    <1>0. Escape \in Nat
        BY MaxByteAssumption DEF Escape
    <1>2. CASE at < Len(packet) /\ packet[at + 1] < Escape
        <2>1. at + 1 \in 1..Len(packet)
            BY <1>1, <1>2
        <2>2. packet[at + 1] \in Nat
            BY <1>1, <2>1
        <2>3. SizeAt(packet, at) = {[bytes |-> 1, size |-> packet[at + 1]]}
            BY <1>0, <1>2, <2>2 DEF SizeAt
        <2>. QED BY <2>2, <2>3
    <1>3. CASE ~(at < Len(packet) /\ packet[at + 1] < Escape)
        <2>1. at + 1 < Len(packet) /\ packet[at + 1] >= Escape
            BY <1>3 DEF SizeAt
        <2>2. s = [bytes |-> 2, size |-> 4 * packet[at + 2] + packet[at + 1]]
            BY <1>3, <2>1 DEF SizeAt
        <2>. QED BY <1>1, <2>1, <2>2
    <1>. QED BY <1>2, <1>3

\* The size of one frame more is read.
LEMMA NextSizeLemma ==
    ASSUME NEW packet \in Bytes, NEW h \in Headers, NEW g \in NextSize(packet, h)
    PROVE  g \in Headers /\ Len(g.sizes) = Len(h.sizes) + 1 /\ g.count = h.count
    <1>1. PICK s \in SizeAt(packet, h.idx) :
             /\ s.bytes + s.size <= h.last
             /\ g = [h EXCEPT !.idx = h.idx + s.bytes, !.left = h.left - s.bytes,
                              !.last = h.last - s.bytes - s.size,
                              !.sizes = Append(h.sizes, s.size)]
        BY DEF NextSize
    <1>2. h.idx \in Nat /\ h.left \in Int /\ h.last \in Nat /\ h.sizes \in Seq(Nat)
        BY DEF Headers
    <1>3. s.bytes \in {1, 2} /\ s.size \in Nat
        BY <1>2, SizeAtLemma
    <1>. DEFINE i == h.idx + s.bytes
                l == h.left - s.bytes
                t == h.last - s.bytes - s.size
                z == Append(h.sizes, s.size)
    <1>4. i \in Nat /\ l \in Int /\ t \in Nat
        <2>1. \A b \in {1, 2} : b \in Nat
            OBVIOUS
        <2>2. s.bytes \in Nat /\ s.bytes + s.size <= h.last
            BY <1>1, <1>3, <2>1
        <2>. QED BY <1>2, <1>3, <2>2, SMTT(30)
    <1>5. z \in Seq(Nat) /\ Len(z) = Len(h.sizes) + 1
        BY <1>2, <1>3
    <1>. HIDE DEF i, l, t, z
    <1>6. g = [h EXCEPT !.idx = i, !.left = l, !.last = t, !.sizes = z]
        BY <1>1 DEF i, l, t, z
    <1>. QED BY <1>4, <1>5, <1>6 DEF Headers

\* The frames have equal sizes.
LEMMA SharedLemma ==
    ASSUME NEW h \in Headers, h.left \in Nat, h.count # 0, NEW g \in Shared(h)
    PROVE  g \in Headers /\ Len(g.sizes) = g.count - 1
    <1>. DEFINE each == h.left \div h.count
                z == [n \in 1..(h.count - 1) |-> each]
    <1>1. h.count \in Nat \ {0}
        BY DEF Headers
    <1>2. each \in Nat
        BY <1>1, Division
    <1>. HIDE DEF each
    <1>3. z \in Seq(Nat) /\ Len(z) = h.count - 1
        BY <1>1, <1>2
    <1>4. g = [h EXCEPT !.last = each, !.sizes = z]
        BY DEF Shared, each
    <1>. HIDE DEF z
    <1>. QED BY <1>2, <1>3, <1>4 DEF Headers

\* The first byte that ends a padding's length, if there is one.
LEMMA FirstIndex ==
    ASSUME NEW s \in Bytes
    PROVE  /\ SelectInSeq(s, LAMBDA b : b # MaxByte) \in 0..Len(s)
    <1>. DEFINE I == {i \in 1..Len(s) : s[i] # MaxByte}
    <1>1. Len(s) \in Nat
        BY DEF Bytes
    <1>2. I \subseteq Nat
        BY <1>1
    <1>3. CASE I = {}
        <2>1. SelectInSeq(s, LAMBDA b : b # MaxByte) = 0
            BY <1>3 DEF SelectInSeq
        <2>. QED BY <1>1, <2>1
    <1>4. CASE I # {}
        <2>1. SelectInSeq(s, LAMBDA b : b # MaxByte) = Min(I)
            BY <1>4 DEF SelectInSeq
        <2>2. \E n \in I : \A m \in I : n <= m
            BY <1>2, <1>4, LeastNumber
        <2>3. Min(I) \in I
            BY <2>2 DEF Min
        <2>. QED BY <1>1, <2>1, <2>3
    <1>. QED BY <1>3, <1>4

\* Reading the padding's length leaves the frames as they are.
LEMMA PaddingReadLemma ==
    ASSUME NEW packet \in Bytes, NEW h \in Headers, h.left \in Nat, h.idx <= Len(packet),
           NEW g \in PaddingRead(packet, h)
    PROVE  g \in Headers /\ g.left \in Nat /\ g.sizes = h.sizes /\ g.count = h.count
    <1>. DEFINE rest == SubSeq(packet, h.idx + 1, Len(packet))
                full == SelectInSeq(rest, LAMBDA b : b # MaxByte) - 1
                pad  == full * (MaxByte - 1) + packet[h.idx + full + 1]
    <1>1. Len(packet) \in Nat /\ h.idx \in Nat
        BY DEF Bytes, Headers
    <1>2. rest \in Bytes /\ Len(rest) = Len(packet) - h.idx
        <2>1. h.idx \in 0..Len(packet)
            BY <1>1
        <2>. QED BY <2>1, Rest
    <1>3. PaddingRead(packet, h)
            = IF (packet[2] \div 64) % 2 = 0 THEN {h}
              ELSE IF full < 0 \/ full + 1 + pad > h.left THEN {}
              ELSE {[h EXCEPT !.idx = h.idx + full + 1, !.pad = pad,
                              !.left = h.left - (full + 1 + pad),
                              !.last = h.left - (full + 1 + pad)]}
        BY Zenon DEF PaddingRead
    <1>. HIDE DEF rest
    <1>4. full + 1 \in 0..Len(rest)
        <2>. DEFINE found == SelectInSeq(rest, LAMBDA b : b # MaxByte)
        <2>1. found \in 0..Len(rest)
            BY <1>2, FirstIndex
        <2>2. full = found - 1
            OBVIOUS
        <2>3. Len(rest) \in Nat
            BY <1>2 DEF Bytes
        <2>. HIDE DEF found, full
        <2>. QED BY <2>1, <2>2, <2>3
    <1>. HIDE DEF full
    <1>7. full \in Int
        <2>1. SelectInSeq(rest, LAMBDA b : b # MaxByte) \in 0..Len(rest)
            BY <1>2, FirstIndex
        <2>. QED BY <2>1 DEF full
    <1>5. CASE g = h
        BY <1>5
    <1>6. CASE g # h
        <2>1. /\ ~(full < 0) /\ ~(full + 1 + pad > h.left)
              /\ g = [h EXCEPT !.idx = h.idx + full + 1, !.pad = pad,
                               !.left = h.left - (full + 1 + pad),
                               !.last = h.left - (full + 1 + pad)]
            BY <1>3, <1>6
        <2>2. full + 1 \in Int /\ full \in Int
            BY <1>7
        <2>3. full \in Nat /\ h.idx + full + 1 \in 1..Len(packet)
            BY <1>1, <1>2, <1>4, <2>1, <2>2
        <2>4. packet[h.idx + full + 1] \in Nat
            BY <2>3 DEF Bytes
        <2>5. MaxByte - 1 \in Nat
            BY MaxByteAssumption
        <2>6. full * (MaxByte - 1) \in Nat
            BY <2>3, <2>5
        <2>7. pad \in Nat
            BY <2>4, <2>6
        <2>. DEFINE i == h.idx + full + 1
                    l == h.left - (full + 1 + pad)
        <2>. HIDE DEF pad
        <2>8. i \in Nat /\ l \in Nat
            BY <1>1, <2>1, <2>3, <2>7
        <2>9. g = [h EXCEPT !.idx = i, !.pad = pad, !.left = l, !.last = l]
            BY <2>1
        <2>. HIDE DEF i, l
        <2>10. l \in Int
            BY <2>8
        <2>. QED BY <2>7, <2>8, <2>9, <2>10 DEF Headers
    <1>. QED BY <1>5, <1>6

\* The sizes of all frames but the last are read one after another.
LEMMA SizesReadLemma ==
    ASSUME NEW packet \in Bytes, NEW h \in Headers, h.count # 0, h.sizes = <<>>,
           NEW g \in SizesRead(packet, h)
    PROVE  g \in Headers /\ Len(g.sizes) = g.count - 1
    <1>. DEFINE n == h.count - 1
                Next1(s) == UNION {NextSize(packet, x) : x \in s}
                T == SUBSET Headers
                G == [k \in Nat |-> [x \in T |-> Next1(x)]]
    <1>1. n \in Nat
        BY DEF Headers
    <1>2. G \in [Nat -> [T -> T]]
        BY NextSizeLemma
    <1>3. PICK f : Steps(n, T, {h}, G, f)
        <2>1. {h} \in T
            OBVIOUS
        <2>. HIDE DEF T, G, n
        <2>. QED BY <1>1, <1>2, <2>1, Recursion
    <1>4. ASSUME NEW k \in 1..n
          PROVE  f[k] = Next1(f[k - 1])
        <2>1. k \in Nat /\ f[k - 1] \in T /\ f[k] = G[k][f[k - 1]]
            <3>. HIDE DEF T, G
            <3>. QED BY <1>1, <1>3 DEF Steps
        <2>2. \A x \in T : G[k][x] = Next1(x)
            <3>. HIDE DEF T, Next1
            <3>. QED BY <2>1
        <2>. HIDE DEF T, G, Next1
        <2>. QED BY <2>1, <2>2
    <1>5. f = [k \in 0..n |-> IF k = 0 THEN {h} ELSE Next1(f[k - 1])]
        <2>. HIDE DEF Next1, T, G, n
        <2>. QED BY <1>1, <1>3, <1>4 DEF Steps
    <1>. DEFINE z == CHOOSE e : e = [k \in 0..n |-> IF k = 0 THEN {h} ELSE Next1(e[k - 1])]
    <1>6. z = [k \in 0..n |-> IF k = 0 THEN {h} ELSE Next1(z[k - 1])]
        <2>. HIDE DEF Next1, n
        <2>. QED BY <1>5
    <1>7. SizesRead(packet, h) = z[n]
        BY Zenon DEF SizesRead
    <1>. HIDE DEF z
    <1>. DEFINE S == {k \in Nat : k <= n =>
                        \A x \in z[k] : x \in Headers /\ Len(x.sizes) = k /\ x.count = h.count}
    <1>8. z[0] = {h} /\ \A k \in 1..n : z[k] = Next1(z[k - 1])
        <2>. HIDE DEF Next1, n
        <2>1. \A k \in 0..n : z[k] = IF k = 0 THEN {h} ELSE Next1(z[k - 1])
            BY <1>6, Zenon
        <2>2. 0 \in 0..n /\ \A k \in 1..n : k \in 0..n /\ k # 0
            BY <1>1
        <2>. QED BY <2>1, <2>2
    <1>9. 0 \in S
        BY <1>8
    <1>10. ASSUME NEW k \in Nat, k \in S
           PROVE  k + 1 \in S
        <2>1. CASE k + 1 <= n
            <3>1. z[k + 1] = Next1(z[k]) /\ k <= n
                <4>1. k + 1 \in 1..n /\ (k + 1) - 1 = k /\ k <= n
                    BY <1>1, <2>1
                <4>. QED BY <1>8, <4>1
            <3>2. ASSUME NEW x \in z[k + 1]
                  PROVE  x \in Headers /\ Len(x.sizes) = k + 1 /\ x.count = h.count
                <4>1. PICK y \in z[k] : x \in NextSize(packet, y)
                    BY <3>1
                <4>2. y \in Headers /\ Len(y.sizes) = k /\ y.count = h.count
                    BY <1>10, <3>1
                <4>. QED BY <4>1, <4>2, NextSizeLemma
            <3>. QED BY <3>2
        <2>2. CASE ~(k + 1 <= n)
            BY <2>2
        <2>. QED BY <2>1, <2>2
    <1>11. n \in S
        <2>. HIDE DEF S, n
        <2>1. Nat \subseteq S
            BY <1>9, <1>10, Inductive
        <2>. QED BY <1>1, <2>1
    <1>. QED BY <1>7, <1>11

\* Where the first n frames end.
LEMMA FrameEndLemma ==
    ASSUME NEW h \in Headers, NEW n \in 0..Len(h.sizes)
    PROVE  /\ FrameEnd(h, n) \in Nat
           /\ FrameEnd(h, n) >= h.idx
           /\ n = 0 => FrameEnd(h, n) = h.idx
           /\ n = 1 => FrameEnd(h, n) = h.idx + h.sizes[1]
    <1>1. h.idx \in Nat /\ h.sizes \in Seq(Nat) /\ Len(h.sizes) \in Nat
        BY DEF Headers
    <1>. DEFINE size(k) == IF k \in 1..n THEN h.sizes[k] ELSE 0
                T == {m \in Nat : m >= h.idx}
                G == [k \in Nat |-> [x \in T |-> x + size(k)]]
    <1>2. \A k \in Nat : size(k) \in Nat
        BY <1>1
    <1>3. G \in [Nat -> [T -> T]]
        <2>. HIDE DEF size
        <2>1. ASSUME NEW x \in T, NEW k \in Nat
              PROVE  x + size(k) \in T
            <3>1. x \in Nat /\ x >= h.idx /\ size(k) \in Nat
                BY <1>2
            <3>2. x + size(k) \in Nat /\ x + size(k) >= h.idx
                BY <1>1, <3>1
            <3>. QED BY <3>2
        <2>. HIDE DEF T
        <2>. QED BY <2>1
    <1>4. PICK f : Steps(n, T, h.idx, G, f)
        <2>1. h.idx \in T /\ n \in Nat
            BY <1>1
        <2>. HIDE DEF T, G
        <2>. QED BY <1>3, <2>1, Recursion
    <1>5. ASSUME NEW k \in 1..n
          PROVE  f[k] = f[k - 1] + h.sizes[k]
        <2>1. k \in Nat /\ f[k - 1] \in T /\ f[k] = G[k][f[k - 1]]
            <3>. HIDE DEF T, G
            <3>. QED BY <1>1, <1>4 DEF Steps
        <2>2. \A x \in T : G[k][x] = x + size(k)
            <3>. HIDE DEF T, size
            <3>. QED BY <2>1
        <2>3. size(k) = h.sizes[k]
            OBVIOUS
        <2>. HIDE DEF T, G, size
        <2>. QED BY <2>1, <2>2, <2>3
    <1>. DEFINE Is(e) == e = [k \in 0..n |-> IF k = 0 THEN h.idx ELSE e[k - 1] + h.sizes[k]]
    <1>6. Is(f)
        <2>. HIDE DEF T, G
        <2>. QED BY <1>1, <1>4, <1>5 DEF Steps
    <1>. DEFINE z == CHOOSE e : Is(e)
    <1>7. Is(z)
        <2>. HIDE DEF Is
        <2>. QED BY <1>6
    <1>8. FrameEnd(h, n) = z[n]
        BY Zenon DEF FrameEnd
    <1>. HIDE DEF z
    <1>9. z[0] = h.idx /\ \A k \in 1..n : z[k] = z[k - 1] + h.sizes[k]
        BY <1>1, <1>7
    <1>10. z[n] \in T
        <2>. DEFINE S == {k \in Nat : k <= n => z[k] \in T}
        <2>1. 0 \in S
            BY <1>1, <1>9
        <2>2. ASSUME NEW k \in Nat, k \in S
              PROVE  k + 1 \in S
            <3>1. CASE k + 1 <= n
                <4>1. k + 1 \in 1..n /\ (k + 1) - 1 = k /\ k <= n /\ h.sizes[k + 1] \in Nat
                    BY <1>1, <3>1
                <4>2. z[k] \in T /\ z[k + 1] = z[k] + h.sizes[k + 1]
                    BY <1>9, <2>2, <4>1
                <4>3. z[k] \in Nat /\ z[k] >= h.idx
                    BY <4>2
                <4>0. \A m, b, d \in Nat : m >= b => m + d \in Nat /\ m + d >= b
                    OBVIOUS
                <4>4. z[k] + h.sizes[k + 1] \in Nat /\ z[k] + h.sizes[k + 1] >= h.idx
                    BY <1>1, <4>0, <4>1, <4>3
                <4>5. z[k] + h.sizes[k + 1] \in T
                    BY <4>4
                <4>. QED BY <4>2, <4>5
            <3>2. CASE ~(k + 1 <= n)
                BY <3>2
            <3>. QED BY <3>1, <3>2
        <2>. HIDE DEF S
        <2>3. Nat \subseteq S
            BY <2>1, <2>2, Inductive
        <2>. QED BY <1>1, <2>3 DEF S
    <1>11. n = 1 => z[1] = z[0] + h.sizes[1]
        BY <1>9
    <1>. QED BY <1>8, <1>9, <1>10, <1>11

\* What is known of a header that is read: it has the sizes of all frames but the
\* last, unless they are all as long as the last, whose size is written.
HeaderShape(h, selfDelimited) ==
    h \in Headers /\ (~(h.cbr /\ selfDelimited) => Len(h.sizes) = h.count - 1)

\* Of the TOC byte alone.
LEMMA TocReadLemma ==
    ASSUME NEW packet \in Bytes, packet # <<>>
    PROVE  /\ TocRead(packet) \in Headers /\ TocRead(packet).left \in Nat
           /\ TocRead(packet).sizes = <<>> /\ TocRead(packet).count = 1
           /\ TocRead(packet).idx = 1
    <1>. DEFINE rest == Len(packet) - 1
    <1>1. rest \in Nat
        BY DEF Bytes
    <1>. HIDE DEF rest
    <1>2. TocRead(packet) = [idx |-> 1, left |-> rest, last |-> rest, count |-> 1,
                             cbr |-> FALSE, pad |-> 0, sizes |-> <<>>]
        BY DEF TocRead, rest
    <1>. QED BY <1>1, <1>2 DEF Headers

\* The header of a packet with any number of frames.
LEMMA Code3Lemma ==
    ASSUME NEW packet \in Bytes, packet # <<>>, NEW selfDelimited \in BOOLEAN,
           NEW g \in Code3Read(packet, selfDelimited)
    PROVE  HeaderShape(g, selfDelimited)
    <1>. DEFINE first   == TocRead(packet)
                counted == {h \in CountRead(packet, first) : ValidCount(Head(packet), h.count)}
                padded  == UNION {PaddingRead(packet, h) : h \in counted}
                Frames(h) == CASE ~h.cbr                  -> SizesRead(packet, h)
                               [] h.cbr /\ ~selfDelimited -> Shared(h)
                               [] h.cbr /\ selfDelimited  -> {h}
    <1>0. Len(packet) \in Nat
        BY DEF Bytes
    <1>1. PICK h \in padded : g \in Frames(h)
        BY Zenon DEF Code3Read
    <1>2. PICK c \in counted : h \in PaddingRead(packet, c)
        OBVIOUS
    <1>3. /\ first \in Headers /\ first.left \in Nat
          /\ first.sizes = <<>> /\ first.idx = 1 /\ first.left = Len(packet) - 1
          /\ first.last = Len(packet) - 1
        BY TocReadLemma DEF TocRead
    <1>. HIDE DEF padded, first
    <1>4. Len(packet) >= 2 /\ ValidCount(Head(packet), c.count)
          /\ c = [first EXCEPT !.idx = first.idx + 1, !.left = first.left - 1,
                               !.last = first.last - 1, !.count = packet[2] % 64,
                               !.cbr = packet[2] < 128]
        BY <1>2 DEF CountRead
    <1>5. c \in Headers /\ c.left \in Nat /\ c.sizes = <<>> /\ c.idx <= Len(packet)
        <2>1. packet[2] \in Nat
            BY <1>0, <1>4 DEF Bytes
        <2>. DEFINE n == packet[2] % 64
                    r == packet[2] < 128
                    l == first.left - 1
                    t == first.last - 1
        <2>2. n \in Nat
            BY <2>1
        <2>3. l \in Nat /\ t \in Nat
            BY <1>0, <1>3, <1>4
        <2>4. r \in BOOLEAN
            OBVIOUS
        <2>5. c = [first EXCEPT !.idx = 2, !.left = l, !.last = t, !.count = n, !.cbr = r]
            <3>1. first.idx + 1 = 2
                BY <1>3
            <3>. QED BY <1>4, <3>1
        <2>. HIDE DEF n, r, l, t
        <2>6. l \in Int
            BY <2>3
        <2>. DEFINE d == [first EXCEPT !.idx = 2, !.left = l, !.last = t]
        <2>7. d \in Headers /\ d.left = l /\ d.sizes = <<>> /\ d.idx = 2
            BY <1>3, <2>3, <2>6 DEF Headers
        <2>8. c = [d EXCEPT !.count = n, !.cbr = r]
            BY <1>3, <2>5 DEF Headers
        <2>. HIDE DEF d
        <2>9. c \in Headers /\ c.left = l /\ c.sizes = <<>> /\ c.idx = 2
            BY <2>2, <2>4, <2>7, <2>8 DEF Headers
        <2>. QED BY <1>0, <1>4, <2>3, <2>9
    <1>6. h \in Headers /\ h.left \in Nat /\ h.sizes = <<>> /\ h.count = c.count
        BY <1>2, <1>5, PaddingReadLemma
    <1>7. h.count # 0
        BY <1>4, <1>6 DEF ValidCount, Headers
    <1>8. h.cbr \in BOOLEAN
        BY <1>6 DEF Headers
    <1>9. CASE ~h.cbr
        <2>1. g \in SizesRead(packet, h)
            BY <1>1, <1>9
        <2>. QED BY <1>6, <1>7, <2>1, SizesReadLemma DEF HeaderShape
    <1>10. CASE h.cbr /\ ~selfDelimited
        <2>1. g \in Shared(h)
            BY <1>1, <1>10
        <2>. QED BY <1>6, <1>7, <2>1, SharedLemma DEF HeaderShape
    <1>11. CASE h.cbr /\ selfDelimited
        <2>1. g = h
            BY <1>1, <1>11
        <2>. QED BY <1>6, <1>11, <2>1 DEF HeaderShape
    <1>. QED BY <1>8, <1>9, <1>10, <1>11

\* The header of any packet.
LEMMA HeaderReadLemma ==
    ASSUME NEW packet \in Bytes, packet # <<>>, NEW selfDelimited \in BOOLEAN,
           NEW g \in HeaderRead(packet, selfDelimited)
    PROVE  HeaderShape(g, selfDelimited)
    <1>. DEFINE first == TocRead(packet)
                two   == [first EXCEPT !.count = 2]
                equal == [two EXCEPT !.cbr = TRUE]
    <1>1. /\ first \in Headers /\ first.left \in Nat /\ first.sizes = <<>>
          /\ first.count = 1
        BY TocReadLemma
    <1>2. HeaderRead(packet, selfDelimited)
            = CASE Code(Head(packet)) = 0 -> {first}
                [] Code(Head(packet)) = 1 -> IF selfDelimited THEN {equal} ELSE Shared(equal)
                [] Code(Head(packet)) = 2 -> NextSize(packet, two)
                [] Code(Head(packet)) = 3 -> Code3Read(packet, selfDelimited)
        BY Zenon DEF HeaderRead
    <1>. HIDE DEF first
    <1>3. /\ two \in Headers /\ two.left \in Nat /\ two.sizes = <<>> /\ two.count = 2
          /\ equal \in Headers /\ equal.left \in Nat /\ equal.count = 2 /\ equal.cbr
        BY <1>1 DEF Headers
    <1>. HIDE DEF two, equal
    <1>4. Code(Head(packet)) \in {0, 1, 2, 3}
        <2>1. Head(packet) \in Nat
            BY HeadTailProperties DEF Bytes
        <2>. QED BY <2>1 DEF Code
    <1>5. CASE Code(Head(packet)) = 0
        <2>1. g = first
            BY <1>2, <1>5
        <2>. QED BY <1>1, <2>1 DEF HeaderShape
    <1>6. CASE Code(Head(packet)) = 1
        <2>1. g \in IF selfDelimited THEN {equal} ELSE Shared(equal)
            BY <1>2, <1>6
        <2>2. CASE selfDelimited
            BY <1>3, <2>1, <2>2 DEF HeaderShape
        <2>3. CASE ~selfDelimited
            BY <1>3, <2>1, <2>3, SharedLemma DEF HeaderShape
        <2>. QED BY <2>2, <2>3
    <1>7. CASE Code(Head(packet)) = 2
        <2>1. g \in NextSize(packet, two)
            BY <1>2, <1>7
        <2>2. g \in Headers /\ Len(g.sizes) = Len(two.sizes) + 1 /\ g.count = two.count
            BY <1>3, <2>1, NextSizeLemma
        <2>. QED BY <1>3, <2>2 DEF HeaderShape
    <1>8. CASE Code(Head(packet)) = 3
        <2>1. g \in Code3Read(packet, selfDelimited)
            BY <1>2, <1>8
        <2>. QED BY <2>1, Code3Lemma
    <1>. QED BY <1>4, <1>5, <1>6, <1>7, <1>8

\* With the last size there is one for each frame.
LEMMA LastSizeLemma ==
    ASSUME NEW packet \in Bytes, NEW selfDelimited \in BOOLEAN,
           NEW h, HeaderShape(h, selfDelimited), NEW g \in LastSize(packet, h, selfDelimited)
    PROVE  g \in Headers /\ Len(g.sizes) = g.count
    <1>1. /\ h \in Headers /\ h.idx \in Nat /\ h.sizes \in Seq(Nat) /\ h.count \in Nat
          /\ h.last \in Nat /\ h.cbr \in BOOLEAN
        BY DEF HeaderShape, Headers
    <1>2. CASE selfDelimited
        <2>1. PICK s \in SizeAt(packet, h.idx) :
                g = [h EXCEPT !.idx = h.idx + s.bytes,
                              !.sizes = IF h.cbr THEN [n \in 1..h.count |-> s.size]
                                        ELSE Append(h.sizes, s.size)]
            BY <1>2 DEF LastSize, LastSizeRead
        <2>2. s.bytes \in {1, 2} /\ s.size \in Nat
            BY <1>1, SizeAtLemma
        <2>. DEFINE i == h.idx + s.bytes
                    z == IF h.cbr THEN [n \in 1..h.count |-> s.size]
                         ELSE Append(h.sizes, s.size)
        <2>3. i \in Nat
            BY <1>1, <2>2
        <2>4. z \in Seq(Nat) /\ Len(z) = h.count
            <3>1. CASE h.cbr
                BY <1>1, <2>2, <3>1
            <3>2. CASE ~h.cbr
                <4>1. Len(h.sizes) = h.count - 1
                    BY <3>2 DEF HeaderShape
                <4>. QED BY <1>1, <2>2, <3>2, <4>1
            <3>. QED BY <3>1, <3>2
        <2>5. g = [h EXCEPT !.idx = i, !.sizes = z]
            BY <2>1
        <2>. HIDE DEF i, z
        <2>. QED BY <1>1, <2>3, <2>4, <2>5 DEF Headers
    <1>3. CASE ~selfDelimited
        <2>1. g = [h EXCEPT !.sizes = Append(h.sizes, h.last)]
            <3>1. MaxFrameBytes \in Nat
                BY MaxByteAssumption DEF MaxFrameBytes
            <3>2. h.last > MaxFrameBytes \/ h.last <= MaxFrameBytes
                BY <1>1, <3>1
            <3>3. LastSize(packet, h, selfDelimited) # {}
                OBVIOUS
            <3>4. h.last <= MaxFrameBytes /\ ~(h.last > MaxFrameBytes)
                <4>1. CASE h.last > MaxFrameBytes
                    <5>1. LastSize(packet, h, selfDelimited) = {}
                        BY <1>1, <1>3, <3>1, <4>1 DEF LastSize
                    <5>. QED BY <3>3, <5>1
                <4>. QED BY <1>1, <3>1, <3>2, <4>1
            <3>. QED BY <1>3, <3>4 DEF LastSize
        <2>. DEFINE z == Append(h.sizes, h.last)
        <2>2. z \in Seq(Nat) /\ Len(z) = h.count
            <3>1. Len(h.sizes) = h.count - 1
                BY <1>3 DEF HeaderShape
            <3>. QED BY <1>1, <3>1
        <2>. HIDE DEF z
        <2>3. g = [h EXCEPT !.sizes = z]
            BY <2>1 DEF z
        <2>. QED BY <1>1, <2>2, <2>3 DEF Headers
    <1>. QED BY <1>2, <1>3

\* A packet that is read is not empty, and no longer than its bytes.
LEMMA ParseLemma ==
    ASSUME NEW packet \in Bytes, NEW selfDelimited \in BOOLEAN,
           NEW q \in Parse(packet, selfDelimited)
    PROVE  packet # <<>> /\ q.length \in 0..Len(packet)
    <1>1. packet # <<>>
        BY DEF Parse
    <1>2. PICK h \in HeaderRead(packet, selfDelimited) :
            q \in UNION {Cut(packet, g) : g \in LastSize(packet, h, selfDelimited)}
        BY <1>1 DEF Parse
    <1>3. PICK g \in LastSize(packet, h, selfDelimited) : q \in Cut(packet, g)
        BY <1>2
    <1>4. g \in Headers /\ Len(g.sizes) = g.count
        BY <1>1, HeaderReadLemma, LastSizeLemma
    <1>5. g.count \in 0..Len(g.sizes)
        BY <1>4 DEF Headers
    <1>. DEFINE end == FrameEnd(g, g.count)
    <1>6. end \in Nat
        BY <1>4, <1>5, FrameEndLemma
    <1>. HIDE DEF end
    <1>7. ~(end + g.pad > Len(packet)) /\ q.length = end + g.pad
        <2>1. Cut(packet, g) =
                IF end + g.pad > Len(packet) THEN {}
                ELSE {[toc |-> Head(packet),
                       frames |-> [n \in 1..g.count |->
                             SubSeq(packet, FrameEnd(g, n - 1) + 1, FrameEnd(g, n))],
                       padding |-> SubSeq(packet, end + 1, end + g.pad),
                       length |-> end + g.pad]}
            BY Zenon DEF Cut, end
        <2>. QED BY <1>3, <2>1
    <1>8. g.pad \in Nat /\ Len(packet) \in Nat
        BY <1>4 DEF Headers, Bytes
    <1>. QED BY <1>1, <1>6, <1>7, <1>8

\* The duration of a frame is a number,
LEMMA FrameUnitsLemma ==
    ASSUME NEW toc \in Nat
    PROVE  FrameUnits(toc) \in Nat
    <1>. DEFINE size == (toc \div 8) % 4
    <1>1. size \in {0, 1, 2, 3}
        OBVIOUS
    <1>2. 2^0 = 1 /\ 2^1 = 2 /\ 2^2 = 4 /\ 2^3 = 8
        OBVIOUS
    <1>. HIDE DEF size
    <1>3. 2^size \in Nat
        <2>1. size = 0 \/ size = 1 \/ size = 2 \/ size = 3
            BY <1>1
        <2>2. 2^size \in {2^0, 2^1, 2^2, 2^3}
            BY <2>1
        <2>. QED BY <1>2, <2>2
    <1>4. CASE toc >= 128
        <2>1. FrameUnits(toc) = 2^size
            BY <1>4 DEF FrameUnits, size
        <2>. QED BY <2>1, <1>3
    <1>5. CASE toc < 128 /\ toc % 128 >= 96
        <2>1. FrameUnits(toc) = IF size % 2 = 1 THEN 8 ELSE 4
            BY <1>5 DEF FrameUnits, size
        <2>. QED BY <2>1
    <1>6. CASE toc < 96
        <2>1. FrameUnits(toc) = IF size = 3 THEN 24 ELSE 4 * 2^size
            BY <1>6 DEF FrameUnits, size
        <2>. QED BY <2>1, <1>3
    <1>7. toc < 128 => toc % 128 = toc
        OBVIOUS
    <1>. QED BY <1>4, <1>5, <1>6, <1>7

\* and so is that of a packet.
LEMMA DurationLemma ==
    ASSUME NEW packet \in Bytes
    PROVE  Duration(packet) \subseteq Nat
    <1>1. CASE packet = <<>>
        BY <1>1 DEF Duration, FrameCount
    <1>2. CASE packet # <<>>
        <2>1. Head(packet) \in Nat
            BY <1>2, HeadTailProperties DEF Bytes
        <2>2. FrameUnits(Head(packet)) \in Nat
            BY <2>1, FrameUnitsLemma
        <2>3. FrameCount(packet) \subseteq Nat
            <3>1. Code(Head(packet)) \in {0, 1, 2, 3}
                BY <2>1 DEF Code
            <3>2. CASE Code(Head(packet)) \in {0, 1, 2}
                <4>1. FrameCount(packet) \in {{1}, {2}}
                    BY <1>2, <3>2 DEF FrameCount
                <4>. QED BY <4>1
            <3>3. CASE Code(Head(packet)) = 3
                <4>1. FrameCount(packet) = IF Len(packet) < 2 THEN {} ELSE {packet[2] % 64}
                    BY <1>2, <3>3 DEF FrameCount
                <4>2. Len(packet) >= 2 => packet[2] \in Nat
                    BY DEF Bytes
                <4>3. Len(packet) \in Nat
                    BY DEF Bytes
                <4>. QED BY <4>1, <4>2, <4>3
            <3>. QED BY <3>1, <3>2, <3>3
        <2>. DEFINE u == FrameUnits(Head(packet))
        <2>. HIDE DEF u
        <2>4. \A n \in FrameCount(packet) : n * u \in Nat
            BY <2>2, <2>3 DEF u
        <2>. QED BY <2>4 DEF Duration, u
    <1>. QED BY <1>1, <1>2


-------------------------------------------------------------------------------
(***************************************************************************)
(* Packets of one frame.                                                   *)
(***************************************************************************)

\* A packet whose TOC byte says that it has one frame.
OneFrame(packet) == packet # <<>> /\ Code(Head(packet)) = 0

\* The frame of a packet whose last header is h.
LEMMA OneFrameCut ==
    ASSUME NEW packet \in Bytes, NEW h \in Headers, h.count = 1, h.pad = 0, Len(h.sizes) = 1,
           h.idx + h.sizes[1] <= Len(packet)
    PROVE  \E q : /\ Cut(packet, h) = {q} /\ q.length = h.idx + h.sizes[1]
                  /\ q.frames = [n \in 1..1 |-> SubSeq(packet, h.idx + 1, h.idx + h.sizes[1])]
    <1>. DEFINE end == FrameEnd(h, h.count)
                frames == [n \in 1..h.count |->
                             SubSeq(packet, FrameEnd(h, n - 1) + 1, FrameEnd(h, n))]
                q == [toc |-> Head(packet), frames |-> frames,
                      padding |-> SubSeq(packet, end + 1, end + h.pad),
                      length |-> end + h.pad]
    <1>1. Cut(packet, h) = IF end + h.pad > Len(packet) THEN {} ELSE {q}
        BY Zenon DEF Cut
    <1>2. FrameEnd(h, 0) = h.idx /\ FrameEnd(h, 1) = h.idx + h.sizes[1]
        <2>1. 0 \in 0..Len(h.sizes) /\ 1 \in 0..Len(h.sizes)
            OBVIOUS
        <2>. QED BY <2>1, FrameEndLemma
    <1>3. h.idx + h.sizes[1] \in Nat /\ Len(packet) \in Nat
        BY DEF Headers, Bytes
    <1>4. end + h.pad = h.idx + h.sizes[1] /\ ~(end + h.pad > Len(packet))
        BY <1>2, <1>3
    <1>5. frames = [n \in 1..1 |-> SubSeq(packet, h.idx + 1, h.idx + h.sizes[1])]
        <2>1. \A n \in 1..1 : n = 1 /\ n - 1 = 0
            OBVIOUS
        <2>2. \A n \in 1..1 : SubSeq(packet, FrameEnd(h, n - 1) + 1, FrameEnd(h, n))
                                = SubSeq(packet, h.idx + 1, h.idx + h.sizes[1])
            BY <1>2, <2>1
        <2>. QED BY <2>2, Zenon
    <1>. HIDE DEF end, frames
    <1>6. q.length = h.idx + h.sizes[1] /\ q.frames = frames
        BY <1>4
    <1>. HIDE DEF q
    <1>. QED BY <1>1, <1>4, <1>5, <1>6

\* Its header is the TOC byte.
LEMMA OneFrameHeader ==
    ASSUME NEW packet, OneFrame(packet), NEW selfDelimited
    PROVE  HeaderRead(packet, selfDelimited) = {TocRead(packet)}
    BY DEF HeaderRead, OneFrame

\* The packet is read, with one frame, at these positions.
ReadsFrame(packet, selfDelimited, from, to) ==
    \E q : /\ Parse(packet, selfDelimited) = {q} /\ q.length = to
           /\ q.frames = [m \in 1..1 |-> SubSeq(packet, from, to)]

\* It is read: its frame follows the TOC byte, or the size if there is one, and
\* ends at the packet's end, or where the size says.
LEMMA OneFrameParse ==
    ASSUME NEW packet \in Bytes, OneFrame(packet), NEW selfDelimited \in BOOLEAN,
           NEW b \in Nat, NEW n \in Nat, b + n <= Len(packet) - 1,
           selfDelimited => SizeAt(packet, 1) = {[bytes |-> b, size |-> n]},
           ~selfDelimited => b = 0 /\ n = Len(packet) - 1 /\ n <= MaxFrameBytes
    PROVE  ReadsFrame(packet, selfDelimited, b + 2, 1 + b + n)
    <1>. DEFINE first == TocRead(packet)
                i == 1 + b
                h == [first EXCEPT !.idx = i, !.sizes = <<n>>]
    <1>1. /\ first \in Headers /\ first.left = Len(packet) - 1 /\ first.last = Len(packet) - 1
          /\ first.sizes = <<>> /\ first.idx = 1 /\ first.count = 1 /\ first.pad = 0
          /\ first.cbr = FALSE
        BY TocReadLemma DEF OneFrame, TocRead
    <1>2. HeaderRead(packet, selfDelimited) = {first}
        BY OneFrameHeader
    <1>. HIDE DEF first
    <1>3. i \in Nat /\ <<n>> \in Seq(Nat) /\ Len(<<n>>) = 1 /\ <<n>>[1] = n
        OBVIOUS
    <1>. HIDE DEF i
    <1>4. h \in Headers /\ h.idx = i /\ h.sizes = <<n>> /\ h.count = 1 /\ h.pad = 0
        BY <1>1, <1>3 DEF Headers
    <1>5. Append(<<>>, n) = <<n>>
        OBVIOUS
    <1>6. LastSize(packet, first, selfDelimited) = {h}
        <2>1. CASE selfDelimited
            <3>. DEFINE s == [bytes |-> b, size |-> n]
                        fits(t) == IF first.cbr THEN t.bytes + t.size * first.count <= first.left
                                   ELSE t.bytes + t.size <= first.last
                        out(t) == [first EXCEPT !.idx = first.idx + t.bytes,
                                     !.sizes = IF first.cbr THEN [m \in 1..first.count |-> t.size]
                                               ELSE Append(first.sizes, t.size)]
            <3>1. LastSize(packet, first, selfDelimited) = LastSizeRead(packet, first)
                BY <2>1 DEF LastSize
            <3>2. LastSizeRead(packet, first) = {out(t) : t \in {u \in SizeAt(packet, first.idx) : fits(u)}}
                BY DEF LastSizeRead
            <3>3. SizeAt(packet, first.idx) = {s}
                BY <1>1, <2>1
            <3>4. fits(s)
                BY <1>1
            <3>5. out(s) = h
                <4>1. first.idx + s.bytes = i
                    BY <1>1 DEF i
                <4>2. Append(first.sizes, s.size) = <<n>>
                    BY <1>1, <1>5
                <4>. QED BY <1>1, <4>1, <4>2
            <3>. HIDE DEF s, fits, out, h
            <3>6. {u \in SizeAt(packet, first.idx) : fits(u)} = {s}
                BY <3>3, <3>4
            <3>7. {out(t) : t \in {u \in SizeAt(packet, first.idx) : fits(u)}} = {out(s)}
                BY <3>6
            <3>. QED BY <3>1, <3>2, <3>5, <3>7
        <2>2. CASE ~selfDelimited
            <3>1. first.last = n /\ n <= MaxFrameBytes /\ ~(first.last > MaxFrameBytes) /\ i = 1
                <4>1. MaxFrameBytes \in Nat
                    BY MaxByteAssumption DEF MaxFrameBytes
                <4>. QED BY <1>1, <2>2, <4>1 DEF i
            <3>2. LastSize(packet, first, selfDelimited)
                    = {[first EXCEPT !.sizes = Append(first.sizes, first.last)]}
                BY <2>2, <3>1 DEF LastSize
            <3>3. Append(first.sizes, first.last) = <<n>>
                BY <1>1, <1>5, <3>1
            <3>4. h = [first EXCEPT !.sizes = <<n>>]
                BY <1>1, <3>1 DEF Headers
            <3>. HIDE DEF h
            <3>. QED BY <3>2, <3>3, <3>4
        <2>. QED BY <2>1, <2>2
    <1>. HIDE DEF h
    <1>7. Parse(packet, selfDelimited) = Cut(packet, h)
        BY <1>2, <1>6 DEF Parse, OneFrame
    <1>8. h.idx + h.sizes[1] = 1 + b + n /\ h.idx + h.sizes[1] <= Len(packet) /\ h.idx + 1 = b + 2
        <2>1. Len(packet) \in Nat
            BY DEF Bytes
        <2>. QED BY <1>3, <1>4, <2>1 DEF i
    <1>9. \E q : /\ Cut(packet, h) = {q} /\ q.length = h.idx + h.sizes[1]
                 /\ q.frames = [m \in 1..1 |-> SubSeq(packet, h.idx + 1, h.idx + h.sizes[1])]
        <2>1. Len(h.sizes) = 1
            BY <1>3, <1>4
        <2>. QED BY <1>4, <1>8, <2>1, OneFrameCut
    <1>. QED BY <1>7, <1>8, <1>9 DEF ReadsFrame

\* Its duration depends on the TOC byte alone.
LEMMA OneFrameDuration ==
    ASSUME NEW a, OneFrame(a), NEW b, OneFrame(b), Head(a) = Head(b)
    PROVE  Duration(a) = Duration(b)
    <1>1. FrameCount(a) = {1} /\ FrameCount(b) = {1}
        BY DEF FrameCount, OneFrame
    <1>. QED BY <1>1 DEF Duration

===============================================================================
