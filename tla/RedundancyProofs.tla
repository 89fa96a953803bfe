-------------------------- MODULE RedundancyProofs --------------------------
(***************************************************************************)
(* Proofs about SignalAnalysis and DredEncoder.                            *)
(***************************************************************************)
EXTENDS SignalAnalysis, DredEncoder, FiniteSetTheorems, WellFoundedInduction, TLAPS

(* A number between -m and 2 m, modulo m.                                  *)
LEMMA ModLemma ==
  ASSUME NEW m \in Nat, m > 0, NEW x \in Int
  PROVE  /\ 0 <= x /\ x < m => x % m = x
         /\ -m <= x /\ x < 0 => x % m = x + m
         /\ m <= x /\ x < 2 * m => x % m = x - m
<1>1. ASSUME 0 <= x, x < m PROVE x % m = x
  BY <1>1
<1>2. ASSUME -m <= x, x < 0 PROVE x % m = x + m
  BY <1>2
<1>3. ASSUME m <= x, x < 2 * m PROVE x % m = x - m
  BY <1>3
<1>4. QED
  BY ONLY <1>1, <1>2, <1>3

(***************************************************************************)
(* The ring.  Blocks finished after a slot was written; slots that the     *)
(* reader is behind the writer; the ages of the slots when n of them have  *)
(* been written.                                                           *)
(***************************************************************************)
D == DetectSize
Since(w, p) == IF p < w THEN w - 1 - p ELSE w - 1 - p + D
Behind(w, r) == IF r <= w THEN w - r ELSE w - r + D
Ages(w, n) == [p \in Slots |-> IF Since(w, p) < n THEN Since(w, p) ELSE -1]

Ring == D \in Nat /\ D > Spare

(* A reader that is b units behind the audio that the writer has seen.     *)
Places == [fill : Early .. Buffer - 1, write : Slots, read : Slots,
           sub : 0 .. BlockUnits - 1, offset : {0}]
Units(t) == BlockUnits * Behind(t.write, t.read) + t.fill - Early - t.sub
Good(s, b) ==
  /\ s = [t |-> s.t, age |-> s.age] /\ s.t \in Places
  /\ \E n \in 0 .. D : s.age = Ages(s.t.write, n) /\ Behind(s.t.write, s.t.read) <= n
  /\ Units(s.t) = b

(* Of the slots: what they are, one up and one down.                       *)
LEMMA SlotLemma ==
  ASSUME Ring, NEW w \in Slots, NEW p \in Slots
  PROVE  /\ w \in Int /\ p \in Int /\ 0 <= p /\ p < D /\ 0 <= w /\ w < D
         /\ Since(w, p) \in 0 .. D - 1 /\ Behind(w, p) \in 0 .. D - 1
         /\ Up(w) = IF w = D - 1 THEN 0 ELSE w + 1
         /\ Up(w) \in Slots /\ Down(w) \in Slots
         /\ (w - p) % D = Behind(w, p)
         /\ (w - p - 1) % D = Since(w, p)
<1>1. D \in Nat /\ D > 5 /\ w \in Int /\ p \in Int /\ 0 <= p /\ p < D /\ 0 <= w /\ w < D
  BY DEF Ring, Slots, D, Spare
<1>2. Since(w, p) \in 0 .. D - 1 /\ Behind(w, p) \in 0 .. D - 1
  BY <1>1 DEF Since, Behind
<1>3. (w + 1) % D = IF w = D - 1 THEN 0 ELSE w + 1
  <2>1. 0 <= w + 1 /\ w + 1 < D => (w + 1) % D = w + 1
    BY <1>1, ModLemma
  <2>2. D <= w + 1 /\ w + 1 < 2 * D => (w + 1) % D = w + 1 - D
    BY <1>1, ModLemma
  <2>3. QED
    BY ONLY <1>1, <2>1, <2>2
<1>4. (w - p) % D = Behind(w, p)
  <2>1. /\ 0 <= w - p /\ w - p < D => (w - p) % D = w - p
        /\ -D <= w - p /\ w - p < 0 => (w - p) % D = w - p + D
    BY <1>1, ModLemma
  <2>2. QED
    BY <1>1, <2>1 DEF Behind
<1>5. (w - p - 1) % D = Since(w, p)
  <2>1. /\ 0 <= w - p - 1 /\ w - p - 1 < D => (w - p - 1) % D = w - p - 1
        /\ -D <= w - p - 1 /\ w - p - 1 < 0 => (w - p - 1) % D = w - p - 1 + D
    BY <1>1, ModLemma
  <2>2. QED
    BY <1>1, <2>1 DEF Since
<1>6. Up(w) \in Slots /\ Down(w) \in Slots
  BY <1>1, <1>3 DEF Up, Down, Slots, D
<1>7. QED
  BY <1>1, <1>2, <1>3, <1>4, <1>5, <1>6 DEF Up, D

(* A block that is finished is the newest, and every other one older.      *)
LEMMA FinishedLemma ==
  ASSUME Ring, NEW s, s.t \in Places, NEW n \in 0 .. D, s.age = Ages(s.t.write, n)
  PROVE  Finished(s) = Ages(Up(s.t.write), IF n = D THEN D ELSE n + 1)
<1> DEFINE w == s.t.write
           m == IF n = D THEN D ELSE n + 1
           f(p) == IF p = s.t.write THEN 0 ELSE IF s.age[p] = -1 THEN -1 ELSE s.age[p] + 1
           g(p) == IF Since(Up(w), p) < m THEN Since(Up(w), p) ELSE -1
<1>1. w \in Slots /\ n \in Nat /\ n <= D /\ D \in Nat /\ D > 5
  BY DEF Places, Ring, D, Spare
<1>2. ASSUME NEW p \in Slots
      PROVE  f(p) = g(p)
  <2>1. /\ p \in Int /\ 0 <= p /\ p < D /\ w \in Int /\ 0 <= w /\ w < D
        /\ Up(w) = IF w = D - 1 THEN 0 ELSE w + 1
        /\ Since(w, p) \in 0 .. D - 1
    BY <1>1, SlotLemma
  <2>2. Since(Up(w), p) = IF p = w THEN 0 ELSE Since(w, p) + 1
    BY <1>1, <2>1 DEF Since
  <2>3. p # w => Since(w, p) < D - 1
    BY <1>1, <2>1 DEF Since
  <2>4. s.age[p] = IF Since(w, p) < n THEN Since(w, p) ELSE -1
    BY DEF Ages
  <2> HIDE DEF w
  <2>5. f(p) = IF p = w THEN 0 ELSE IF Since(w, p) < n THEN Since(w, p) + 1 ELSE -1
    BY <2>1, <2>4 DEF w
  <2>6. m \in Nat /\ m > 0
    BY <1>1
  <2>7. CASE p = w
    BY <2>2, <2>5, <2>6, <2>7
  <2>8. CASE p # w
    <3>1. Since(w, p) + 1 < m <=> Since(w, p) < n
      BY <1>1, <2>1, <2>3, <2>8
    <3> HIDE DEF m
    <3>2. QED
      BY <2>1, <2>2, <2>5, <2>8, <3>1
  <2>9. QED
    BY <2>7, <2>8
<1>3. Finished(s) = [p \in Slots |-> f(p)]
  BY DEF Finished
<1>4. Ages(Up(w), m) = [p \in Slots |-> g(p)]
  BY Zenon DEF Ages
<1> HIDE DEF f, g
<1>5. [p \in Slots |-> f(p)] = [p \in Slots |-> g(p)]
  BY <1>2, Zenon
<1>6. QED
  BY <1>3, <1>4, <1>5

(* A slot less behind than before, or one more.                            *)
LEMMA BehindUp ==
  ASSUME Ring, NEW w \in Slots, NEW r \in Slots
  PROVE  /\ Behind(w, r) < D - 1 => Behind(Up(w), r) = Behind(w, r) + 1
         /\ \A k \in 0 .. Behind(w, r) : /\ (r + k) % D \in Slots
                                         /\ Behind(w, (r + k) % D) = Behind(w, r) - k
<1>1. /\ D \in Nat /\ D > 5 /\ w \in Int /\ r \in Int /\ 0 <= w /\ w < D /\ 0 <= r /\ r < D
      /\ Behind(w, r) \in 0 .. D - 1
      /\ Up(w) = IF w = D - 1 THEN 0 ELSE w + 1
  BY SlotLemma DEF Ring, Spare
<1>2. Behind(w, r) < D - 1 => Behind(Up(w), r) = Behind(w, r) + 1
  BY <1>1 DEF Behind
<1>3. ASSUME NEW k \in 0 .. Behind(w, r)
      PROVE  (r + k) % D \in Slots /\ Behind(w, (r + k) % D) = Behind(w, r) - k
  <2>1. k \in Int /\ 0 <= k /\ k <= Behind(w, r) /\ Behind(w, r) < D
    BY <1>1
  <2>2. /\ 0 <= r + k /\ r + k < D => (r + k) % D = r + k
        /\ D <= r + k /\ r + k < 2 * D => (r + k) % D = r + k - D
    BY <1>1, <2>1, ModLemma
  <2>3. QED
    BY <1>1, <2>1, <2>2 DEF Behind, Slots, D
<1>4. QED
  BY <1>2, <1>3

(* A place with its writer moved.                                          *)
LEMMA FilledLemma ==
  ASSUME NEW t, t \in Places, NEW f, NEW g
  PROVE  [t EXCEPT !.fill = f, !.write = g]
           = [fill |-> f, write |-> g, read |-> t.read, sub |-> t.sub, offset |-> t.offset]
<1> DEFINE x == [t EXCEPT !.fill = f]
<1>1. x = [fill |-> f, write |-> t.write, read |-> t.read, sub |-> t.sub, offset |-> t.offset]
  BY DEF Places
<1>2. [t EXCEPT !.fill = f, !.write = g] = [x EXCEPT !.write = g]
  OBVIOUS
<1> HIDE DEF x
<1>3. [x EXCEPT !.write = g]
        = [fill |-> f, write |-> g, read |-> t.read, sub |-> t.sub, offset |-> t.offset]
  BY <1>1
<1>4. QED
  BY ONLY <1>2, <1>3

(* A place with its reader moved.                                          *)
LEMMA MovedLemma ==
  ASSUME NEW t, t \in Places, NEW f, NEW g
  PROVE  [t EXCEPT !.sub = f, !.read = g]
           = [fill |-> t.fill, write |-> t.write, read |-> g, sub |-> f, offset |-> t.offset]
<1> DEFINE x == [t EXCEPT !.sub = f]
<1>1. x = [fill |-> t.fill, write |-> t.write, read |-> t.read, sub |-> f, offset |-> t.offset]
  BY DEF Places
<1>2. [t EXCEPT !.sub = f, !.read = g] = [x EXCEPT !.read = g]
  OBVIOUS
<1> HIDE DEF x
<1>3. [x EXCEPT !.read = g]
        = [fill |-> t.fill, write |-> t.write, read |-> g, sub |-> f, offset |-> t.offset]
  BY <1>1
<1>4. QED
  BY ONLY <1>2, <1>3

(* A place with its reader put back.                                       *)
LEMMA RestoredLemma ==
  ASSUME NEW t, t \in Places, NEW f, NEW g
  PROVE  [t EXCEPT !.read = f, !.sub = g]
           = [fill |-> t.fill, write |-> t.write, read |-> f, sub |-> g, offset |-> t.offset]
<1> DEFINE x == [t EXCEPT !.read = f]
<1>1. x = [fill |-> t.fill, write |-> t.write, read |-> f, sub |-> t.sub, offset |-> t.offset]
  BY DEF Places
<1>2. [t EXCEPT !.read = f, !.sub = g] = [x EXCEPT !.sub = g]
  OBVIOUS
<1> HIDE DEF x
<1>3. [x EXCEPT !.sub = g]
        = [fill |-> t.fill, write |-> t.write, read |-> f, sub |-> g, offset |-> t.offset]
  BY <1>1
<1>4. QED
  BY ONLY <1>2, <1>3

(* A chunk is looked at.                                                   *)
LEMMA ChunkLemma ==
  ASSUME Ring, NEW b \in Int, NEW s, Good(s, b), NEW u \in 1 .. BlockUnits,
         b + u + 7 < BlockUnits * D
  PROVE  /\ Good(Chunk(s, u), b + u)
         /\ Chunk(s, u).t.read = s.t.read /\ Chunk(s, u).t.sub = s.t.sub
<1> DEFINE t == s.t
           a == s.age
<1>1. /\ t \in Places /\ s = [t |-> t, age |-> a] /\ Units(t) = b
      /\ u \in Int /\ 1 <= u /\ u <= 8 /\ D \in Nat /\ D > 5
  BY DEF Good, Ring, Spare, BlockUnits
<1>2. PICK n \in 0 .. D : a = Ages(t.write, n) /\ Behind(t.write, t.read) <= n
  BY DEF Good
<1>3. /\ t.fill \in 4 .. 11 /\ t.write \in Slots /\ t.read \in Slots /\ t.sub \in 0 .. 7
      /\ t.offset = 0
      /\ t = [fill |-> t.fill, write |-> t.write, read |-> t.read, sub |-> t.sub,
              offset |-> t.offset]
  BY <1>1 DEF Places, Early, Buffer, BlockUnits
<1>4. Behind(t.write, t.read) \in 0 .. D - 1
  BY <1>3, SlotLemma
<1>5. b = 8 * Behind(t.write, t.read) + t.fill - 4 - t.sub
  BY <1>1 DEF Units, BlockUnits, Early
<1>6. CASE t.fill + u < Buffer
  <2> DEFINE new == [fill |-> t.fill + u, write |-> t.write, read |-> t.read, sub |-> t.sub,
                     offset |-> t.offset]
  <2>1. Chunk(s, u) = [s EXCEPT !.t.fill = @ + u]
    BY <1>6 DEF Chunk
  <2>2. Chunk(s, u) = [t |-> new, age |-> a]
    <3>1. [s EXCEPT !.t.fill = @ + u] = [t |-> [t EXCEPT !.fill = @ + u], age |-> a]
      <4> HIDE DEF t, a
      <4>1. QED
        BY <1>1
    <3>2. [t EXCEPT !.fill = @ + u] = new
      <4> HIDE DEF t
      <4>1. QED
        BY <1>3
    <3>3. QED
      BY <2>1, <3>1, <3>2
  <2>3. new \in Places
    BY <1>1, <1>3, <1>6 DEF Places, Early, Buffer, BlockUnits
  <2>4. Units(new) = b + u
    <3>1. Units(new) = 8 * Behind(t.write, t.read) + (t.fill + u) - 4 - t.sub
      BY DEF Units, BlockUnits, Early
    <3> HIDE DEF new, t
    <3>2. QED
      BY <1>1, <1>3, <1>4, <1>5, <3>1
  <2>5. Good(Chunk(s, u), b + u)
    <3>1. Chunk(s, u).t = new /\ Chunk(s, u).age = a /\ new.write = t.write /\ new.read = t.read
      BY <2>2
    <3> HIDE DEF new, t, a
    <3>2. QED
      BY <1>2, <2>2, <2>3, <2>4, <3>1 DEF Good
  <2>6. QED
    BY <2>2, <2>5
<1>7. CASE ~(t.fill + u < Buffer)
  <2> DEFINE new == [fill |-> t.fill + u - 8, write |-> Up(t.write), read |-> t.read,
                     sub |-> t.sub, offset |-> t.offset]
             m == IF n = D THEN D ELSE n + 1
  <2>1. Chunk(s, u) = [t |-> [t EXCEPT !.fill = Early + u - (Buffer - @), !.write = Up(@)],
                       age |-> Finished(s)]
    BY <1>7 DEF Chunk
  <2>2. [t EXCEPT !.fill = Early + u - (Buffer - @), !.write = Up(@)] = new
    <3>1. Early + u - (Buffer - t.fill) = t.fill + u - 8
      BY <1>1, <1>3 DEF Early, Buffer
    <3> DEFINE f == Early + u - (Buffer - t.fill)
               g == Up(t.write)
    <3>2. [t EXCEPT !.fill = Early + u - (Buffer - @), !.write = Up(@)]
             = [t EXCEPT !.fill = f, !.write = g]
      BY <1>3
    <3>3. [t EXCEPT !.fill = f, !.write = g]
            = [fill |-> f, write |-> g, read |-> t.read, sub |-> t.sub, offset |-> t.offset]
      <4> HIDE DEF f, g, t
      <4>1. t \in Places
        BY <1>1
      <4>2. QED
        BY ONLY <4>1, FilledLemma, Zenon
    <3>4. QED
      BY <3>1, <3>2, <3>3
  <2>3. Finished(s) = Ages(Up(t.write), m)
    BY <1>1, <1>2, FinishedLemma
  <2>4. Up(t.write) \in Slots
    BY <1>3, SlotLemma
  <2>5. new \in Places
    <3>1. t.fill + u - 8 \in 4 .. 11
      BY <1>1, <1>3, <1>7 DEF Buffer
    <3>2. QED
      BY <1>1, <1>3, <2>4, <3>1 DEF Places, Early, Buffer, BlockUnits
  <2>6. Behind(t.write, t.read) < D - 1
    <3>1. t.fill + u >= 12 /\ b + u + 7 < 8 * D
      BY <1>1, <1>3, <1>7 DEF Buffer, BlockUnits
    <3> HIDE DEF t
    <3>2. QED
      BY <1>1, <1>3, <1>4, <1>5, <3>1
  <2>7. Behind(Up(t.write), t.read) = Behind(t.write, t.read) + 1
    BY <1>3, <2>6, BehindUp
  <2>8. Units(new) = b + u
    <3>1. Units(new) = 8 * Behind(Up(t.write), t.read) + (t.fill + u - 8) - 4 - t.sub
      BY DEF Units, BlockUnits, Early
    <3> HIDE DEF new, t
    <3>2. QED
      BY <1>1, <1>3, <1>4, <1>5, <2>7, <3>1
  <2>9. m \in 0 .. D /\ Behind(Up(t.write), t.read) <= m
    <3> HIDE DEF t
    <3>1. QED
      BY <1>1, <1>2, <1>4, <2>6, <2>7
  <2>10. Good(Chunk(s, u), b + u)
    <3>1. /\ Chunk(s, u) = [t |-> new, age |-> Finished(s)]
          /\ Chunk(s, u).t = new /\ Chunk(s, u).age = Finished(s)
          /\ new.write = Up(t.write) /\ new.read = t.read
      BY <2>1, <2>2
    <3> HIDE DEF new, t, a, m
    <3>2. QED
      BY <2>3, <2>5, <2>8, <2>9, <3>1 DEF Good
  <2>11. Chunk(s, u).t.read = t.read /\ Chunk(s, u).t.sub = t.sub
    <3>1. Chunk(s, u).t = new
      BY <2>1, <2>2
    <3>2. QED
      BY <3>1
  <2>12. QED
    BY <2>10, <2>11
<1> HIDE DEF t, a
<1>8. QED
  BY ONLY <1>6, <1>7, Zenon

(* The chunks of a packet, one after another, from where the last ended.   *)
LEMMA ChunksExist ==
  ASSUME NEW m \in 0 .. 6
  PROVE  \E f : f = [n \in 0 .. m |-> IF n = 0 THEN [t |-> tonal, age |-> age]
                                    ELSE Chunk(f[n - 1], BlockUnits)]
<1> DEFINE x == [t |-> tonal, age |-> age]
           next(y) == Chunk(y, BlockUnits)
           x1 == next(x)
           x2 == next(x1)
           x3 == next(x2)
           x4 == next(x3)
           x5 == next(x4)
           x6 == next(x5)
           all == <<x1, x2, x3, x4, x5, x6>>
           g == [n \in 0 .. m |-> IF n = 0 THEN x ELSE all[n]]
           v(n) == IF n = 0 THEN x ELSE next(g[n - 1])
           r(n) == IF n = 0 THEN x ELSE all[n]
<1>1. /\ all[1] = next(x) /\ all[2] = next(all[1]) /\ all[3] = next(all[2])
      /\ all[4] = next(all[3]) /\ all[5] = next(all[4]) /\ all[6] = next(all[5])
  <2> HIDE DEF next
  <2>1. QED
    OBVIOUS
<1> HIDE DEF next, all, x
<1>2. ASSUME NEW n \in 0 .. m
      PROVE  r(n) = v(n)
  <2>1. CASE n = 0
    BY <2>1
  <2>2. CASE n # 0
    <3>1. n \in 1 .. 6 /\ n - 1 \in 0 .. m
      BY <2>2
    <3>2. g[n - 1] = IF n - 1 = 0 THEN x ELSE all[n - 1]
      BY <3>1
    <3> HIDE DEF g
    <3>3. all[n] = next(IF n - 1 = 0 THEN x ELSE all[n - 1])
      <4>1. n = 1 \/ n = 2 \/ n = 3 \/ n = 4 \/ n = 5 \/ n = 6
        BY <3>1
      <4>2. QED
        BY <1>1, <4>1
    <3>4. QED
      BY <2>2, <3>2, <3>3
  <2>3. QED
    BY <2>1, <2>2
<1>3. g = [n \in 0 .. m |-> v(n)]
  <2>1. g = [n \in 0 .. m |-> r(n)]
    OBVIOUS
  <2> HIDE DEF g, r, v
  <2>2. [n \in 0 .. m |-> r(n)] = [n \in 0 .. m |-> v(n)]
    BY <1>2, Zenon
  <2>3. QED
    BY <2>1, <2>2
<1>4. g = [n \in 0 .. m |-> IF n = 0 THEN x ELSE Chunk(g[n - 1], BlockUnits)]
  BY <1>3 DEF next
<1> HIDE DEF g, r, v
<1> USE DEF x
<1>5. QED
  BY <1>4, Zenon

(* A packet is looked at.                                                  *)
LEMMA LookedLemma ==
  ASSUME Ring, NEW b \in Int, Good([t |-> tonal, age |-> age], b), NEW units \in Durations,
         units < BlockUnits * (D - Spare), b + units + 7 < BlockUnits * D
  PROVE  /\ Good(Looked(units), b + units)
         /\ Looked(units).t.read = tonal.read /\ Looked(units).t.sub = tonal.sub
<1> DEFINE most == Lower((DetectSize - Spare) * BlockUnits, units)
           new == most - tonal.offset
           m == new \div BlockUnits
           x == [t |-> tonal, age |-> age]
           fed == CHOOSE f : f = [n \in 0 .. m |->
                                    IF n = 0 THEN x ELSE Chunk(f[n - 1], BlockUnits)]
           whole == fed[m]
           rest == new % BlockUnits
           last == IF rest = 0 THEN whole ELSE Chunk(whole, rest)
<1>1. Looked(units) = [last EXCEPT !.t.offset = most - units]
  BY Zenon DEF Looked
<1>2. tonal \in Places /\ tonal.offset = 0 /\ x.t = tonal
  BY DEF Good, Places
<1>3. units \in 1 .. 48 /\ D \in Nat /\ D > 5 /\ units < 8 * (D - 5) /\ b + units + 7 < 8 * D
  BY DEF Durations, Ring, Spare, BlockUnits
<1>4. most = units /\ new = units
  BY <1>2, <1>3 DEF Lower, D, Spare, BlockUnits
<1>5. /\ m \in 0 .. 6 /\ rest \in 0 .. 7 /\ units = 8 * m + rest
  <2>1. m = units \div 8 /\ rest = units % 8
    BY <1>4 DEF BlockUnits
  <2> HIDE DEF m, rest
  <2>2. QED
    BY <1>3, <2>1
<1> HIDE DEF most, new, m, rest, x
<1>6. fed = [n \in 0 .. m |-> IF n = 0 THEN x ELSE Chunk(fed[n - 1], BlockUnits)]
  <2>1. \E f : f = [n \in 0 .. m |-> IF n = 0 THEN x ELSE Chunk(f[n - 1], BlockUnits)]
    <3>1. m \in 0 .. 6
      BY <1>5
    <3>2. QED
      BY <3>1, ChunksExist, Zenon DEF x
  <2>2. QED
    BY <2>1, Zenon
<1> DEFINE P(k) == /\ Good(fed[k], b + 8 * k)
                   /\ fed[k].t.read = tonal.read /\ fed[k].t.sub = tonal.sub
<1> HIDE DEF fed
<1>7. fed[0] = x /\ \A k \in 1 .. m : fed[k] = Chunk(fed[k - 1], BlockUnits)
  <2>1. ASSUME NEW k \in 0 .. m
        PROVE  fed[k] = IF k = 0 THEN x ELSE Chunk(fed[k - 1], BlockUnits)
    <3> DEFINE all == [n \in 0 .. m |-> IF n = 0 THEN x ELSE Chunk(fed[n - 1], BlockUnits)]
    <3>1. all[k] = IF k = 0 THEN x ELSE Chunk(fed[k - 1], BlockUnits)
      OBVIOUS
    <3>2. fed = all
      BY <1>6
    <3>3. QED
      BY <3>1, <3>2
  <2>2. QED
    BY <1>5, <2>1
<1>8. P(0)
  BY <1>2, <1>7 DEF x
<1>9. ASSUME NEW k \in 0 .. m - 1, P(k)
      PROVE  P(k + 1)
  <2>1. fed[k + 1] = Chunk(fed[k], BlockUnits)
    BY <1>5, <1>7
  <2>2. BlockUnits \in 1 .. BlockUnits /\ BlockUnits = 8
    BY DEF BlockUnits
  <2>3. b + 8 * k \in Int /\ b + 8 * k + 8 + 7 < 8 * D
    BY <1>3, <1>5
  <2> DEFINE c == b + 8 * k
  <2>4. b + 8 * (k + 1) = c + BlockUnits
    BY <1>5, <2>2
  <2>5. c \in Int /\ c + BlockUnits + 7 < BlockUnits * D /\ Good(fed[k], c)
    BY <1>9, <2>2, <2>3
  <2> HIDE DEF c
  <2>6. Good(Chunk(fed[k], BlockUnits), c + BlockUnits)
        /\ Chunk(fed[k], BlockUnits).t.read = fed[k].t.read
        /\ Chunk(fed[k], BlockUnits).t.sub = fed[k].t.sub
    BY <2>2, <2>5, ChunkLemma
  <2>7. QED
    BY <1>9, <2>1, <2>4, <2>6
<1> HIDE DEF P
<1>10. P(m)
  <2>1. 0 < m => P(1)
    BY <1>5, <1>8, <1>9
  <2>2. 1 < m => P(2)
    BY <1>5, <2>1, <1>9
  <2>3. 2 < m => P(3)
    BY <1>5, <2>2, <1>9
  <2>4. 3 < m => P(4)
    BY <1>5, <2>3, <1>9
  <2>5. 4 < m => P(5)
    BY <1>5, <2>4, <1>9
  <2>6. 5 < m => P(6)
    BY <1>5, <2>5, <1>9
  <2>7. m = 0 \/ m = 1 \/ m = 2 \/ m = 3 \/ m = 4 \/ m = 5 \/ m = 6
    BY <1>5
  <2>8. QED
    BY <1>8, <2>1, <2>2, <2>3, <2>4, <2>5, <2>6, <2>7
<1>11. Good(last, b + units) /\ last.t.read = tonal.read /\ last.t.sub = tonal.sub
  <2>1. CASE rest = 0
    <3>1. b + units = b + 8 * m
      BY <1>5, <2>1
    <3>2. QED
      BY <1>10, <2>1, <3>1 DEF P
  <2>2. CASE rest # 0
    <3> DEFINE c == b + 8 * m
    <3>1. /\ b + units = c + rest /\ c \in Int /\ rest \in 1 .. BlockUnits
          /\ c + rest + 7 < BlockUnits * D
      BY <1>3, <1>5, <2>2 DEF BlockUnits
    <3>2. Good(whole, c)
      BY <1>10 DEF P
    <3> HIDE DEF c
    <3>3. /\ Good(Chunk(whole, rest), c + rest)
          /\ Chunk(whole, rest).t.read = whole.t.read /\ Chunk(whole, rest).t.sub = whole.t.sub
      BY <3>1, <3>2, ChunkLemma
    <3>4. QED
      BY <1>10, <2>2, <3>1, <3>3 DEF P
  <2>3. QED
    BY <2>1, <2>2
<1>12. Looked(units) = last
  <2>1. most - units = 0
    BY <1>3, <1>4
  <2> HIDE DEF last
  <2>2. last = [t |-> last.t, age |-> last.age] /\ last.t \in Places
    BY <1>11 DEF Good
  <2>3. [last.t EXCEPT !.offset = 0] = last.t
    <3>1. last.t = [fill |-> last.t.fill, write |-> last.t.write, read |-> last.t.read,
                    sub |-> last.t.sub, offset |-> 0]
      BY <2>2 DEF Places
    <3>2. [last.t EXCEPT !.offset = 0]
            = [fill |-> last.t.fill, write |-> last.t.write, read |-> last.t.read,
               sub |-> last.t.sub, offset |-> 0]
      BY <2>2 DEF Places
    <3>3. QED
      BY <3>1, <3>2
  <2>4. [last EXCEPT !.t.offset = 0] = [t |-> [last.t EXCEPT !.offset = 0], age |-> last.age]
    BY <2>2
  <2>5. QED
    BY <1>1, <2>1, <2>2, <2>3, <2>4
<1>13. QED
  BY <1>11, <1>12

(* A reading moves the place on by what was read, if the audio for it has  *)
(* been seen.                                                              *)
LEMMA MovedOnLemma ==
  ASSUME Ring, NEW b \in Int, NEW s, Good(s, b), NEW u \in Nat, u <= b
  PROVE  /\ Good([t |-> MovedOn(s.t, u), age |-> s.age], b - u)
         /\ MovedOn(s.t, u) \in Places
<1> DEFINE t == s.t
           k == (t.sub + u) \div BlockUnits
           j == (t.sub + u) % BlockUnits
           read == (t.read + k) % D
           new == [fill |-> t.fill, write |-> t.write, read |-> read, sub |-> j,
                   offset |-> t.offset]
           K == Behind(t.write, t.read)
<1>1. t \in Places /\ Units(t) = b /\ D \in Nat /\ D > 5 /\ u \in Nat /\ u <= b
  BY DEF Good, Ring, Spare
<1>2. PICK n \in 0 .. D : s.age = Ages(t.write, n) /\ K <= n
  BY DEF Good
<1>3. /\ t.fill \in 4 .. 11 /\ t.write \in Slots /\ t.read \in Slots /\ t.sub \in 0 .. 7
      /\ t.offset = 0 /\ t.read \in Nat
  BY <1>1 DEF Places, Early, Buffer, BlockUnits, Slots
<1>4. K \in 0 .. D - 1
  BY <1>3, SlotLemma
<1>5. b = 8 * K + t.fill - 4 - t.sub
  BY <1>1 DEF Units, BlockUnits, Early
<1>6. MovedOn(t, u) = new
  <2>1. MovedOn(t, u) = [t EXCEPT !.sub = (@ + u) % BlockUnits,
                                  !.read = (@ + (t.sub + u) \div BlockUnits) % DetectSize]
    BY DEF MovedOn
  <2>2. MovedOn(t, u) = [t EXCEPT !.sub = j, !.read = read]
    BY <2>1 DEF D
  <2> HIDE DEF j, read, t
  <2>3. [t EXCEPT !.sub = j, !.read = read] = new
    BY <1>1, MovedLemma, Zenon
  <2>4. QED
    BY <2>2, <2>3
<1>7. k \in Nat /\ j \in 0 .. 7 /\ t.sub + u = 8 * k + j
  <2>1. k = (t.sub + u) \div 8 /\ j = (t.sub + u) % 8 /\ t.sub + u \in Nat
    BY <1>1, <1>3 DEF BlockUnits
  <2> HIDE DEF k, j
  <2>2. QED
    BY <2>1
<1> HIDE DEF k, j, t
<1>8. k \in 0 .. K
  BY <1>1, <1>3, <1>4, <1>5, <1>7
<1>9. read \in Slots /\ Behind(t.write, read) = K - k
  BY <1>3, <1>8, BehindUp
<1>10. new \in Places
  <2> HIDE DEF read
  <2>1. j \in 0 .. BlockUnits - 1
    BY <1>7 DEF BlockUnits
  <2>2. t.fill \in Early .. Buffer - 1 /\ t.offset \in {0}
    BY <1>3 DEF Early, Buffer
  <2>3. QED
    BY <1>3, <1>9, <2>1, <2>2 DEF Places
<1>11. Units(new) = b - u
  <2>1. Units(new) = 8 * (K - k) + t.fill - 4 - j
    BY <1>9 DEF Units, BlockUnits, Early
  <2> HIDE DEF new, K
  <2>2. QED
    BY <1>1, <1>3, <1>4, <1>5, <1>7, <1>8, <2>1
<1>12. Good([t |-> new, age |-> s.age], b - u)
  <2> DEFINE x == [t |-> new, age |-> s.age]
  <2>1. x = [t |-> x.t, age |-> x.age] /\ x.t = new /\ x.age = s.age
    OBVIOUS
  <2>2. new.write = t.write /\ Behind(new.write, new.read) <= n
    BY <1>2, <1>4, <1>8, <1>9
  <2> HIDE DEF x, new
  <2>3. QED
    BY <1>2, <1>10, <1>11, <2>1, <2>2 DEF Good, x
<1>13. QED
  BY <1>6, <1>10, <1>12 DEF t

(* Which block a reading is told of: the newest if there is no other, the  *)
(* second behind the place if it is long, the first otherwise.             *)
LEMMA PlaceLemma ==
  ASSUME Ring, NEW t \in Places, NEW u \in Int
  PROVE  /\ Place(t, u) \in Slots
         /\ LET K == Behind(t.write, t.read)
                a == Since(t.write, Place(t, u))
            IN a = IF K < 2 THEN 0 ELSE IF u > BlockUnits THEN K - 2 ELSE K - 1
<1> DEFINE w == t.write
           r == t.read
           K == Behind(w, r)
           next == IF u > BlockUnits /\ r # w THEN Up(r) ELSE r
<1>1. w \in Slots /\ r \in Slots
  BY DEF Places
<1>2. /\ D \in Nat /\ D > 5 /\ w \in Int /\ 0 <= w /\ w < D /\ r \in Int /\ 0 <= r /\ r < D
      /\ Up(r) = IF r = D - 1 THEN 0 ELSE r + 1
      /\ Up(r) \in Slots /\ K \in 0 .. D - 1
  BY <1>1, SlotLemma DEF Ring, Spare
<1>3. Place(t, u) = IF next = w THEN Down(next) ELSE next
  BY DEF Place
<1>4. next \in Slots
  BY <1>1, <1>2
<1>5. Place(t, u) \in Slots
  BY <1>3, <1>4, SlotLemma
<1> HIDE DEF w, r
<1>6. Down(w) = IF w = 0 THEN D - 1 ELSE w - 1
  BY DEF Down, D
<1>7. Since(w, Down(w)) = 0
  BY <1>2, <1>6 DEF Since
<1>8. CASE K = 0
  <2>1. r = w
    BY <1>2, <1>8 DEF Behind
  <2>2. Place(t, u) = Down(w)
    BY <1>3, <2>1
  <2>3. QED
    BY <1>5, <1>7, <1>8, <2>2 DEF w, r
<1>9. CASE K # 0 /\ u > BlockUnits
  <2>1. r # w /\ next = Up(r)
    BY <1>2, <1>9 DEF Behind
  <2>2. CASE K = 1
    <3>1. Up(r) = w
      BY <1>2, <2>2 DEF Behind
    <3>2. Place(t, u) = Down(w)
      BY <1>3, <2>1, <3>1
    <3>3. QED
      BY <1>5, <1>7, <2>2, <3>2 DEF w, r
  <2>3. CASE K # 1
    <3>1. Up(r) # w /\ Since(w, Up(r)) = K - 2
      BY <1>2, <1>9, <2>3 DEF Behind, Since
    <3>2. Place(t, u) = Up(r)
      BY <1>3, <2>1, <3>1
    <3> HIDE DEF K, next
    <3>3. K \in 2 .. D
      BY <1>2, <1>9, <2>3
    <3>4. Since(w, Place(t, u)) = IF K < 2 THEN 0 ELSE IF u > BlockUnits THEN K - 2 ELSE K - 1
      BY <1>9, <3>1, <3>2, <3>3
    <3>5. QED
      BY <1>5, <3>4 DEF w, r, K
  <2>4. QED
    BY <2>2, <2>3
<1>10. CASE K # 0 /\ ~(u > BlockUnits)
  <2>1. r # w /\ next = r
    BY <1>2, <1>10 DEF Behind
  <2>2. Place(t, u) = r
    BY <1>3, <2>1
  <2>3. Since(w, r) = K - 1
    BY <1>2, <1>10 DEF Behind, Since
  <2> HIDE DEF K, next
  <2>4. Since(w, Place(t, u)) = IF K < 2 THEN 0 ELSE IF u > BlockUnits THEN K - 2 ELSE K - 1
    BY <1>2, <1>10, <2>2, <2>3
  <2>5. QED
    BY <1>5, <2>4 DEF w, r, K
<1>11. QED
  BY ONLY <1>8, <1>9, <1>10

(* The slots of a walk onwards hold newer blocks, those of a walk back     *)
(* older ones: neither passes the writer.                                  *)
LEMMA WalkLemma ==
  ASSUME Ring, NEW t \in Places, NEW p \in Slots, NEW most \in Int
  PROVE  /\ \A q \in Onwards(t, p, most) :
              q \in Slots /\ Since(t.write, q) \in 0 .. Since(t.write, p) - 1
         /\ Since(t.write, p) <= D - 2 =>
              \A q \in Backwards(t, p, most) :
                q \in Slots /\ Since(t.write, q) > Since(t.write, p)
<1> DEFINE w == t.write
           x == Since(w, p)
<1>1. w \in Slots
  BY DEF Places
<1>2. /\ D \in Nat /\ D > 5 /\ w \in Int /\ 0 <= w /\ w < D /\ p \in Int /\ 0 <= p /\ p < D
      /\ x \in 0 .. D - 1 /\ (w - p - 1) % D = x
  BY <1>1, SlotLemma DEF Ring, Spare
<1>3. ASSUME NEW q \in Onwards(t, p, most)
      PROVE  q \in Slots /\ Since(w, q) \in 0 .. x - 1
  <2>1. PICK i \in 1 .. Lower(most, x) : q = (p + i) % D
    BY <1>2, <1>3 DEF Onwards, D
  <2>2. i \in 1 .. x
    BY <1>2, <2>1 DEF Lower
  <2>3. /\ 0 <= p + i /\ p + i < D => q = p + i
        /\ D <= p + i /\ p + i < 2 * D => q = p + i - D
    BY <1>2, <2>1, <2>2, ModLemma
  <2>4. q \in Int /\ 0 <= q /\ q < D /\ Since(w, q) = x - i
    BY <1>2, <2>2, <2>3 DEF Since
  <2>5. q \in Slots
    BY <1>2, <2>4 DEF Slots, D
  <2> HIDE DEF x, w
  <2>6. QED
    BY <1>2, <2>2, <2>4, <2>5
<1>4. ASSUME x <= D - 2, NEW q \in Backwards(t, p, most)
      PROVE  q \in Slots /\ Since(w, q) > x
  <2>1. (p - w - 1) % D = D - 2 - x
    <3>1. /\ 0 <= p - w - 1 /\ p - w - 1 < D => (p - w - 1) % D = p - w - 1
          /\ -D <= p - w - 1 /\ p - w - 1 < 0 => (p - w - 1) % D = p - w - 1 + D
      BY <1>2, ModLemma
    <3>2. QED
      BY <1>2, <1>4, <3>1 DEF Since
  <2>2. PICK i \in 1 .. Lower(most, D - 2 - x) : q = (p - i) % D
    BY <1>4, <2>1 DEF Backwards, D
  <2>3. i \in 1 .. D - 2 - x
    BY <1>2, <1>4, <2>2 DEF Lower
  <2>4. /\ 0 <= p - i /\ p - i < D => q = p - i
        /\ -D <= p - i /\ p - i < 0 => q = p - i + D
    BY <1>2, <2>2, <2>3, ModLemma
  <2>5. q \in Int /\ 0 <= q /\ q < D /\ Since(w, q) = x + i
    BY <1>2, <2>3, <2>4 DEF Since
  <2>6. q \in Slots
    BY <1>2, <2>5 DEF Slots, D
  <2> HIDE DEF x, w
  <2>7. QED
    BY <1>2, <2>3, <2>5, <2>6
<1>5. QED
  BY <1>3, <1>4

(***************************************************************************)
(* What a reading says, of blocks with the given ages.                     *)
(***************************************************************************)
Told(v, ages) ==
  LET ended == v.ended - BlockUnits * v.at
  IN IF v.at = -1 THEN \A p \in Slots : ages[p] = -1
     ELSE ended > v.from - BlockUnits /\ ended - BlockUnits < v.to
Ordered(v) ==
  /\ \A a \in v.newer : a \in 0 .. v.at
  /\ \A a \in v.older : a = -1 \/ a > v.at

(* A reader asks a good ring: it is told about itself, in order, and moves on.*)
LEMMA ReadingLemma ==
  ASSUME Ring, NEW b \in Int, NEW s, Good(s, b), NEW u \in Durations,
         NEW from, NEW to, from = -b, to = u - b
  PROVE  Told(Reading(s, from, to), s.age) /\ Ordered(Reading(s, from, to))
<1> DEFINE t == s.t
           w == t.write
           K == Behind(w, t.read)
           pos == Place(t, to - from)
           blocks == Cardinality({p \in Slots : s.age[p] # -1})
           v == Reading(s, from, to)
           a == Since(w, pos)
           newer == Newer(t, pos)
           older == Earlier(t, pos, blocks)
<1>1. t \in Places /\ Units(t) = b /\ D \in Nat /\ D > 5 /\ u \in 1 .. 48 /\ to - from = u
  BY DEF Good, Ring, Spare, Durations
<1>2. PICK n \in 0 .. D : s.age = Ages(w, n) /\ K <= n
  BY DEF Good
<1>3. /\ t.fill \in 4 .. 11 /\ w \in Slots /\ t.read \in Slots /\ t.sub \in 0 .. 7
  BY <1>1 DEF Places, Early, Buffer, BlockUnits
<1>4. K \in 0 .. D - 1 /\ Lookahead(t) = K
  BY <1>3, SlotLemma DEF Lookahead, D
<1>5. b = 8 * K + t.fill - 4 - t.sub
  BY <1>1 DEF Units, BlockUnits, Early
<1>6. pos \in Slots /\ a = IF K < 2 THEN 0 ELSE IF u > 8 THEN K - 2 ELSE K - 1
  <2>1. u \in Int /\ pos = Place(t, u)
    BY <1>1
  <2> HIDE DEF pos
  <2>2. QED
    BY <1>1, <2>1, PlaceLemma DEF BlockUnits
<1>7. v = [from |-> from, to |-> to, ended |-> Early - t.fill, at |-> s.age[pos],
           newer |-> {s.age[p] : p \in IF s.age[pos] = -1 THEN {} ELSE newer},
           older |-> {s.age[p] : p \in IF s.age[pos] = -1 THEN {} ELSE older}]
  BY DEF Reading
<1> HIDE DEF v, newer, older, pos, t, w, K
<1>8. \A p \in Slots : s.age[p] = IF Since(w, p) < n THEN Since(w, p) ELSE -1
  BY <1>2 DEF Ages
<1>9. s.age[pos] = IF a < n THEN a ELSE -1
  BY <1>6, <1>8
<1>10. \A p \in Slots : Since(w, p) \in 0 .. D - 1
  BY <1>3, SlotLemma
<1>11. a \in 0 .. D - 2 /\ a \in Int
  <2> HIDE DEF a
  <2>1. QED
    BY <1>1, <1>4, <1>6
<1>12. a >= n => n = 0
  <2> HIDE DEF a
  <2>1. QED
    BY <1>2, <1>4, <1>6
<1>13. Told(v, s.age)
  <2>1. v.at = s.age[pos] /\ v.ended = 4 - t.fill /\ v.from = from /\ v.to = to
    BY <1>7 DEF Early
  <2>2. CASE a < n
    <3>1. v.at = a /\ a # -1
      BY <1>9, <1>11, <2>1, <2>2
    <3>2. 4 - t.fill - 8 * a > from - 8 /\ 4 - t.fill - 8 * a - 8 < to
      <4> DEFINE f == t.fill
                 sub == t.sub
      <4>1. f \in 4 .. 11 /\ sub \in 0 .. 7 /\ b = 8 * K + f - 4 - sub
        BY <1>3, <1>5
      <4> HIDE DEF a, f, sub
      <4>2. K \in Int /\ u \in Int /\ u >= 1 /\ a \in Int
        BY <1>1, <1>4, <1>11
      <4>3. 8 * a <= 8 * K + 7 - sub /\ 8 * a + u + sub > 8 * K - 8
        <5>1. K < 2 => K = 0 \/ K = 1
          BY <1>4
        <5>2. CASE K < 2
          BY <1>6, <4>1, <4>2, <5>1, <5>2
        <5>3. CASE ~(K < 2) /\ u > 8
          <6>1. a = K - 2
            BY <1>6, <5>3
          <6>2. QED
            BY ONLY <4>1, <4>2, <5>3, <6>1
        <5>4. CASE ~(K < 2) /\ ~(u > 8)
          <6>1. a = K - 1
            BY <1>6, <5>4
          <6>2. QED
            BY ONLY <4>1, <4>2, <5>4, <6>1
        <5>5. QED
          BY <5>2, <5>3, <5>4
      <4>4. from = -b /\ to = u - b /\ b \in Int
        OBVIOUS
      <4>5. 4 - f - 8 * a > from - 8 /\ 4 - f - 8 * a - 8 < to
        BY ONLY <4>1, <4>2, <4>3, <4>4
      <4>6. QED
        BY <4>5 DEF f
    <3> HIDE DEF a
    <3>3. QED
      BY <2>1, <3>1, <3>2 DEF Told, BlockUnits
  <2>3. CASE ~(a < n)
    <3>1. n = 0 /\ v.at = -1
      BY <1>2, <1>9, <1>11, <1>12, <2>1, <2>3
    <3>2. \A p \in Slots : s.age[p] = -1
      BY <1>8, <1>10, <3>1
    <3>3. QED
      BY <3>1, <3>2 DEF Told
  <2>4. QED
    BY <2>2, <2>3
<1>14. Ordered(v)
  <2>1. CASE s.age[pos] = -1
    <3>1. v.newer = {} /\ v.older = {}
      BY <1>7, <2>1
    <3>2. QED
      BY <3>1 DEF Ordered
  <2>2. CASE s.age[pos] # -1
    <3>1. a < n /\ v.at = a
      BY <1>7, <1>9, <2>2
    <3>2. v.newer = {s.age[p] : p \in newer} /\ v.older = {s.age[p] : p \in older}
      BY <1>7, <2>2
    <3>3. \A most \in Int : \A q \in Onwards(t, pos, most) :
            q \in Slots /\ Since(w, q) \in 0 .. a - 1
      BY <1>1, <1>6, WalkLemma DEF w
    <3>4. ASSUME NEW q \in newer
          PROVE  q \in Slots /\ Since(w, q) \in 0 .. a
      <4> DEFINE start == IF Lookahead(t) > 15 THEN (pos + 5) % DetectSize ELSE pos
      <4>1. q \in Onwards(t, pos, 3) \/ q = start \/ q \in Onwards(t, start, D)
        BY <3>4 DEF newer, Newer, D
      <4>2. start \in Slots /\ Since(w, start) \in 0 .. a
        <5>1. CASE K > 15
          <6>1. start = (pos + 5) % D /\ a > 5
            BY <1>4, <1>6, <5>1 DEF D
          <6>2. w \in Int /\ 0 <= w /\ w < D /\ pos \in Int /\ 0 <= pos /\ pos < D
            BY <1>1, <1>3, <1>6, SlotLemma
          <6>3. /\ 0 <= pos + 5 /\ pos + 5 < D => start = pos + 5
                /\ D <= pos + 5 /\ pos + 5 < 2 * D => start = pos + 5 - D
            BY <1>1, <6>1, <6>2, ModLemma
          <6> HIDE DEF start
          <6>4. start \in Int /\ 0 <= start /\ start < D
            BY <1>1, <6>2, <6>3
          <6>5. Since(w, start) = a - 5
            BY <1>1, <6>1, <6>2, <6>3 DEF Since
          <6>6. start \in Slots
            BY <1>1, <6>4 DEF Slots, D
          <6> HIDE DEF a
          <6>7. QED
            BY <1>11, <6>1, <6>5, <6>6
        <5>2. CASE ~(K > 15)
          BY <1>4, <1>6, <1>11, <5>2
        <5>3. QED
          BY <5>1, <5>2
      <4> HIDE DEF start
      <4>3. q \in Onwards(t, start, D) => q \in Slots /\ Since(w, q) \in 0 .. Since(w, start) - 1
        BY <1>1, <4>2, WalkLemma DEF w
      <4>4. q \in Onwards(t, pos, 3) => q \in Slots /\ Since(w, q) \in 0 .. a - 1
        BY <3>3
      <4> DEFINE x == Since(w, q)
                 y == Since(w, start)
      <4> HIDE DEF a, x, y
      <4>5. CASE q = start
        BY <4>2, <4>5
      <4>6. CASE q \in Onwards(t, start, D)
        <5>1. x \in 0 .. y - 1 /\ y \in 0 .. a
          BY <4>2, <4>3, <4>6 DEF x, y
        <5>2. x \in 0 .. a
          BY <1>11, <5>1
        <5>3. QED
          BY <4>3, <4>6, <5>2 DEF x
      <4>7. CASE q \in Onwards(t, pos, 3)
        <5>1. x \in 0 .. a - 1
          BY <4>4, <4>7 DEF x
        <5>2. x \in 0 .. a
          BY <1>11, <5>1
        <5>3. QED
          BY <4>4, <4>7, <5>2 DEF x
      <4>8. QED
        BY <4>1, <4>5, <4>6, <4>7
    <3>5. ASSUME NEW q \in older
          PROVE  q \in Slots /\ Since(w, q) > a
      <4>1. IsFiniteSet(Slots)
        <5>1. DetectSize - 1 \in Int /\ 0 \in Int
          BY <1>1 DEF D
        <5>2. QED
          BY <5>1, FS_Interval DEF Slots
      <4>2. Cardinality(Onwards(t, pos, 3)) \in Int
        <5>1. Onwards(t, pos, 3) \in SUBSET Slots
          BY <3>3
        <5>2. QED
          BY <4>1, <5>1, FS_Subset, FS_CardinalityType
      <4>3. blocks \in Int
        <5>1. {p \in Slots : s.age[p] # -1} \in SUBSET Slots
          OBVIOUS
        <5>2. QED
          BY <4>1, <5>1, FS_Subset, FS_CardinalityType
      <4> HIDE DEF blocks
      <4> DEFINE most1 == 6 - Cardinality(Onwards(t, pos, 3))
                 most2 == Lower(15, Higher(blocks - 1, 0))
      <4>4. most1 \in Int /\ most2 \in Int
        BY <4>2, <4>3 DEF Lower, Higher
      <4>5. q \in Backwards(t, pos, most1) \/ q \in Backwards(t, pos, most2)
        <5>1. older = Backwards(t, pos, most1)
                        \cup (IF Lookahead(t) < 10 THEN Backwards(t, pos, most2) ELSE {})
          BY DEF older, Earlier
        <5> HIDE DEF most1, most2, older
        <5>2. QED
          BY <5>1
      <4> HIDE DEF most1, most2
      <4>6. \A most \in Int : \A p \in Backwards(t, pos, most) :
              p \in Slots /\ Since(w, p) > a
        <5>1. Since(t.write, pos) <= D - 2
          BY <1>1, <1>11 DEF w
        <5>2. QED
          BY <1>1, <1>6, <5>1, WalkLemma DEF w
      <4>7. QED
        BY <4>4, <4>5, <4>6
    <3>6. ASSUME NEW c \in v.newer
          PROVE  c \in 0 .. v.at
      <4>1. PICK q \in newer : c = s.age[q]
        BY <3>2
      <4>2. q \in Slots /\ Since(w, q) \in 0 .. a
        BY <3>4
      <4>3. c = IF Since(w, q) < n THEN Since(w, q) ELSE -1
        BY <1>8, <4>1, <4>2
      <4> DEFINE x == Since(w, q)
      <4> HIDE DEF a, x
      <4>4. x < n
        BY <1>2, <1>11, <3>1, <4>2 DEF x
      <4>5. QED
        BY <3>1, <4>2, <4>3, <4>4 DEF x
    <3>7. ASSUME NEW c \in v.older
          PROVE  c = -1 \/ c > v.at
      <4>1. PICK q \in older : c = s.age[q]
        BY <3>2
      <4>2. q \in Slots /\ Since(w, q) > a
        BY <3>5
      <4>3. c = IF Since(w, q) < n THEN Since(w, q) ELSE -1
        BY <1>8, <4>1, <4>2
      <4>4. QED
        BY <3>1, <4>2, <4>3
    <3>8. QED
      BY <3>6, <3>7 DEF Ordered
  <2>3. QED
    BY <2>1, <2>2
<1>15. QED
  BY <1>13, <1>14 DEF v

(***************************************************************************)
(* The invariant: the reader, put back to where it was if a packet that is *)
(* coded frame by frame has been looked at as a whole, is behind the       *)
(* writer by the frames that are left and those that were never coded.     *)
(***************************************************************************)
AnalysisInv ==
  /\ tonal \in Places /\ lag \in 0 .. MaxLag
  /\ series \in [frame : 0 .. 48, left : 0 .. 48, first : BOOLEAN, read : Slots,
                 sub : 0 .. BlockUnits - 1]
  /\ series.left = 0 => ~series.first
  /\ series.left > 0 => series.frame \in Durations /\ series.left % series.frame = 0
  /\ Good([t |-> Restored, age |-> age], lag + series.left)
  /\ Told(seen, age) /\ Ordered(seen)

(* The ring is one.                                                        *)
LEMMA RingLemma == Ring /\ MaxLag \in Nat
  BY RingAssumption DEF Ring, D

(* Nothing has been looked at.                                             *)
LEMMA FreshLemma ==
  /\ Fresh \in Places /\ Good([t |-> Fresh, age |-> Empty], 0)
  /\ Told(NothingSeen, Empty) /\ Ordered(NothingSeen)
  /\ NotInFrames \in [frame : 0 .. 48, left : 0 .. 48, first : BOOLEAN, read : Slots,
                      sub : 0 .. BlockUnits - 1]
<1>1. D \in Nat /\ D > 5 /\ 0 \in Slots
  BY RingLemma DEF Ring, Spare, Slots, D
<1>2. Fresh \in Places
  BY <1>1 DEF Fresh, Places, Early, Buffer, BlockUnits
<1>3. Good([t |-> Fresh, age |-> Empty], 0)
  <2>1. Behind(0, 0) = 0
    BY DEF Behind
  <2>2. Empty = Ages(0, 0)
    <3> DEFINE f(p) == -1
               g(p) == IF Since(0, p) < 0 THEN Since(0, p) ELSE -1
    <3>1. ASSUME NEW p \in Slots
          PROVE  f(p) = g(p)
      <4>1. Since(0, p) \in 0 .. D - 1
        BY <1>1, RingLemma, SlotLemma
      <4>2. QED
        BY <1>1, <4>1
    <3>2. Empty = [p \in Slots |-> f(p)] /\ Ages(0, 0) = [p \in Slots |-> g(p)]
      BY Zenon DEF Empty, Ages
    <3> HIDE DEF f, g
    <3>3. [p \in Slots |-> f(p)] = [p \in Slots |-> g(p)]
      BY <3>1, Zenon
    <3>4. QED
      BY <3>2, <3>3
  <2>3. Fresh.write = 0 /\ Fresh.read = 0 /\ Fresh.fill = 4 /\ Fresh.sub = 0
    BY DEF Fresh, Early
  <2>4. Units(Fresh) = 0
    BY <2>1, <2>3 DEF Units, Early, BlockUnits
  <2> DEFINE x == [t |-> Fresh, age |-> Empty]
  <2>5. x = [t |-> x.t, age |-> x.age] /\ x.t = Fresh /\ x.age = Empty
    OBVIOUS
  <2>6. 0 \in 0 .. D
    BY <1>1
  <2> HIDE DEF x
  <2>7. Good(x, 0)
    BY <1>2, <2>1, <2>2, <2>3, <2>4, <2>5, <2>6 DEF Good
  <2>8. QED
    BY <2>7 DEF x
<1>4. Told(NothingSeen, Empty) /\ Ordered(NothingSeen)
  BY DEF Told, Ordered, NothingSeen, Empty
<1>5. NotInFrames \in [frame : 0 .. 48, left : 0 .. 48, first : BOOLEAN, read : Slots,
                       sub : 0 .. BlockUnits - 1]
  BY <1>1 DEF NotInFrames, BlockUnits
<1>6. QED
  BY <1>2, <1>3, <1>4, <1>5

(* The invariant holds at the start.                                       *)
LEMMA AnalysisStart == AnalysisInit => AnalysisInv
<1> SUFFICES ASSUME AnalysisInit PROVE AnalysisInv
  OBVIOUS
<1>1. /\ tonal = Fresh /\ age = Empty /\ series = NotInFrames /\ seen = NothingSeen /\ lag = 0
  BY DEF AnalysisInit
<1>2. series.left = 0 /\ series.first = FALSE
  BY <1>1 DEF NotInFrames
<1>3. Restored = tonal /\ lag + series.left = 0 /\ lag \in 0 .. MaxLag
  BY <1>1, <1>2, RingLemma DEF Restored
<1>4. QED
  BY <1>1, <1>2, <1>3, FreshLemma DEF AnalysisInv

(* Looking at a packet, and telling what it is.                            *)
LEMMA AnalyseLemma ==
  ASSUME AnalysisInv, series.left = 0, NEW units \in Durations, Analyse(units),
         units < BlockUnits * (D - Spare), MaxLag + units < BlockUnits * (D - 1)
  PROVE  /\ tonal' \in Places /\ Good([t |-> tonal', age |-> age'], lag)
         /\ Good([t |-> [tonal' EXCEPT !.read = tonal.read, !.sub = tonal.sub], age |-> age'],
                 lag + units)
         /\ Told(seen', age') /\ Ordered(seen')
<1> DEFINE s == Looked(units)
           b == lag + units
<1>1. /\ tonal' = MovedOn(s.t, units) /\ age' = s.age
      /\ seen' = Reading(s, -units - lag, -lag)
  BY DEF Analyse
<1>2. /\ tonal \in Places /\ lag \in 0 .. MaxLag /\ MaxLag \in Nat /\ Ring
      /\ units \in 1 .. 48 /\ lag \in Int /\ units \in Nat
      /\ lag + units + 7 < BlockUnits * D /\ D \in Nat
  BY RingLemma DEF AnalysisInv, Durations, BlockUnits, Ring
<1>3. Good([t |-> tonal, age |-> age], lag)
  <2>1. Restored = tonal /\ lag + series.left = lag
    BY <1>2 DEF AnalysisInv, Restored
  <2>2. QED
    BY <2>1 DEF AnalysisInv
<1>4. Good(s, b) /\ s.t.read = tonal.read /\ s.t.sub = tonal.sub
  BY <1>2, <1>3, LookedLemma
<1>5. b \in Int /\ units <= b /\ b - units = lag
  BY <1>2
<1> HIDE DEF s
<1>6. Good([t |-> tonal', age |-> age'], lag) /\ tonal' \in Places
  <2>1. Good([t |-> MovedOn(s.t, units), age |-> s.age], b - units)
        /\ MovedOn(s.t, units) \in Places
    <3> HIDE DEF b
    <3>1. QED
      BY <1>2, <1>4, <1>5, MovedOnLemma
  <2>2. QED
    BY <1>1, <1>5, <2>1
<1>7. s.t \in Places /\ s = [t |-> s.t, age |-> s.age]
  BY <1>4 DEF Good
<1>8. [tonal' EXCEPT !.read = tonal.read, !.sub = tonal.sub] = s.t
  <2> DEFINE r == tonal.read
             u == tonal.sub
             new == tonal'
             x == s.t
  <2>1. new.fill = x.fill /\ new.write = x.write /\ new.offset = x.offset
    BY <1>1, <1>7 DEF MovedOn, Places
  <2>2. x = [fill |-> x.fill, write |-> x.write, read |-> r, sub |-> u, offset |-> x.offset]
    BY <1>4, <1>7 DEF Places
  <2>3. new \in Places
    BY <1>6
  <2> HIDE DEF new, r, u, x
  <2>4. [new EXCEPT !.read = r, !.sub = u]
          = [fill |-> new.fill, write |-> new.write, read |-> r, sub |-> u,
             offset |-> new.offset]
    BY <2>3, RestoredLemma, Zenon
  <2>5. [new EXCEPT !.read = r, !.sub = u] = x
    BY <2>1, <2>2, <2>4
  <2>6. QED
    BY <2>5 DEF new, r, u, x
<1>9. Told(seen', age') /\ Ordered(seen')
  <2>1. -units - lag = -b /\ -lag = units - b
    BY <1>2
  <2> HIDE DEF b
  <2>2. Told(Reading(s, -units - lag, -lag), s.age) /\ Ordered(Reading(s, -units - lag, -lag))
    BY <1>2, <1>4, <1>5, <2>1, ReadingLemma
  <2>3. QED
    BY <1>1, <2>2
<1>10. Good([t |-> [tonal' EXCEPT !.read = tonal.read, !.sub = tonal.sub], age |-> age'],
            lag + units)
  BY <1>1, <1>4, <1>7, <1>8
<1>11. QED
  BY <1>6, <1>9, <1>10

(* The invariant is kept by every step.                                    *)
LEMMA AnalysisStep == AnalysisInv /\ [AnalysisNext]_analysisVars => AnalysisInv'
<1> SUFFICES ASSUME AnalysisInv, [AnalysisNext]_analysisVars PROVE AnalysisInv'
  OBVIOUS
<1> DEFINE Seriess == [frame : 0 .. 48, left : 0 .. 48, first : BOOLEAN, read : Slots,
                       sub : 0 .. BlockUnits - 1]
<1>1. /\ tonal \in Places /\ lag \in 0 .. MaxLag /\ MaxLag \in Nat /\ Ring
      /\ series \in Seriess
      /\ series.left = 0 => ~series.first
      /\ series.left > 0 => series.frame \in Durations /\ series.left % series.frame = 0
      /\ Good([t |-> Restored, age |-> age], lag + series.left)
      /\ Told(seen, age) /\ Ordered(seen)
  BY RingLemma DEF AnalysisInv
<1>2. /\ series.frame \in 0 .. 48 /\ series.left \in 0 .. 48 /\ lag \in Nat
      /\ series.left = 0 => Restored = tonal
  BY <1>1 DEF Restored
<1>3. NotInFrames \in Seriess /\ NotInFrames.left = 0 /\ NotInFrames.first = FALSE
  BY FreshLemma DEF NotInFrames
<1> HIDE DEF Seriess
<1>4. CASE EncodeWhole
  <2>1. PICK units \in Packets : Analyse(units)
    BY <1>4 DEF EncodeWhole
  <2>2. /\ units \in Durations /\ units < BlockUnits * (D - Spare)
        /\ MaxLag + units < BlockUnits * (D - 1)
    BY <2>1, RingAssumption DEF D
  <2>3. series.left = 0 /\ series' = series /\ lag' = lag
    BY <1>4 DEF EncodeWhole
  <2>4. /\ tonal' \in Places /\ Good([t |-> tonal', age |-> age'], lag)
        /\ Told(seen', age') /\ Ordered(seen')
    BY <2>1, <2>2, <2>3, AnalyseLemma
  <2>5. Restored' = tonal' /\ lag' + series'.left = lag
    BY <1>1, <2>3 DEF Restored
  <2>6. QED
    BY <1>1, <2>3, <2>4, <2>5 DEF AnalysisInv, Seriess
<1>5. CASE EncodeSeveral
  <2>1. PICK p \in Several :
          /\ Analyse(p[1])
          /\ series' = [frame |-> p[2], left |-> p[1], first |-> TRUE,
                        read |-> tonal.read, sub |-> tonal.sub]
    BY <1>5 DEF EncodeSeveral
  <2> DEFINE units == p[1]
             frame == p[2]
  <2>2. /\ units \in Durations /\ frame \in Durations /\ units % frame = 0
        /\ units < BlockUnits * (D - Spare) /\ MaxLag + units < BlockUnits * (D - 1)
    BY <2>1, RingAssumption DEF D
  <2>3. series.left = 0 /\ lag' = lag
    BY <1>5 DEF EncodeSeveral
  <2>4. /\ Analyse(units)
        /\ series' = [frame |-> frame, left |-> units, first |-> TRUE,
                      read |-> tonal.read, sub |-> tonal.sub]
    BY <2>1
  <2> HIDE DEF units, frame
  <2>5. /\ tonal' \in Places
        /\ Good([t |-> [tonal' EXCEPT !.read = tonal.read, !.sub = tonal.sub], age |-> age'],
                lag + units)
        /\ Told(seen', age') /\ Ordered(seen')
    BY <2>2, <2>3, <2>4, AnalyseLemma
  <2>6. Restored' = [tonal' EXCEPT !.read = tonal.read, !.sub = tonal.sub]
    <3>1. Restored' = IF series'.first THEN [tonal' EXCEPT !.read = series'.read,
                                                           !.sub = series'.sub] ELSE tonal'
      BY DEF Restored
    <3>2. series'.first = TRUE /\ series'.read = tonal.read /\ series'.sub = tonal.sub
      BY <2>4
    <3>3. QED
      BY <3>1, <3>2
  <2>7. /\ series'.left = units /\ series'.frame = frame
        /\ units \in 1 .. 48 /\ frame \in 1 .. 48
    BY <2>2, <2>4 DEF Durations
  <2>8. series' \in Seriess
    <3>1. tonal.read \in Slots /\ tonal.sub \in 0 .. BlockUnits - 1
      BY <1>1 DEF Places
    <3>2. units \in 0 .. 48 /\ frame \in 0 .. 48
      BY <2>7
    <3>3. QED
      BY <2>4, <3>1, <3>2 DEF Seriess
  <2>9. Good([t |-> Restored', age |-> age'], lag' + series'.left)
    BY <2>3, <2>5, <2>6, <2>7
  <2>10. /\ series'.left = 0 => ~series'.first
         /\ series'.left > 0 => series'.frame \in Durations /\ series'.left % series'.frame = 0
    BY <2>2, <2>7
  <2>11. lag' \in 0 .. MaxLag
    BY <1>1, <2>3
  <2>12. QED
    BY <2>5, <2>8, <2>9, <2>10, <2>11 DEF AnalysisInv, Seriess
<1>6. CASE EncodeFrame
  <2> DEFINE left == series.left
             frame == series.frame
             b == lag + left
             s == [t |-> Restored, age |-> age]
  <2>1. /\ left > 0 /\ tonal' = MovedOn(Restored, frame)
        /\ seen' = Reading(s, -left - lag, frame - left - lag)
        /\ series' = IF left = frame THEN NotInFrames
                     ELSE [series EXCEPT !.left = left - frame, !.first = FALSE]
        /\ age' = age /\ lag' = lag
    BY <1>6 DEF EncodeFrame
  <2>2. frame \in 1 .. 48 /\ left \in 1 .. 48 /\ left % frame = 0 /\ frame \in Durations
    BY <1>1, <1>2, <2>1 DEF Durations
  <2>3. left >= frame
    <3> HIDE DEF left, frame
    <3>1. 0 <= left /\ left < frame => left % frame = left
      BY <2>2, ModLemma
    <3>2. QED
      BY <2>2, <3>1
  <2>4. /\ b \in Int /\ frame <= b /\ frame \in Nat /\ Good(s, b)
        /\ -left - lag = -b /\ frame - left - lag = frame - b
    <3>1. Good(s, b)
      BY <1>1
    <3> HIDE DEF left, frame, s
    <3>2. left \in Int /\ frame \in Int /\ lag \in Int /\ frame >= 1 /\ lag >= 0
      BY <1>2, <2>2
    <3>3. b = lag + left
      OBVIOUS
    <3> HIDE DEF b
    <3>4. /\ b \in Int /\ frame <= b /\ frame \in Nat
          /\ -left - lag = -b /\ frame - left - lag = frame - b
      BY ONLY <2>3, <3>2, <3>3
    <3>5. QED
      BY <3>1, <3>4
  <2>5. s.t = Restored /\ s.age = age
    OBVIOUS
  <2>6. Good([t |-> tonal', age |-> age], b - frame) /\ tonal' \in Places
    <3> HIDE DEF b, frame, s
    <3>1. Good([t |-> MovedOn(s.t, frame), age |-> s.age], b - frame)
          /\ MovedOn(s.t, frame) \in Places
      BY <1>1, <2>4, MovedOnLemma
    <3>2. QED
      BY <2>1, <2>5, <3>1
  <2>7. Told(seen', age') /\ Ordered(seen')
    <3> HIDE DEF b, frame, s, left
    <3>1. /\ Told(Reading(s, -left - lag, frame - left - lag), s.age)
          /\ Ordered(Reading(s, -left - lag, frame - left - lag))
      BY <1>1, <2>2, <2>4, ReadingLemma
    <3>2. QED
      BY <2>1, <2>5, <3>1
  <2>8. /\ series' \in Seriess
        /\ series'.left = left - frame
        /\ series'.first = FALSE
        /\ series'.left > 0 => series'.frame = frame
    <3>1. CASE left = frame
      <4>1. series' = NotInFrames
        BY <2>1, <3>1
      <4>2. left - frame = 0
        BY <2>2, <3>1
      <4> HIDE DEF left, frame
      <4>3. QED
        BY <1>3, <4>1, <4>2
    <3>2. CASE left # frame
      <4> DEFINE l == left - frame
                 no == FALSE
                 y == [series EXCEPT !.left = l]
      <4>1. series' = [series EXCEPT !.left = l, !.first = no]
        BY <2>1, <3>2
      <4>2. l \in 0 .. 48
        BY <2>2, <2>3
      <4>3. no \in BOOLEAN /\ no = FALSE
        OBVIOUS
      <4> HIDE DEF l, no
      <4>4. y \in Seriess /\ y.left = l /\ y.frame = frame
        BY <1>1, <4>2 DEF Seriess
      <4>5. series' = [y EXCEPT !.first = no]
        BY <4>1
      <4> HIDE DEF y
      <4>6. series' \in Seriess /\ series'.left = l /\ series'.frame = frame /\ series'.first = no
        BY <4>3, <4>4, <4>5 DEF Seriess
      <4> HIDE DEF left, frame
      <4>7. QED
        BY <4>3, <4>6 DEF l
    <3>3. QED
      BY <3>1, <3>2
  <2>9. series'.left > 0 => series'.frame \in Durations /\ series'.left % series'.frame = 0
    <3> HIDE DEF left, frame
    <3>1. left \in 0 .. 48
      BY <2>2
    <3>2. (left - frame) % frame = 0
      BY ONLY <2>2, <2>3, <3>1
    <3>3. QED
      BY ONLY <2>2, <2>8, <3>2
  <2>10. Good([t |-> Restored', age |-> age'], lag' + series'.left)
    <3>1. Restored' = tonal'
      BY <2>8 DEF Restored
    <3>2. lag' + series'.left = b - frame
      <4>1. /\ lag \in Int /\ left \in Int /\ frame \in Int
            /\ b = lag + left /\ series'.left = left - frame /\ lag' = lag
        BY <1>2, <2>1, <2>2, <2>8
      <4> HIDE DEF left, frame, b
      <4>2. QED
        BY ONLY <4>1
    <3> HIDE DEF left, frame, b, s
    <3>3. QED
      BY <2>1, <2>6, <3>1, <3>2
  <2>11. /\ lag' \in 0 .. MaxLag
         /\ series'.left = 0 => ~series'.first
    BY <1>1, <2>1, <2>8
  <2>12. QED
    BY <2>6, <2>7, <2>8, <2>9, <2>10, <2>11 DEF AnalysisInv, Seriess
<1>7. CASE Fail
  <2>1. /\ series.left > 0 /\ lag + series.left <= MaxLag
        /\ tonal' = Restored /\ lag' = lag + series.left /\ series' = NotInFrames
        /\ age' = age /\ seen' = seen
    BY <1>7 DEF Fail
  <2>2. tonal' \in Places
    <3>1. [t |-> Restored, age |-> age].t = Restored
      OBVIOUS
    <3>2. QED
      BY <1>1, <2>1, <3>1 DEF Good
  <2>3. lag' \in 0 .. MaxLag
    BY <1>1, <1>2, <2>1
  <2>4. Restored' = tonal' /\ lag' + series'.left = lag + series.left
    BY <1>2, <1>3, <2>1, <2>3 DEF Restored
  <2>5. QED
    BY <1>1, <1>3, <2>1, <2>2, <2>3, <2>4 DEF AnalysisInv, Seriess
<1>8. CASE ResetAnalysis
  <2>1. /\ series.left = 0 /\ tonal' = Fresh /\ age' = Empty /\ seen' = NothingSeen /\ lag' = 0
        /\ series' = series
    BY <1>8 DEF ResetAnalysis
  <2>2. Restored' = tonal' /\ lag' + series'.left = 0 /\ lag' \in 0 .. MaxLag
    BY <1>1, <2>1 DEF Restored
  <2>3. QED
    BY <1>1, <2>1, <2>2, FreshLemma DEF AnalysisInv, Seriess
<1>9. CASE UNCHANGED analysisVars
  BY <1>1, <1>9 DEF analysisVars, AnalysisInv, Restored, Seriess
<1>10. QED
  BY <1>4, <1>5, <1>6, <1>7, <1>8, <1>9 DEF AnalysisNext

(* The invariant says what is to be shown.                                 *)
LEMMA JudgedLemma == AnalysisInv => JudgedByItsOwn
<1> SUFFICES ASSUME AnalysisInv PROVE JudgedByItsOwn
  OBVIOUS
<1>1. /\ tonal \in Places /\ lag \in 0 .. MaxLag /\ MaxLag \in Nat /\ Ring
      /\ series.left \in 0 .. 48
      /\ series.left = 0 => ~series.first
      /\ Good([t |-> Restored, age |-> age], lag + series.left)
      /\ Told(seen, age) /\ Ordered(seen)
  BY RingLemma DEF AnalysisInv
<1>2. D \in Nat /\ D > 5
  BY <1>1 DEF Ring, Spare
<1> DEFINE x == Restored
           s == [t |-> x, age |-> age]
<1>3. s.t = x /\ s.age = age
  OBVIOUS
<1>4. x \in Places /\ Units(x) = lag + series.left
  BY <1>1, <1>3 DEF Good
<1>5. AnalysisTypeOK
  <2>1. PICK n \in 0 .. D : age = Ages(x.write, n)
    BY <1>1, <1>3 DEF Good
  <2>2. ASSUME NEW p \in Slots
        PROVE  age[p] \in -1 .. DetectSize - 1
    <3>1. Since(x.write, p) \in 0 .. D - 1
      BY <1>1, <1>4, SlotLemma DEF Places
    <3>2. age[p] = IF Since(x.write, p) < n THEN Since(x.write, p) ELSE -1
      BY <2>1 DEF Ages
    <3>3. QED
      BY <1>2, <3>1, <3>2 DEF D
  <2>3. QED
    BY <1>1, <2>2 DEF AnalysisTypeOK, Places
<1>6. CountsTheSame
  <2> SUFFICES ASSUME series.left = 0
               PROVE  (BlockUnits * (tonal.write - tonal.read) + tonal.fill - Early - tonal.sub)
                        % (BlockUnits * DetectSize) = lag
    BY DEF CountsTheSame
  <2>1. x = tonal /\ Units(tonal) = lag
    BY <1>1, <1>4 DEF Restored
  <2> DEFINE w == tonal.write
             r == tonal.read
             behind == BlockUnits * (w - r) + tonal.fill - Early - tonal.sub
             K == Behind(w, r)
             m == BlockUnits * DetectSize
  <2>2. /\ w \in Slots /\ r \in Slots /\ tonal.fill \in 4 .. 11 /\ tonal.sub \in 0 .. 7
    BY <1>1 DEF Places, Early, Buffer, BlockUnits
  <2>3. w \in Int /\ r \in Int /\ K \in 0 .. D - 1 /\ (K = w - r \/ K = w - r + D)
    BY <1>1, <2>2, SlotLemma DEF Behind
  <2>4. lag = 8 * K + tonal.fill - 4 - tonal.sub
    BY <2>1 DEF Units, BlockUnits, Early
  <2>5. m = 8 * D /\ behind = 8 * (w - r) + tonal.fill - 4 - tonal.sub /\ lag \in Nat
    BY <1>1 DEF BlockUnits, D, Early
  <2> HIDE DEF w, r, behind, K, m
  <2>6. lag < m /\ (behind = lag \/ behind = lag - m) /\ behind \in Int /\ m \in Nat /\ m > 0
    BY <1>2, <2>2, <2>3, <2>4, <2>5
  <2>7. behind % m = lag
    <3>1. /\ 0 <= behind /\ behind < m => behind % m = behind
          /\ -m <= behind /\ behind < 0 => behind % m = behind + m
      BY <2>6, ModLemma
    <3>2. QED
      BY <2>5, <2>6, <3>1
  <2>8. QED
    BY <2>7 DEF behind, m, w, r
<1>7. ToldAboutItself /\ InOrder
  BY <1>1 DEF Told, Ordered, ToldAboutItself, InOrder
<1>8. QED
  BY <1>5, <1>6, <1>7 DEF JudgedByItsOwn

(* The reader and the writer of the ring count the same audio, however it  *)
(* was cut into packets and frames, read twice, given up or reset: every   *)
(* frame is told about itself, and no walk around it passes the place      *)
(* where the newest block and the oldest meet.                             *)
THEOREM AlwaysItsOwn == AnalysisSpec => []JudgedByItsOwn
<1>1. AnalysisInv /\ [AnalysisNext]_analysisVars => AnalysisInv'
  BY AnalysisStep
<1>2. QED
  BY <1>1, AnalysisStart, JudgedLemma, PTL DEF AnalysisSpec

-----------------------------------------------------------------------------
(***************************************************************************)
(* Deep redundancy.  Of every latent that is kept it is known when its     *)
(* sound ended, unless input was missed or repeated since; and what the    *)
(* offset, the latents that are too new and the input that waits add up to *)
(* grows by what is fed.                                                   *)
(***************************************************************************)
Entries == [ago : Nat, since : BOOLEAN]
Dated(h, f) ==
  /\ h \in Seq(Entries) /\ Len(h) <= Latents
  /\ \A i \in 1 .. Len(h) : ~h[i].since => h[i].ago = f + DFrame * (i - 1)
Adds(st, total) ==
  /\ st = [fill |-> st.fill, history |-> st.history, offset |-> st.offset, latent |-> st.latent]
  /\ st.fill \in 0 .. DFrame - 1 /\ st.offset \in Int /\ st.offset <= 13 /\ st.latent \in Nat
  /\ Dated(st.history, st.fill)
  /\ 40 * st.offset + DFrame * st.latent + st.fill = total

(* Of a packet: what the properties ask.                                   *)
SaysSo(k) == k # NoPacket => k.says <= 16 + k.index * (k.size \div 40)
OnTime(d, k) ==
  \A i \in DOMAIN k.sent :
    ~k.late /\ ~k.sent[i].since =>
      LET true == (1 + k.index) * k.size + d - k.sent[i].ago
          said == 40 * k.says - Newest - 2 * DFrame * (i - 1)
      IN said - true \in -20 .. 20
Heard(f, mem, k) ==
  k # NoPacket =>
    \A e \in 1 .. Fewer(Memory, 8 * (k.from + 2 * k.tried)) :
      LET of == (40 * (e - 1) + 20 - f) \div DFrame
      IN mem[e] /\ of \in k.start .. k.from + 2 * k.tried - 1
           => of \in k.from .. k.from + 2 * Len(k.sent) - 1

DredInv ==
  /\ delay \in Delays /\ inside \in BOOLEAN
  /\ fill \in 0 .. DFrame - 1 /\ latent \in Nat /\ extra \in 0 .. Latents
  /\ Dated(history, fill) /\ Len(activity) = Memory
  /\ SaysSo(packet) /\ OnTime(delay, packet) /\ Heard(fill, activity, packet)

(* A set of numbers has a least one.                                       *)
LEMMA LeastNumber ==
  ASSUME NEW S, S \subseteq Nat, S # {}
  PROVE  \E n \in S : \A m \in S : n <= m
<1> DEFINE R == OpToRel(<, Nat)
<1>1. IsWellFoundedOn(R, Nat)
  BY NatLessThanWellFounded
<1>2. \E n \in S : \A m \in S : ~(<<m, n>> \in R)
  BY <1>1, WFMin
<1>3. PICK n \in S : \A m \in S : ~(<<m, n>> \in R)
  BY <1>2
<1>4. ASSUME NEW m \in S PROVE n <= m
  <2>1. ~(<<m, n>> \in R)
    BY <1>3
  <2>2. m < n => <<m, n>> \in R
    BY DEF OpToRel
  <2>3. ~(m < n)
    BY <2>1, <2>2
  <2>4. m \in Nat /\ n \in Nat
    OBVIOUS
  <2>5. QED
    BY <2>3, <2>4
<1>5. QED
  BY <1>4

(* And one that is bounded, a greatest.                                    *)
LEMMA GreatestNumber ==
  ASSUME NEW n \in Nat, NEW S \in SUBSET (0 .. n - 1), S # {}
  PROVE  \E i \in S : \A j \in S : j <= i
<1> DEFINE T == {n - 1 - i : i \in S}
<1>1. T \subseteq Nat /\ T # {}
  <2>1. \A i \in S : i \in Int /\ 0 <= i /\ i <= n - 1
    OBVIOUS
  <2>2. \A i \in S : n - 1 - i \in Nat
    BY <2>1
  <2>3. QED
    BY <2>2
<1> HIDE DEF T
<1>2. PICK t \in T : \A u \in T : t <= u
  BY <1>1, LeastNumber
<1>3. PICK i \in S : t = n - 1 - i
  BY DEF T
<1>4. ASSUME NEW j \in S PROVE j <= i
  <2>1. n - 1 - j \in T
    BY DEF T
  <2>2. t <= n - 1 - j /\ i \in Int /\ j \in Int
    BY <1>2, <2>1
  <2>3. QED
    BY ONLY <1>3, <2>2, n \in Nat
<1>5. QED
  BY <1>4

(* A latent is added in front of the others, all of which are older now.   *)
LEMMA DatedLemma ==
  ASSUME NEW f \in Nat, NEW p \in Nat, NEW h \in Seq(Entries), Dated(h, f)
  PROVE  /\ Dated(Older(h, p), f + p)
         /\ p + f >= DFrame =>
              Dated(SubSeq(<<[ago |-> (f + p) - DFrame, since |-> FALSE]>> \o Older(h, p),
                           1, Fewer(Len(h) + 1, Latents)), (f + p) - DFrame)
<1> DEFINE o == Older(h, p)
           g == (f + p) - DFrame
           new == [ago |-> g, since |-> FALSE]
           all == <<new>> \o o
           n == Fewer(Len(h) + 1, Latents)
           s == SubSeq(all, 1, n)
<1>1. /\ h \in Seq(Entries) /\ Len(h) \in Nat /\ Len(h) <= Latents /\ Latents \in Nat
      /\ \A i \in 1 .. Len(h) : h[i] \in Entries
      /\ \A i \in 1 .. Len(h) : ~h[i].since => h[i].ago = f + 320 * (i - 1)
  BY DredAssumption, SMTT(30) DEF Dated, DFrame
<1>2. o = [i \in 1 .. Len(h) |-> [h[i] EXCEPT !.ago = @ + p]]
  BY <1>1 DEF Older
<1>3. ASSUME NEW i \in 1 .. Len(h)
      PROVE  o[i] \in Entries /\ o[i].ago = h[i].ago + p /\ o[i].since = h[i].since
  <2>1. o[i] = [h[i] EXCEPT !.ago = @ + p]
    BY <1>2
  <2>2. h[i] \in Entries
    BY <1>1
  <2> HIDE DEF o
  <2>3. QED
    BY <2>1, <2>2 DEF Entries
<1>4. o \in Seq(Entries) /\ Len(o) = Len(h)
  <2>1. \A i \in 1 .. Len(h) : o[i] \in Entries
    BY <1>3
  <2>2. o = [i \in 1 .. Len(h) |-> o[i]]
    <3>1. DOMAIN o = 1 .. Len(h)
      BY <1>2
    <3>2. QED
      BY <1>2
  <2> HIDE DEF o
  <2>3. o \in [1 .. Len(h) -> Entries]
    BY <2>1, <2>2
  <2>4. QED
    BY <1>1, <2>3
<1> HIDE DEF o
<1>5. Dated(o, f + p)
  <2>1. ASSUME NEW i \in 1 .. Len(o), ~o[i].since PROVE o[i].ago = f + p + 320 * (i - 1)
    <3>1. i \in 1 .. Len(h) /\ ~h[i].since
      BY <1>3, <1>4, <2>1
    <3>2. h[i].ago = f + 320 * (i - 1) /\ o[i].ago = h[i].ago + p
      BY <1>1, <1>3, <3>1
    <3>3. i \in Int /\ h[i].ago \in Int
      BY <1>1, <3>1 DEF Entries
    <3>4. QED
      BY <3>2, <3>3
  <2>2. QED
    BY <1>1, <1>4, <2>1 DEF Dated, DFrame
<1>6. ASSUME p + f >= DFrame PROVE Dated(s, g)
  <2>1. g \in Nat /\ g = f + p - 320
    BY <1>6 DEF DFrame
  <2>2. new \in Entries /\ new.ago = g /\ new.since = FALSE
    BY <2>1 DEF Entries
  <2> HIDE DEF new, g
  <2>3. all \in Seq(Entries) /\ Len(all) = Len(h) + 1 /\ all[1] = new
        /\ \A i \in 2 .. Len(h) + 1 : all[i] = o[i - 1]
    BY <1>1, <1>4, <2>2
  <2>4. n \in 0 .. Len(h) + 1 /\ n <= Latents
    BY <1>1 DEF Fewer
  <2> HIDE DEF all, n
  <2>5. s \in Seq(Entries) /\ Len(s) = n /\ \A i \in 1 .. n : s[i] = all[i]
    BY <1>1, <2>3, <2>4
  <2> HIDE DEF s
  <2>6. ASSUME NEW i \in 1 .. n, ~s[i].since PROVE s[i].ago = g + 320 * (i - 1)
    <3>1. CASE i = 1
      BY <2>1, <2>2, <2>3, <2>5, <3>1
    <3>2. CASE i # 1
      <4>1. i - 1 \in 1 .. Len(h) /\ i \in 2 .. Len(h) + 1 /\ i \in Int
        BY <1>1, <2>4, <3>2
      <4>2. s[i] = o[i - 1]
        BY <2>3, <2>5, <4>1
      <4>3. h[i - 1].ago = f + 320 * (i - 2) /\ o[i - 1].ago = h[i - 1].ago + p
        <5>1. ~h[i - 1].since /\ o[i - 1].ago = h[i - 1].ago + p
          BY <1>3, <2>6, <4>1, <4>2
        <5>2. h[i - 1].ago = f + 320 * ((i - 1) - 1)
          BY <1>1, <4>1, <5>1
        <5>3. QED
          BY <4>1, <5>1, <5>2
      <4>4. QED
        BY <2>1, <4>1, <4>2, <4>3
    <3>3. QED
      BY <3>1, <3>2
  <2>7. QED
    BY <2>4, <2>5, <2>6 DEF Dated, DFrame
<1>7. QED
  BY <1>5, <1>6 DEF o

(* The numbers of a piece.                                                 *)
LEMMA CountLemma ==
  ASSUME NEW a \in 0 .. 319, NEW p \in 1 .. 320, NEW b \in Int, b <= 13, NEW c \in Nat
  PROVE  /\ a + p \in Nat
         /\ a + p < 320 => a + p \in 0 .. 319
         /\ ~(a + p < 320) => a + p - 320 \in 0 .. 319
         /\ 40 * b + 320 * c + (a + p) = (40 * b + 320 * c + a) + p
         /\ b < 6 => b + 8 <= 13
         /\ 40 * (b + 8) + 320 * c + (a + p - 320) = (40 * b + 320 * c + a) + p
         /\ 40 * b + 320 * (c + 1) + (a + p - 320) = (40 * b + 320 * c + a) + p
<1>1. a \in Int /\ p \in Int /\ 0 <= a /\ a <= 319 /\ 1 <= p /\ p <= 320
  OBVIOUS
<1>2. QED
  BY <1>1

(* A piece of input: a latent of 20 ms counts for the offset or for those  *)
(* that are too new.                                                       *)
LEMMA PieceLemma ==
  ASSUME NEW st, NEW total \in Int, Adds(st, total), NEW p \in 1 .. DFrame
  PROVE  Adds(Piece(st, p), total + p)
<1> DEFINE f == st.fill + p
           older == Older(st.history, p)
           more == SubSeq(<<[ago |-> f - DFrame, since |-> FALSE]>> \o older,
                          1, Fewer(Len(st.history) + 1, Latents))
           o == st.offset + (IF st.offset < 6 THEN 8 ELSE 0)
           l == st.latent + (IF st.offset < 6 THEN 0 ELSE 1)
           y == [st EXCEPT !.fill = f]
           x0 == [fill |-> f, history |-> older, offset |-> st.offset, latent |-> st.latent]
<1>1. /\ st.fill \in 0 .. 319 /\ p \in 1 .. 320 /\ st.offset \in Int /\ st.offset <= 13
      /\ st.latent \in Nat /\ Dated(st.history, st.fill)
      /\ 40 * st.offset + 320 * st.latent + st.fill = total
  BY DEF Adds, DFrame
<1>2. f < DFrame => Piece(st, p) = x0
  <2>1. f < DFrame => Piece(st, p) = [st EXCEPT !.fill = f, !.history = older]
    BY Zenon DEF Piece
  <2>2. [st EXCEPT !.fill = f, !.history = older] = [y EXCEPT !.history = older]
    OBVIOUS
  <2>3. st = [fill |-> st.fill, history |-> st.history, offset |-> st.offset, latent |-> st.latent]
    BY DEF Adds
  <2> HIDE DEF f, older
  <2>4. y = [fill |-> f, history |-> st.history, offset |-> st.offset, latent |-> st.latent]
    BY <2>3
  <2> HIDE DEF y
  <2>5. [y EXCEPT !.history = older] = x0
    BY <2>4
  <2> HIDE DEF x0
  <2>6. QED
    BY <2>1, <2>2, <2>5, Zenon
<1>3. ~(f < DFrame) =>
        Piece(st, p) = [fill |-> f - DFrame, history |-> more, offset |-> o, latent |-> l]
  BY Zenon DEF Piece
<1>4. /\ f \in Nat
      /\ f < 320 => f \in 0 .. 319
      /\ ~(f < 320) => f - 320 \in 0 .. 319
      /\ 40 * st.offset + 320 * st.latent + f = total + p
      /\ st.offset < 6 => st.offset + 8 <= 13
      /\ 40 * (st.offset + 8) + 320 * st.latent + (f - 320) = total + p
      /\ 40 * st.offset + 320 * (st.latent + 1) + (f - 320) = total + p
  <2> DEFINE a == st.fill
             b == st.offset
             c == st.latent
  <2>1. a \in 0 .. 319 /\ p \in 1 .. 320 /\ b \in Int /\ b <= 13 /\ c \in Nat
        /\ total = 40 * b + 320 * c + a
    BY <1>1
  <2>2. f = a + p
    OBVIOUS
  <2> HIDE DEF a, b, c, f
  <2>3. /\ a + p \in Nat
        /\ a + p < 320 => a + p \in 0 .. 319
        /\ ~(a + p < 320) => a + p - 320 \in 0 .. 319
        /\ 40 * b + 320 * c + (a + p) = (40 * b + 320 * c + a) + p
        /\ b < 6 => b + 8 <= 13
        /\ 40 * (b + 8) + 320 * c + (a + p - 320) = (40 * b + 320 * c + a) + p
        /\ 40 * b + 320 * (c + 1) + (a + p - 320) = (40 * b + 320 * c + a) + p
    BY ONLY <2>1
  <2>4. /\ f \in Nat
        /\ f < 320 => f \in 0 .. 319
        /\ ~(f < 320) => f - 320 \in 0 .. 319
        /\ 40 * b + 320 * c + f = total + p
        /\ b < 6 => b + 8 <= 13
        /\ 40 * (b + 8) + 320 * c + (f - 320) = total + p
        /\ 40 * b + 320 * (c + 1) + (f - 320) = total + p
    BY ONLY <2>1, <2>2, <2>3
  <2>5. QED
    BY <2>4 DEF a, b, c
<1>5. /\ o \in Int /\ o <= 13 /\ l \in Nat
      /\ 40 * o + 320 * l + (f - 320) = total + p
  <2> HIDE DEF f
  <2>1. CASE st.offset < 6
    <3>1. o = st.offset + 8 /\ l = st.latent + 0 /\ l = st.latent
      <4>1. st.latent + 0 = st.latent
        BY <1>1
      <4>2. QED
        BY <2>1, <4>1
    <3> HIDE DEF o, l
    <3>2. QED
      BY <1>1, <1>4, <2>1, <3>1
  <2>2. CASE ~(st.offset < 6)
    <3>1. o = st.offset + 0 /\ o = st.offset /\ l = st.latent + 1
      <4>1. st.offset + 0 = st.offset
        BY <1>1
      <4>2. QED
        BY <2>2, <4>1
    <3> HIDE DEF o, l
    <3>2. QED
      BY <1>1, <1>4, <2>2, <3>1
  <2>3. QED
    BY <2>1, <2>2
<1>6. /\ Dated(older, f)
      /\ f >= DFrame => Dated(more, f - DFrame)
  <2>1. /\ st.fill \in Nat /\ p \in Nat
        /\ p + st.fill >= DFrame <=> f >= DFrame
    <3>1. p + st.fill = f
      BY <1>1
    <3> HIDE DEF f
    <3>2. QED
      BY <1>1, <3>1
  <2>2. /\ Dated(Older(st.history, p), st.fill + p)
        /\ p + st.fill >= DFrame =>
             Dated(SubSeq(<<[ago |-> (st.fill + p) - DFrame, since |-> FALSE]>>
                            \o Older(st.history, p), 1, Fewer(Len(st.history) + 1, Latents)),
                   (st.fill + p) - DFrame)
    <3>1. /\ st.fill \in Nat /\ p \in Nat
          /\ st.history \in Seq(Entries) /\ Dated(st.history, st.fill)
      BY <1>1, <2>1 DEF Dated
    <3>2. QED
      BY <3>1, DatedLemma, Zenon
  <2>3. Dated(older, f)
    BY <2>2
  <2>4. ASSUME f >= DFrame PROVE Dated(more, f - DFrame)
    <3>1. p + st.fill >= DFrame
      BY <2>1, <2>4
    <3>2. Dated(SubSeq(<<[ago |-> (st.fill + p) - DFrame, since |-> FALSE]>>
                         \o Older(st.history, p), 1, Fewer(Len(st.history) + 1, Latents)),
                (st.fill + p) - DFrame)
      BY <2>2, <3>1, Zenon
    <3>3. QED
      BY <3>2
  <2>5. QED
    BY <2>3, <2>4
<1> HIDE DEF older, more, o, l, f
<1>7. CASE f < DFrame
  <2> DEFINE x == x0
  <2>2. Piece(st, p) = x
    BY <1>2, <1>7
  <2>3. x.fill = f /\ x.history = older /\ x.offset = st.offset /\ x.latent = st.latent
    OBVIOUS
  <2>4. f \in 0 .. DFrame - 1 /\ 40 * st.offset + DFrame * st.latent + f = total + p
    BY <1>4, <1>7 DEF DFrame
  <2> HIDE DEF x
  <2>5. x = [fill |-> x.fill, history |-> x.history, offset |-> x.offset, latent |-> x.latent]
    BY <2>3 DEF x
  <2>6. QED
    BY <1>1, <1>6, <2>2, <2>3, <2>4, <2>5 DEF Adds
<1>8. CASE ~(f < DFrame)
  <2> DEFINE g == f - DFrame
             x == [fill |-> g, history |-> more, offset |-> o, latent |-> l]
  <2>1. Piece(st, p) = x
    BY <1>3, <1>8
  <2>2. x.fill = g /\ x.history = more /\ x.offset = o /\ x.latent = l
    OBVIOUS
  <2>3. g \in 0 .. DFrame - 1 /\ f >= DFrame /\ 40 * o + DFrame * l + g = total + p
    BY <1>4, <1>5, <1>8 DEF DFrame
  <2>5. Dated(more, g)
    BY <1>6, <2>3
  <2> HIDE DEF g, x
  <2>6. x = [fill |-> x.fill, history |-> x.history, offset |-> x.offset, latent |-> x.latent]
    BY <2>2 DEF x
  <2>7. QED
    BY <1>5, <2>1, <2>2, <2>3, <2>5, <2>6 DEF Adds
<1>9. QED
  BY <1>7, <1>8

(* A frame has one piece to three, and they are the frame.                 *)
LEMMA PiecesLemma ==
  ASSUME NEW p \in 40 .. 960
  PROVE  /\ Len(Pieces(p)) \in 1 .. 3
         /\ \A i \in 1 .. Len(Pieces(p)) : Pieces(p)[i] \in 1 .. DFrame
         /\ Len(Pieces(p)) = 1 => Pieces(p)[1] = p
         /\ Len(Pieces(p)) = 2 => Pieces(p)[1] + Pieces(p)[2] = p
         /\ Len(Pieces(p)) = 3 => Pieces(p)[1] + Pieces(p)[2] + Pieces(p)[3] = p
<1> DEFINE n == (p + DFrame - 1) \div DFrame
           s == Pieces(p)
<1>1. n \in 1 .. 3 /\ 320 * n >= p /\ 320 * (n - 1) < p /\ p \in Int
  <2>1. n = (p + 319) \div 320
    BY DEF DFrame
  <2> HIDE DEF n
  <2>2. QED
    BY <2>1
<1>2. s = [i \in 1 .. n |-> Fewer(DFrame, p - DFrame * (i - 1))]
  BY DEF Pieces
<1> HIDE DEF n, s
<1>3. Len(s) = n
  BY <1>1, <1>2
<1>4. ASSUME NEW i \in 1 .. n
      PROVE  s[i] = IF 320 < p - 320 * (i - 1) THEN 320 ELSE p - 320 * (i - 1)
  BY <1>2 DEF Fewer, DFrame
<1>5. ASSUME NEW i \in 1 .. n PROVE s[i] \in 1 .. DFrame
  <2>1. i \in Int /\ i >= 1 /\ i <= n
    BY <1>1
  <2> DEFINE left == p - 320 * (i - 1)
  <2>2. left \in Int /\ left >= 1
    BY <1>1, <2>1
  <2>3. s[i] = IF 320 < left THEN 320 ELSE left
    BY <1>4
  <2> HIDE DEF left
  <2>4. QED
    BY <2>2, <2>3 DEF DFrame
<1>6. n = 1 => s[1] = p
  BY <1>1, <1>4
<1>7. n = 2 => s[1] + s[2] = p
  BY <1>1, <1>4
<1>8. n = 3 => s[1] + s[2] + s[3] = p
  BY <1>1, <1>4
<1>9. QED
  BY <1>1, <1>3, <1>5, <1>6, <1>7, <1>8 DEF s

(* The pieces of a frame, one after another.                               *)
LEMMA FeedsExist ==
  ASSUME NEW p \in 40 .. 960, NEW h \in Seq(Entries)
  PROVE  \E f : f = [n \in 0 .. Len(Pieces(p)) |->
                      IF n = 0 THEN [fill |-> fill, history |-> h,
                                     offset |-> StartsAt(delay, fill), latent |-> 0]
                      ELSE Piece(f[n - 1], Pieces(p)[n])]
<1> DEFINE s == Pieces(p)
           m == Len(s)
           x == [fill |-> fill, history |-> h, offset |-> StartsAt(delay, fill), latent |-> 0]
<1>0. m \in 1 .. 3
  BY PiecesLemma
<1> HIDE DEF s, m, x
<1> DEFINE next(y, n) == Piece(y, s[n])
           x1 == next(x, 1)
           x2 == next(x1, 2)
           x3 == next(x2, 3)
           all == <<x1, x2, x3>>
           g == [n \in 0 .. m |-> IF n = 0 THEN x ELSE all[n]]
           v(n) == IF n = 0 THEN x ELSE next(g[n - 1], n)
           r(n) == IF n = 0 THEN x ELSE all[n]
<1>1. all[1] = next(x, 1) /\ all[2] = next(all[1], 2) /\ all[3] = next(all[2], 3)
  <2> HIDE DEF next
  <2>1. QED
    OBVIOUS
<1> HIDE DEF next, all
<1>2. ASSUME NEW n \in 0 .. m
      PROVE  r(n) = v(n)
  <2>1. CASE n = 0
    BY <2>1
  <2>2. CASE n # 0
    <3>1. n \in 1 .. 3 /\ n - 1 \in 0 .. m
      BY <1>0, <2>2
    <3>2. g[n - 1] = IF n - 1 = 0 THEN x ELSE all[n - 1]
      BY <3>1
    <3> HIDE DEF g
    <3>3. all[n] = next(IF n - 1 = 0 THEN x ELSE all[n - 1], n)
      <4>1. n = 1 \/ n = 2 \/ n = 3
        BY <3>1
      <4>2. QED
        BY <1>1, <4>1
    <3>4. QED
      BY <2>2, <3>2, <3>3
  <2>3. QED
    BY <2>1, <2>2
<1>3. g = [n \in 0 .. m |-> v(n)]
  <2>1. g = [n \in 0 .. m |-> r(n)]
    OBVIOUS
  <2> HIDE DEF g, r, v
  <2>2. [n \in 0 .. m |-> r(n)] = [n \in 0 .. m |-> v(n)]
    BY <1>2, Zenon
  <2>3. QED
    BY <2>1, <2>2
<1>4. g = [n \in 0 .. m |-> IF n = 0 THEN x ELSE Piece(g[n - 1], s[n])]
  BY <1>3 DEF next
<1> HIDE DEF g, r, v
<1>5. \E f : f = [n \in 0 .. m |-> IF n = 0 THEN x ELSE Piece(f[n - 1], s[n])]
  BY <1>4, Zenon
<1>6. QED
  BY <1>5, ZenonT(60) DEF s, m, x

(* A frame is fed: what is known of the input adds up.                     *)
LEMMA FedLemma ==
  ASSUME NEW h, fill \in 0 .. DFrame - 1, delay \in Delays, Dated(h, fill), NEW p \in 40 .. 960
  PROVE  Adds(Fed(p, h), 40 * StartsAt(delay, fill) + fill + p)
<1> DEFINE s == Pieces(p)
           m == Len(s)
           x == [fill |-> fill, history |-> h, offset |-> StartsAt(delay, fill), latent |-> 0]
           fed == CHOOSE f : f = [n \in 0 .. m |-> IF n = 0 THEN x ELSE Piece(f[n - 1], s[n])]
           total == 40 * StartsAt(delay, fill) + fill
<1>1. /\ m \in 1 .. 3
      /\ \A i \in 1 .. m : s[i] \in 1 .. DFrame
      /\ m = 1 => s[1] = p
      /\ m = 2 => s[1] + s[2] = p
      /\ m = 3 => s[1] + s[2] + s[3] = p
  BY PiecesLemma, ZenonT(60)
<1>2. fed = [n \in 0 .. m |-> IF n = 0 THEN x ELSE Piece(fed[n - 1], s[n])]
  <2>1. \E f : f = [n \in 0 .. m |-> IF n = 0 THEN x ELSE Piece(f[n - 1], s[n])]
    <3>1. p \in 40 .. 960 /\ h \in Seq(Entries)
      BY DEF Dated
    <3>2. QED
      BY <3>1, FeedsExist, ZenonT(60) DEF s, m, x
  <2> HIDE DEF x, s, m
  <2>2. QED
    BY <2>1, Zenon
<1>3. Fed(p, h) = fed[m]
  BY Zenon DEF Fed
<1> HIDE DEF fed
<1>4. Adds(x, total) /\ total \in Int
  <2>1. delay \in {0, 64}
    BY DredAssumption
  <2>2. StartsAt(delay, fill) \in Int /\ StartsAt(delay, fill) <= 13
    <3>1. fill \in 0 .. 319
      BY DEF DFrame
    <3>2. QED
      BY <2>1, <3>1 DEF StartsAt
  <2> DEFINE o == StartsAt(delay, fill)
  <2>3. o \in Int /\ o <= 13 /\ fill \in Int
    BY <2>2 DEF DFrame
  <2> HIDE DEF o
  <2>4. x = [fill |-> fill, history |-> h, offset |-> o, latent |-> 0]
    BY DEF o
  <2> HIDE DEF x
  <2>5. x.fill = fill /\ x.history = h /\ x.offset = o /\ x.latent = 0
    BY <2>4
  <2>6. 40 * o + DFrame * 0 + fill = total /\ total \in Int
    BY <2>3 DEF o, DFrame
  <2>7. QED
    BY <2>3, <2>4, <2>5, <2>6 DEF Adds
<1> HIDE DEF x, s, m, total
<1>5. fed[0] = x
  BY <1>1, <1>2
<1>6. ASSUME NEW n \in 1 .. 3, n <= m, NEW t \in Int, Adds(fed[n - 1], t)
      PROVE  Adds(fed[n], t + s[n])
  <2>1. n \in 0 .. m /\ n \in 1 .. m /\ n # 0
    BY <1>1, <1>6
  <2>2. fed[n] = Piece(fed[n - 1], s[n])
    BY <1>2, <2>1
  <2>3. s[n] \in 1 .. DFrame
    BY <1>1, <2>1
  <2>4. QED
    BY <1>6, <2>2, <2>3, PieceLemma
<1>7. ASSUME NEW i \in 1 .. m PROVE s[i] \in Int
  <2>1. s[i] \in 1 .. DFrame
    BY <1>1
  <2>2. 1 .. DFrame \subseteq Int
    BY DEF DFrame
  <2>3. QED
    BY <2>1, <2>2, Zenon
<1>8. Adds(fed[1], total + s[1])
  <2>1. 1 \in 1 .. 3 /\ 1 <= m /\ 1 - 1 = 0
    BY <1>1
  <2>2. Adds(fed[1 - 1], total)
    BY <1>4, <1>5, <2>1
  <2>3. QED
    BY <1>4, <1>6, <2>1, <2>2
<1>9. m >= 2 => Adds(fed[2], total + s[1] + s[2])
  <2>1. SUFFICES ASSUME m >= 2 PROVE Adds(fed[2], total + s[1] + s[2])
    OBVIOUS
  <2>2. 2 \in 1 .. 3 /\ 2 <= m /\ 2 - 1 = 1 /\ total + s[1] \in Int
    BY <1>1, <1>4, <1>7, <2>1
  <2>3. Adds(fed[2 - 1], total + s[1])
    BY <1>8, <2>2
  <2>4. QED
    BY <1>6, <2>2, <2>3
<1>10. m = 3 => Adds(fed[3], total + s[1] + s[2] + s[3])
  <2>1. SUFFICES ASSUME m = 3 PROVE Adds(fed[3], total + s[1] + s[2] + s[3])
    OBVIOUS
  <2>2. 3 \in 1 .. 3 /\ 3 <= m /\ 3 - 1 = 2 /\ total + s[1] + s[2] \in Int
    BY <1>1, <1>4, <1>7, <2>1
  <2>3. Adds(fed[3 - 1], total + s[1] + s[2])
    BY <1>9, <2>1, <2>2
  <2>4. QED
    BY <1>6, <2>2, <2>3
<1>11. Adds(fed[m], total + p)
  <2>1. CASE m = 1
    BY <1>1, <1>8, <2>1
  <2>2. CASE m = 2
    <3>1. total + s[1] + s[2] = total + p
      BY <1>1, <1>4, <1>7, <2>2
    <3>2. QED
      BY <1>9, <2>2, <3>1
  <2>3. CASE m = 3
    <3>1. total + s[1] + s[2] + s[3] = total + p
      BY <1>1, <1>4, <1>7, <2>3
    <3>2. QED
      BY <1>10, <2>3, <3>1
  <2>4. QED
    BY <1>1, <2>1, <2>2, <2>3
<1>12. QED
  BY <1>3, <1>11, SMTT(30) DEF total

(* An activity that is remembered is heard in the latent that is looked at *)
(* there.                                                                  *)
LEMMA VoiceLemma ==
  ASSUME NEW mem, NEW l \in Nat, NEW e \in 1 .. Memory, mem[e], 8 * l + 1 <= e, e <= 8 * l + 16
  PROVE  Voice(mem, l)
<1> DEFINE i == e - 8 * l
<1>1. i \in 1 .. 16 /\ 8 * l + i = e /\ e <= Memory
  OBVIOUS
<1> HIDE DEF i
<1>2. 8 * l + i <= Memory /\ mem[8 * l + i]
  BY <1>1
<1>3. QED
  BY <1>1, <1>2 DEF Voice

(* The first latent that is sent: those from the start to it are silent.   *)
LEMMA FirstLemma ==
  ASSUME NEW mem, NEW st, Len(st.history) \in Nat, Start(mem, st) \in Nat
  PROVE  /\ First(mem, st) \in Nat /\ First(mem, st) >= Start(mem, st)
         /\ First(mem, st) = Start(mem, st) \/ First(mem, st) <= Len(st.history)
         /\ \A l \in Start(mem, st) .. First(mem, st) - 1 : ~Voice(mem, l)
<1> DEFINE from == Start(mem, st)
           len == Len(st.history)
           there == {l \in from .. len - 1 : Voice(mem, l)}
           least == CHOOSE l \in there : \A k \in there : l <= k
           first == IF from >= len THEN from ELSE IF there = {} THEN len ELSE least
<1>1. First(mem, st) = first
  BY Zenon DEF First
<1>2. from \in Nat /\ len \in Nat
  OBVIOUS
<1>3. there # {} => least \in there /\ \A k \in there : least <= k
  <2>1. there \subseteq Nat
    <3> HIDE DEF from, len
    <3>1. QED
      BY <1>2
  <2> HIDE DEF there
  <2>2. there # {} => \E l \in there : \A k \in there : l <= k
    BY <2>1, LeastNumber
  <2>3. QED
    BY <2>2, Zenon
<1>4. \A l : l \in there <=> l \in from .. len - 1 /\ Voice(mem, l)
  OBVIOUS
<1> HIDE DEF there, least, from, len
<1>5. /\ first \in Nat /\ first >= from
      /\ first = from \/ first <= len
      /\ \A l \in from .. first - 1 : ~Voice(mem, l)
  <2>1. CASE from >= len
    <3>1. first = from
      BY <2>1
    <3> HIDE DEF first
    <3>2. QED
      BY <1>2, <3>1
  <2>2. CASE ~(from >= len) /\ there = {}
    <3>1. first = len
      BY <2>2
    <3> HIDE DEF first
    <3>2. \A l \in from .. len - 1 : ~Voice(mem, l)
      BY <1>4, <2>2
    <3>3. QED
      BY <1>2, <2>2, <3>1, <3>2
  <2>3. CASE ~(from >= len) /\ there # {}
    <3>1. first = least
      BY <2>3
    <3> HIDE DEF first
    <3>2. least \in from .. len - 1 /\ \A k \in there : least <= k
      BY <1>3, <1>4, <2>3
    <3>3. ASSUME NEW l \in from .. least - 1 PROVE ~Voice(mem, l)
      <4>1. l \in from .. len - 1 /\ ~(least <= l)
        BY <1>2, <3>2
      <4>2. QED
        BY <1>4, <3>2, <4>1
    <3>4. QED
      BY <1>2, <3>1, <3>2, <3>3
  <2>4. QED
    BY <2>1, <2>2, <2>3
<1>6. QED
  BY <1>1, <1>5 DEF from, len

(* Of the latents that are tried none that is heard is behind the last     *)
(* that is kept.                                                           *)
LEMMA KeptLemma ==
  ASSUME NEW mem, NEW from \in Nat, NEW tries \in Nat
  PROVE  /\ Kept(mem, from, tries) \in 0 .. tries
         /\ \A i \in 0 .. tries - 1 : Voice(mem, from + 2 * i) => i < Kept(mem, from, tries)
<1> DEFINE heard(i) == Voice(mem, from + 2 * i)
           keep == {i \in 0 .. tries - 1 : heard(i) \/ (i > 0 /\ heard(i - 1))}
           last == CHOOSE i \in keep : \A j \in keep : j <= i
           kept == IF keep = {} THEN 0 ELSE 1 + last
<1>1. Kept(mem, from, tries) = kept
  BY Zenon DEF Kept
<1>2. keep \in SUBSET (0 .. tries - 1)
  OBVIOUS
<1>3. \A i \in 0 .. tries - 1 : heard(i) => i \in keep
  OBVIOUS
<1> HIDE DEF keep, heard
<1>4. keep # {} => last \in keep /\ \A j \in keep : j <= last
  <2>1. keep # {} => \E i \in keep : \A j \in keep : j <= i
    BY <1>2, GreatestNumber
  <2>2. QED
    BY <2>1, Zenon
<1> HIDE DEF last
<1>5. kept \in 0 .. tries /\ \A i \in 0 .. tries - 1 : heard(i) => i < kept
  <2>1. CASE keep = {}
    BY <1>3, <2>1
  <2>2. CASE keep # {}
    <3>1. last \in 0 .. tries - 1 /\ kept = 1 + last
      BY <1>2, <1>4, <2>2
    <3> HIDE DEF kept
    <3>2. QED
      BY <1>3, <1>4, <2>2, <3>1
  <2>3. QED
    BY <2>1, <2>2
<1>6. QED
  BY <1>1, <1>5 DEF heard

(* What is written for the receiver is read as it was meant.               *)
LEMMA SaysLemma ==
  ASSUME NEW off \in Int, off <= 13, NEW skipped \in Nat, NEW index \in Nat, NEW p \in Nat
  PROVE  /\ Read(Written(Total(off, skipped)), index, p) = off - 8 * skipped + index * (p \div 40)
         /\ Read(Written(Total(off, skipped)), index, p) <= 16 + index * (p \div 40)
<1> DEFINE total == Total(off, skipped)
           w == Written(total)
           z == index * (p \div 40)
<1>1. total \in Int /\ total >= 0 /\ total = 16 - (off - 8 * skipped)
  BY DEF Total
<1>2. z \in Int
  <2>1. p \div 40 \in Int
    OBVIOUS
  <2>2. QED
    BY <2>1
<1>3. w.rest + 32 * w.more = total /\ w.rest \in Int /\ w.more \in Int
  <2> HIDE DEF total
  <2>1. CASE total > 31
    <3>1. w = [more |-> total \div 32, rest |-> total % 32]
      BY <2>1 DEF Written
    <3>2. w.more = total \div 32 /\ w.rest = total % 32
      BY <3>1
    <3> HIDE DEF w
    <3>3. (total % 32) + 32 * (total \div 32) = total /\ total % 32 \in Int /\ total \div 32 \in Int
      BY <1>1
    <3>4. QED
      BY <3>2, <3>3
  <2>2. CASE ~(total > 31)
    <3>1. w = [more |-> 0, rest |-> total]
      BY <2>2 DEF Written
    <3>2. w.more = 0 /\ w.rest = total
      BY <3>1
    <3> HIDE DEF w
    <3>3. QED
      BY <1>1, <3>2
  <2>3. QED
    BY <2>1, <2>2
<1>4. Read(w, index, p) = 16 - w.rest - 32 * w.more + z
  BY DEF Read
<1> DEFINE r == w.rest
           m == w.more
<1>5. r + 32 * m = total /\ r \in Int /\ m \in Int /\ Read(w, index, p) = 16 - r - 32 * m + z
  BY <1>3, <1>4
<1> HIDE DEF w, total, z, r, m
<1>6. Read(w, index, p) = off - 8 * skipped + z /\ Read(w, index, p) <= 16 + z
  BY <1>1, <1>2, <1>5
<1>7. QED
  BY <1>6 DEF w, total, z

(* The latent that an activity is of: of the 40 ms that are looked at for  *)
(* a latent the first half is its own.                                     *)
LEMMA OfLemma ==
  ASSUME NEW e \in Nat, NEW f \in 0 .. 319
  PROVE  LET of == (40 * (e - 1) + 20 - f) \div DFrame
         IN of \in Int /\ 8 * of + 1 <= e /\ e <= 8 * of + 16
<1> DEFINE x == 40 * (e - 1) + 20 - f
           of == x \div 320
<1>1. x \in Int /\ x = 40 * (e - 1) + 20 - f
  OBVIOUS
<1> HIDE DEF x
<1>2. of \in Int /\ 320 * of <= x /\ x < 320 * of + 320
  BY <1>1
<1> HIDE DEF of
<1>3. of \in Int /\ 8 * of + 1 <= e /\ e <= 8 * of + 16
  BY <1>1, <1>2
<1>4. QED
  BY <1>3 DEF of, x, DFrame

(* No packet says nothing.                                                 *)
LEMMA NothingSaid ==
  /\ SaysSo(NoPacket)
  /\ \A d : OnTime(d, NoPacket)
  /\ \A f, mem : Heard(f, mem, NoPacket)
<1>1. DOMAIN NoPacket.sent = {}
  BY DEF NoPacket
<1>2. QED
  BY <1>1 DEF SaysSo, OnTime, Heard

(* What a packet is said to be, from where it was put together.            *)
LEMMA SentLemma ==
  ASSUME delay \in Delays, fill \in 0 .. DFrame - 1, extra \in 0 .. Latents,
         NEW st, NEW p \in 40 .. 960, p % 40 = 0,
         Adds(st, 40 * StartsAt(delay, fill) + fill + p),
         NEW mem, NEW chunks \in Chunks, NEW fits \in Fits, NEW index \in Indexes
  PROVE  /\ Skipped(mem, st) \in 0 .. Latents
         /\ SaysSo(Sent(mem, st, chunks, fits, index, p))
         /\ OnTime(delay, Sent(mem, st, chunks, fits, index, p))
         /\ Heard(st.fill, mem, Sent(mem, st, chunks, fits, index, p))
<1> DEFINE start == Start(mem, st)
           from == First(mem, st)
           len == Len(st.history)
           most == Fewer(2 * chunks, len - from - 1)
           tries == Fewer(fits, (most + 1) \div 2)
           kept == IF most > 0 THEN Kept(mem, from, tries) ELSE 0
           skipped == from - start
           sent == [i \in 1 .. kept |-> st.history[from + 2 * i - 1]]
           says == Read(Written(Total(st.offset, skipped)), index, p)
           k == [sent |-> sent, says |-> says, late |-> Delayed(mem), index |-> index,
                 size |-> p, from |-> from, start |-> start, tried |-> tries]
<1>1. Sent(mem, st, chunks, fits, index, p) =
        IF kept = 0 \/ (kept = 1 /\ skipped > 0) THEN NoPacket ELSE k
  BY Zenon DEF Sent
<1>2. /\ delay \in {0, 64} /\ fill \in 0 .. 319 /\ Latents \in Nat
      /\ chunks \in Nat /\ chunks > 0 /\ fits \in Nat /\ index \in 0 .. 5
  BY DredAssumption DEF DFrame
<1>3. /\ st.fill \in 0 .. 319 /\ st.offset \in Int /\ st.offset <= 13 /\ st.latent \in Nat
      /\ len \in Nat /\ len <= Latents
      /\ \A i \in 1 .. len : /\ st.history[i] \in Entries
                             /\ ~st.history[i].since =>
                                  st.history[i].ago = st.fill + 320 * (i - 1)
      /\ 40 * st.offset + 320 * st.latent + st.fill = 40 * StartsAt(delay, fill) + fill + p
  BY DEF Adds, Dated, DFrame
<1>4. start \in Nat /\ (~Delayed(mem) => start = st.latent)
  BY <1>2, <1>3 DEF Start
<1>5. /\ from \in Nat /\ from >= start
      /\ from = start \/ from <= len
      /\ \A l \in start .. from - 1 : ~Voice(mem, l)
  BY <1>3, <1>4, FirstLemma
<1>6. skipped \in Nat /\ skipped <= Latents /\ Skipped(mem, st) = skipped
  <2>1. Skipped(mem, st) = skipped
    BY Zenon DEF Skipped
  <2> HIDE DEF start, from, len
  <2>2. QED
    BY <1>2, <1>3, <1>4, <1>5, <2>1
<1>7. CASE kept = 0 \/ (kept = 1 /\ skipped > 0)
  <2>1. Sent(mem, st, chunks, fits, index, p) = NoPacket
    BY <1>1, <1>7
  <2> HIDE DEF kept, skipped, k
  <2>2. QED
    BY <1>2, <1>6, <2>1, NothingSaid
<1>8. CASE ~(kept = 0 \/ (kept = 1 /\ skipped > 0))
  <2>1. Sent(mem, st, chunks, fits, index, p) = k
    BY <1>1, <1>8
  <2>2. /\ k.sent = sent /\ k.says = says /\ k.late = Delayed(mem) /\ k.index = index
        /\ k.size = p /\ k.from = from /\ k.start = start /\ k.tried = tries
    <3> HIDE DEF sent, says, from, start, tries
    <3>1. QED
      OBVIOUS
  <2>3. most > 0 /\ kept = Kept(mem, from, tries) /\ kept # 0
    <3> HIDE DEF most, tries, skipped, from
    <3>1. QED
      BY <1>8
  <2>4. most \in Int /\ most <= len - from - 1
    <3> HIDE DEF len, from
    <3>1. QED
      BY <1>2, <1>3, <1>5 DEF Fewer
  <2>5. tries \in Nat /\ 2 * tries <= most + 1
    <3> HIDE DEF most
    <3>1. QED
      BY <1>2, <2>3, <2>4 DEF Fewer
  <2> HIDE DEF k, sent, says, skipped, kept, tries, most
  <2>6. /\ kept \in 0 .. tries
        /\ \A i \in 0 .. tries - 1 : Voice(mem, from + 2 * i) => i < kept
    BY <1>5, <2>3, <2>5, KeptLemma
  <2>7. DOMAIN sent = 1 .. kept /\ Len(sent) = kept
        /\ \A i \in 1 .. kept : sent[i] = st.history[from + 2 * i - 1]
    <3>1. kept \in Nat
      BY <2>5, <2>6
    <3>2. sent = [i \in 1 .. kept |-> st.history[from + 2 * i - 1]]
      BY DEF sent
    <3>3. QED
      BY <3>1, <3>2
  <2>8. /\ says = st.offset - 8 * skipped + index * (p \div 40)
        /\ says <= 16 + index * (p \div 40)
    <3>1. /\ st.offset \in Int /\ st.offset <= 13 /\ skipped \in Nat /\ index \in Nat
          /\ p \in Nat
      <4>1. index \in 0 .. 5 => index \in Nat
        OBVIOUS
      <4>2. p \in Nat
        OBVIOUS
      <4>3. QED
        BY <1>2, <1>3, <1>6, <4>1, <4>2
    <3>2. says = Read(Written(Total(st.offset, skipped)), index, p)
      BY Zenon DEF says
    <3>3. /\ Read(Written(Total(st.offset, skipped)), index, p)
               = st.offset - 8 * skipped + index * (p \div 40)
          /\ Read(Written(Total(st.offset, skipped)), index, p) <= 16 + index * (p \div 40)
      BY <3>1, SaysLemma, Zenon
    <3>4. QED
      BY <3>2, <3>3, Zenon
  <2>9. SaysSo(k)
    BY <2>2, <2>8 DEF SaysSo
  <2>10. OnTime(delay, k)
    <3> SUFFICES ASSUME NEW i \in 1 .. kept, ~Delayed(mem), ~sent[i].since
                 PROVE  (40 * says - Newest - 2 * DFrame * (i - 1))
                          - ((1 + index) * p + delay - sent[i].ago) \in -20 .. 20
      BY <2>2, <2>7, Zenon DEF OnTime
    <3> DEFINE j == from + 2 * i - 1
               h == st.history[j]
    <3>1. i \in Nat /\ i >= 1 /\ i <= kept
      BY <2>5, <2>6
    <3>2. j \in 1 .. len /\ j \in Int
      <4> HIDE DEF from, len
      <4>1. QED
        BY <1>3, <1>5, <2>4, <2>5, <2>6, <3>1
    <3>3. sent[i] = h
      BY <2>7
    <3>4. h.ago \in Int /\ h.ago = st.fill + 320 * (j - 1)
      <4>1. ~h.since
        BY <3>3
      <4> HIDE DEF j
      <4>2. QED
        BY <1>3, <3>2, <4>1, SMTT(30) DEF Entries
    <3>5. from = st.latent + skipped
      <4>1. start = st.latent
        BY <1>4
      <4> HIDE DEF start, from
      <4>2. QED
        BY <1>3, <1>5, <4>1 DEF skipped
    <3>6. h.ago = st.fill + 320 * (st.latent + skipped + 2 * i - 2)
      <4> DEFINE a == h.ago
      <4>1. a = st.fill + 320 * ((from + 2 * i - 1) - 1)
        BY <3>4
      <4> HIDE DEF from, a
      <4>2. a = st.fill + 320 * (st.latent + skipped + 2 * i - 2)
        BY <1>3, <1>6, <3>1, <3>5, <4>1
      <4>3. QED
        BY <4>2 DEF a
    <3>7. says \in Int
      <4>1. index * (p \div 40) \in Int
        <5>1. p \div 40 \in Int /\ index \in Int
          BY <1>2
        <5>2. QED
          BY <5>1
      <4>2. QED
        BY <1>3, <1>6, <2>8, <4>1
    <3> HIDE DEF h
    <3>8. (40 * says - 40 - 640 * (i - 1)) - ((1 + index) * p + delay - h.ago) \in -20 .. 20
      <4> DEFINE a == h.ago
                 l == st.latent
                 g == st.fill
                 o == st.offset
      <4>1. /\ delay \in {0, 64} /\ fill \in 0 .. 319 /\ p \in 40 .. 960 /\ p % 40 = 0
            /\ index \in 0 .. 5 /\ o \in Int /\ l \in Nat /\ g \in 0 .. 319
            /\ skipped \in Nat /\ i \in Nat
            /\ 40 * o + 320 * l + g = 40 * StartsAt(delay, fill) + fill + p
            /\ a \in Int /\ a = g + 320 * (l + skipped + 2 * i - 2)
            /\ says \in Int /\ says = o - 8 * skipped + index * (p \div 40)
        BY <1>2, <1>3, <1>6, <2>8, <3>1, <3>4, <3>6, <3>7
      <4> DEFINE q == p \div 40
                 z == index * q
                 b == StartsAt(delay, fill)
                 y == (1 + index) * p
      <4>2. q \in Nat /\ p = 40 * q
        OBVIOUS
      <4>3. b \in Int /\ 40 * b <= 60 + delay - fill /\ 60 + delay - fill < 40 * b + 40
        BY <4>1 DEF StartsAt
      <4>4. z \in Int /\ y = p + 40 * z
        <5> HIDE DEF q
        <5>1. index \in Int
          BY <4>1
        <5>2. QED
          BY <4>2, <5>1
      <4>5. /\ delay \in {0, 64} /\ fill \in 0 .. 319 /\ p \in Int
            /\ o \in Int /\ l \in Nat /\ g \in 0 .. 319
            /\ skipped \in Nat /\ i \in Nat
            /\ 40 * o + 320 * l + g = 40 * b + fill + p
            /\ a \in Int /\ a = g + 320 * (l + skipped + 2 * i - 2)
            /\ says \in Int /\ says = o - 8 * skipped + z
        BY <4>1
      <4> HIDE DEF a, l, g, o, q, z, b, y
      <4>6. (40 * says - 40 - 640 * (i - 1)) - (y + delay - a) \in -20 .. 20
        BY <4>3, <4>4, <4>5
      <4>7. QED
        BY <4>6 DEF a, y
    <3>9. Newest = 40 /\ 2 * DFrame = 640
      BY DEF Newest, DFrame
    <3>10. QED
      BY <3>3, <3>8, <3>9
  <2>11. Heard(st.fill, mem, k)
    <3> DEFINE of(e) == (40 * (e - 1) + 20 - st.fill) \div DFrame
    <3>1. ASSUME NEW e \in 1 .. Fewer(Memory, 8 * (from + 2 * tries)), mem[e],
                 of(e) \in start .. from + 2 * tries - 1
          PROVE  of(e) \in from .. from + 2 * kept - 1
      <4> DEFINE o == of(e)
      <4>1. /\ Memory \in Nat /\ e \in 1 .. Memory /\ e \in Nat
            /\ e <= 8 * (from + 2 * tries)
        <5> HIDE DEF from
        <5>1. Memory \in Nat
          BY DredAssumption
        <5>2. QED
          BY <1>5, <2>5, <5>1 DEF Fewer
      <4>2. o \in Int /\ 8 * o + 1 <= e /\ e <= 8 * o + 16
        BY <1>3, <4>1, OfLemma, ZenonT(60)
      <4>3. o \in start .. from + 2 * tries - 1
        BY <3>1
      <4> HIDE DEF o, from, start
      <4>4. o \in Nat /\ o >= start
        BY <1>4, <4>2, <4>3
      <4>5. o >= from
        <5>1. Voice(mem, o)
          BY <3>1, <4>1, <4>2, <4>4, VoiceLemma
        <5>2. ~(o \in start .. from - 1)
          BY <1>5, <5>1
        <5>3. QED
          BY <1>4, <1>5, <4>4, <5>2
      <4> DEFINE w == (o - from) \div 2
                 i == IF e <= 8 * (from + 2 * w) + 16 THEN w ELSE w + 1
                 l == from + 2 * i
      <4>6. w \in Nat /\ 2 * w <= o - from /\ o - from <= 2 * w + 1
        BY <1>5, <4>4, <4>5
      <4> HIDE DEF w
      <4>7. /\ i \in 0 .. tries - 1 /\ w <= i /\ i \in Nat
            /\ 8 * (from + 2 * i) + 1 <= e /\ e <= 8 * (from + 2 * i) + 16
        <5>1. CASE e <= 8 * (from + 2 * w) + 16
          <6>1. i = w
            BY <5>1
          <6> HIDE DEF i
          <6>2. QED
            BY <1>5, <2>5, <4>1, <4>2, <4>3, <4>6, <5>1, <6>1
        <5>2. CASE ~(e <= 8 * (from + 2 * w) + 16)
          <6>1. i = w + 1
            BY <5>2
          <6> HIDE DEF i
          <6>2. QED
            BY <1>5, <2>5, <4>1, <4>2, <4>3, <4>6, <5>2, <6>1
        <5>3. QED
          BY <5>1, <5>2
      <4> HIDE DEF i
      <4>8. Voice(mem, l)
        <5>1. l \in Nat /\ 8 * l + 1 <= e /\ e <= 8 * l + 16
          BY <1>5, <4>7
        <5> HIDE DEF l
        <5>2. QED
          BY <3>1, <4>1, <5>1, VoiceLemma
      <4>9. i < kept
        BY <2>6, <4>7, <4>8
      <4>10. kept \in Nat
        BY <2>5, <2>6
      <4>11. o \in from .. from + 2 * kept - 1
        BY <1>5, <4>4, <4>5, <4>6, <4>7, <4>9, <4>10
      <4>12. QED
        BY <4>11 DEF o
    <3>2. QED
      BY <2>2, <2>7, <3>1, Zenon DEF Heard
  <2>12. QED
    BY <1>2, <1>6, <2>1, <2>9, <2>10, <2>11
<1>9. QED
  BY <1>7, <1>8

(* The memory keeps its length.                                            *)
LEMMA RememberedLemma ==
  ASSUME NEW p \in Nat, NEW active \in BOOLEAN, Len(activity) = Memory
  PROVE  Len(Remembered(p, active)) = Memory
<1> DEFINE s == [i \in 1 .. p \div 40 |-> active] \o activity
<1>1. Memory \in Nat
  BY DredAssumption
<1>2. Remembered(p, active) = SubSeq(s, 1, Memory)
  BY DEF Remembered
<1> HIDE DEF s
<1>3. Len(SubSeq(s, 1, Memory)) = Memory
  BY <1>1
<1>4. QED
  BY <1>2, <1>3

(* Nothing is said of when a latent ended after input was missed.          *)
LEMMA BrokenLemma ==
  ASSUME NEW h \in Seq(Entries), Len(h) <= Latents, NEW f
  PROVE  Dated(Broken(h), f)
<1> DEFINE b == Broken(h)
           m == Len(h)
           broken == [ago |-> 0, since |-> TRUE]
<1>1. m \in Nat /\ DOMAIN h = 1 .. m
  OBVIOUS
<1>2. broken \in Entries /\ broken.since = TRUE
  BY DEF Entries
<1>3. b = [i \in 1 .. m |-> broken]
  BY <1>1, Zenon DEF Broken
<1> HIDE DEF b, m, broken
<1>4. b \in Seq(Entries) /\ Len(b) = m /\ \A i \in 1 .. m : b[i] = broken
  BY <1>1, <1>2, <1>3
<1>5. m <= Latents
  BY DEF m
<1>6. \A i \in 1 .. Len(b) : b[i].since = TRUE
  BY <1>2, <1>4
<1>7. Dated(b, f)
  BY <1>4, <1>5, <1>6 DEF Dated
<1>8. QED
  BY <1>7 DEF b

(* Nothing is kept.                                                        *)
LEMMA NoneDated == \A f : Dated(<<>>, f)
<1>1. Latents \in Nat
  BY DredAssumption
<1>2. <<>> \in Seq(Entries) /\ Len(<<>>) = 0 /\ 1 .. Len(<<>>) = {}
  OBVIOUS
<1>3. QED
  BY <1>1, <1>2 DEF Dated

(* What holds when there is nothing: a new encoder, and after a reset.     *)
LEMMA Forgotten ==
  ASSUME delay \in Delays, fill \in 0 .. DFrame - 1, latent \in Nat, extra \in 0 .. Latents,
         inside \in BOOLEAN, history = <<>>, activity = [i \in 1 .. Memory |-> FALSE],
         packet = NoPacket
  PROVE  DredInv
<1>1. Len(activity) = Memory
  <2>1. Memory \in Nat
    BY DredAssumption
  <2>2. QED
    BY <2>1
<1>2. Dated(history, fill)
  BY NoneDated
<1>3. SaysSo(packet) /\ OnTime(delay, packet) /\ Heard(fill, activity, packet)
  BY NothingSaid
<1>4. QED
  BY <1>1, <1>2, <1>3 DEF DredInv

(* The invariant holds at the start.                                       *)
LEMMA DredStarts == DredInit => DredInv
<1> SUFFICES ASSUME DredInit PROVE DredInv
  OBVIOUS
<1>1. fill \in 0 .. DFrame - 1 /\ latent \in Nat /\ extra \in 0 .. Latents
  BY DredAssumption DEF DredInit, SilkDelay, DFrame
<1>2. QED
  BY <1>1, Forgotten DEF DredInit

(* A frame that is fed and sent keeps it.                                  *)
LEMMA TakeHolds ==
  ASSUME DredInv, NEW p \in DredSizes, NEW active \in BOOLEAN, Take(p, active, history)
  PROVE  DredInv'
<1> DEFINE st == Fed(p, history)
           mem == Remembered(p, active)
           total == 40 * StartsAt(delay, fill) + fill + p
<1>1. p \in 40 .. 960 /\ p % 40 = 0
  BY DredAssumption
<1>2. /\ delay \in Delays /\ inside \in BOOLEAN /\ fill \in 0 .. DFrame - 1
      /\ extra \in 0 .. Latents /\ Dated(history, fill) /\ Len(activity) = Memory
  BY DEF DredInv
<1>3. Adds(st, total)
  BY <1>1, <1>2, FedLemma, ZenonT(60)
<1>4. Len(mem) = Memory
  <2>1. p \in Nat
    BY <1>1
  <2>2. QED
    BY <1>2, <2>1, RememberedLemma, Zenon
<1>5. /\ fill' = st.fill /\ latent' = st.latent /\ history' = st.history
      /\ activity' = mem /\ delay' = delay
      /\ \/ packet' = NoPacket /\ extra' = extra /\ inside' = inside
         \/ /\ extra' = IF Delayed(mem) THEN 0 ELSE Skipped(mem, st)
            /\ \E chunks \in Chunks, fits \in Fits, index \in Indexes :
                 packet' = Sent(mem, st, chunks, fits, index, p)
            /\ inside' = inside
         \/ inside' = FALSE /\ packet' = NoPacket /\ extra' = extra
  BY Zenon DEF Take
<1> HIDE DEF st, mem
<1>6. /\ delay' \in Delays /\ fill' \in 0 .. DFrame - 1 /\ latent' \in Nat
      /\ Dated(history', fill') /\ Len(activity') = Memory /\ inside' \in BOOLEAN
  BY <1>2, <1>3, <1>4, <1>5 DEF Adds
<1>7. /\ extra' \in 0 .. Latents
      /\ SaysSo(packet') /\ OnTime(delay', packet') /\ Heard(fill', activity', packet')
  <2>1. CASE packet' = NoPacket /\ extra' = extra
    BY <1>2, <2>1, NothingSaid
  <2>2. CASE /\ extra' = IF Delayed(mem) THEN 0 ELSE Skipped(mem, st)
             /\ \E chunks \in Chunks, fits \in Fits, index \in Indexes :
                  packet' = Sent(mem, st, chunks, fits, index, p)
    <3>1. PICK chunks \in Chunks, fits \in Fits, index \in Indexes :
                 packet' = Sent(mem, st, chunks, fits, index, p)
      BY <2>2
    <3>2. /\ Skipped(mem, st) \in 0 .. Latents
          /\ SaysSo(Sent(mem, st, chunks, fits, index, p))
          /\ OnTime(delay, Sent(mem, st, chunks, fits, index, p))
          /\ Heard(st.fill, mem, Sent(mem, st, chunks, fits, index, p))
      BY <1>1, <1>2, <1>3, SentLemma, ZenonT(60)
    <3>3. SaysSo(packet') /\ OnTime(delay', packet') /\ Heard(fill', activity', packet')
      BY <1>5, <3>1, <3>2
    <3>4. extra' \in 0 .. Latents
      BY <2>2, <3>2, DredAssumption
    <3>5. QED
      BY <3>3, <3>4
  <2>3. QED
    BY <1>5, <2>1, <2>2
<1>8. QED
  BY <1>6, <1>7 DEF DredInv, Dated, SaysSo, OnTime, Heard

(* The invariant is kept by every step.                                    *)
LEMMA DredSteps == DredInv /\ [DredNext]_dredVars => DredInv'
<1> SUFFICES ASSUME DredInv, [DredNext]_dredVars PROVE DredInv'
  OBVIOUS
<1>1. /\ delay \in Delays /\ inside \in BOOLEAN /\ fill \in 0 .. DFrame - 1 /\ latent \in Nat
      /\ extra \in 0 .. Latents /\ Dated(history, fill) /\ Len(activity) = Memory
  BY DEF DredInv
<1>2. history \in Seq(Entries) /\ Len(history) <= Latents
  BY <1>1 DEF Dated
<1>3. CASE Encode
  <2>1. PICK p \in DredSizes, active \in BOOLEAN : Take(p, active, history)
    BY <1>3 DEF Encode
  <2>2. QED
    BY <2>1, TakeHolds
<1>4. CASE EncodeAgain
  <2>1. PICK p \in DredSizes, active \in BOOLEAN :
          /\ fill' = Fed(p, history).fill /\ history' = Broken(Fed(p, history).history)
          /\ activity' = Remembered(p, active)
          /\ latent' = Fed(p, history).latent /\ packet' = NoPacket
          /\ delay' = delay /\ extra' = extra /\ inside' = inside
    BY <1>4, Zenon DEF EncodeAgain
  <2> DEFINE st == Fed(p, history)
             total == 40 * StartsAt(delay, fill) + fill + p
  <2>2. p \in 40 .. 960
    BY DredAssumption
  <2>3. Adds(st, total)
    BY <1>1, <2>2, FedLemma, ZenonT(60)
  <2>4. Len(activity') = Memory
    <3>1. p \in Nat
      BY <2>2
    <3>2. QED
      BY <1>1, <2>1, <3>1, RememberedLemma, Zenon
  <2>5. fill' = st.fill /\ latent' = st.latent /\ history' = Broken(st.history)
    BY <2>1
  <2> HIDE DEF st
  <2>6. st.history \in Seq(Entries) /\ Len(st.history) <= Latents
    BY <2>3 DEF Adds, Dated
  <2>7. Dated(history', fill')
    BY <2>5, <2>6, BrokenLemma
  <2>8. fill' \in 0 .. DFrame - 1 /\ latent' \in Nat
    BY <2>3, <2>5 DEF Adds
  <2>9. SaysSo(packet') /\ OnTime(delay', packet') /\ Heard(fill', activity', packet')
    BY <2>1, NothingSaid
  <2>10. delay' \in Delays /\ inside' \in BOOLEAN /\ extra' \in 0 .. Latents
    BY <1>1, <2>1
  <2>11. QED
    BY <2>4, <2>7, <2>8, <2>9, <2>10 DEF DredInv, Dated, SaysSo, OnTime, Heard
<1>5. CASE PassOver
  <2>1. /\ packet' = NoPacket /\ history' = Broken(history) /\ delay' = delay /\ fill' = fill
        /\ latent' = latent /\ extra' = extra /\ activity' = activity /\ inside' = inside
    BY <1>5 DEF PassOver
  <2>2. Dated(history', fill')
    BY <1>2, <2>1, BrokenLemma
  <2>3. SaysSo(packet') /\ OnTime(delay', packet') /\ Heard(fill', activity', packet')
    BY <2>1, NothingSaid
  <2>4. /\ delay' \in Delays /\ inside' \in BOOLEAN /\ fill' \in 0 .. DFrame - 1
        /\ latent' \in Nat /\ extra' \in 0 .. Latents /\ Len(activity') = Memory
    BY <1>1, <2>1
  <2>5. QED
    BY <2>2, <2>3, <2>4 DEF DredInv, Dated, SaysSo, OnTime, Heard
<1>6. CASE EncodeWithout \/ ResetDred
  <2>1. /\ history' = <<>> /\ activity' = [i \in 1 .. Memory |-> FALSE] /\ packet' = NoPacket
        /\ delay' = delay
    BY <1>6 DEF EncodeWithout, ResetDred
  <2>2. /\ fill' \in 0 .. DFrame - 1 /\ latent' \in Nat /\ extra' \in 0 .. Latents
        /\ inside' \in BOOLEAN
    <3>1. SilkDelay \in 0 .. DFrame - 1 /\ 0 \in 0 .. Latents
      BY DredAssumption DEF SilkDelay, DFrame
    <3>2. CASE EncodeWithout
      BY <1>1, <3>2 DEF EncodeWithout
    <3>3. CASE ResetDred
      <4>1. /\ fill' = SilkDelay /\ latent' = 0 /\ extra' = 0 /\ inside' = TRUE
        BY <3>3 DEF ResetDred
      <4>2. QED
        BY <3>1, <4>1
    <3>4. QED
      BY <1>6, <3>2, <3>3
  <2>3. delay' \in Delays
    BY <1>1, <2>1
  <2>4. Len(activity') = Memory
    <3>1. Memory \in Nat
      BY DredAssumption
    <3>2. QED
      BY <2>1, <3>1
  <2>5. Dated(history', fill')
    BY <2>1, NoneDated
  <2>6. SaysSo(packet') /\ OnTime(delay', packet') /\ Heard(fill', activity', packet')
    BY <2>1, NothingSaid
  <2>7. QED
    BY <2>2, <2>3, <2>4, <2>5, <2>6 DEF DredInv, Dated, SaysSo, OnTime, Heard
<1>7. CASE UNCHANGED dredVars
  BY <1>7 DEF dredVars, DredInv, Dated, SaysSo, OnTime, Heard
<1>8. QED
  BY <1>3, <1>4, <1>5, <1>6, <1>7 DEF DredNext

(* The invariant says what is to be shown.                                 *)
LEMMA DredHolds == DredInv => RedundancyIsTrue
<1> SUFFICES ASSUME DredInv PROVE RedundancyIsTrue
  OBVIOUS
<1>1. DredTypeOK
  BY DEF DredInv, Dated, SaysSo, DredTypeOK
<1>2. TimesAreTrue
  BY Zenon DEF DredInv, OnTime, TimesAreTrue
<1>3. ActivityIsSent
  BY Zenon DEF DredInv, Heard, ActivityIsSent
<1>4. QED
  BY <1>1, <1>2, <1>3 DEF RedundancyIsTrue

(* The redundancy is true whatever sizes frames have, however much is kept *)
(* and remembered, and whichever frame carries it.                         *)
THEOREM RedundancyIsAlwaysTrue == DredSpec => []RedundancyIsTrue
<1>1. DredSpec => []DredInv
  BY DredStarts, DredSteps, PTL DEF DredSpec
<1>2. QED
  BY <1>1, DredHolds, PTL
=============================================================================
