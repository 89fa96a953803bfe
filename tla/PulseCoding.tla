------------------------------ MODULE PulseCoding ------------------------------
(***************************************************************************)
(* A band's shape is sent as the number of a vector of n integers whose    *)
(* magnitudes add up to k pulses.  The encoder numbers vectors with one    *)
(* row of U(n, k) at a time (icwrs); the decoder goes the other way with   *)
(* the same rows (cwrsi) or, where it can, with a table of U (cwrsi_pvq).  *)
(* decode_pulses tries the table and then the rows, and reads the number   *)
(* from the packet for each of them: once it has begun with the table it   *)
(* must find all of it there.                                              *)
(***************************************************************************)
EXTENDS Integers, Sequences, SequencesExt

CONSTANTS
  Dims, Pulses,               \* vectors that are numbered here
  BandDims, BandPulses        \* all that a band may have

PulseAssumption ==
  /\ \A n \in Dims \cup BandDims : n \in Nat /\ n >= 2
  /\ \A k \in Pulses \cup BandPulses : k \in Nat /\ k > 0

VARIABLES
  n, k,                       \* what the vector may be
  index                       \* its number

vars == <<n, k, index>>

Least(a, b) == IF a < b THEN a ELSE b
Most(a, b) == IF a < b THEN b ELSE a
Abs(v) == IF v < 0 THEN -v ELSE v

-----------------------------------------------------------------------------
(* Rows.  Element i + 1 of a row is U(n, i).                               *)
Unext(row, u0) ==
  LET out[i \in 1 .. Len(row)] == IF i = 1 THEN u0 ELSE row[i] + row[i - 1] + out[i - 1]
  IN [i \in 1 .. Len(row) |-> out[i]]

Uprev(row, u0) ==
  LET out[i \in 1 .. Len(row)] == IF i = 1 THEN u0 ELSE row[i] - row[i - 1] - out[i - 1]
  IN [i \in 1 .. Len(row) |-> out[i]]

SecondRow(len) == [i \in 1 .. len |-> IF i = 1 THEN 0 ELSE 2 * (i - 1) - 1]

(* ncwrs_urow leaves U(m, 0) alone.                                        *)
NcwrsUrow(m, p) ==
  FoldLeft(LAMBDA row, i : <<0>> \o Unext(Tail(row), 1), SecondRow(p + 2), [i \in 1 .. m - 2 |-> i])

Total(row, p) == row[p + 1] + row[p + 2]

-----------------------------------------------------------------------------
(* icwrs: from the last element to the first.                              *)

Counted(st, v) ==
  LET p == st.pulses + Abs(v)
  IN [st EXCEPT !.pulses = p,
                !.index = @ + st.row[st.pulses + 1] + (IF v < 0 THEN st.row[p + 2] ELSE 0)]

Icwrs(y, p) ==
  LET m == Len(y)
      last == [row |-> SecondRow(p + 2), pulses |-> Abs(y[m]), index |-> IF y[m] < 0 THEN 1 ELSE 0]
      first == Counted(last, y[m - 1])
      all == FoldLeft(LAMBDA st, i : Counted([st EXCEPT !.row = Unext(@, 0)], y[m - 1 - i]),
                      first, [i \in 1 .. m - 2 |-> i])
  IN [index |-> all.index, total |-> Total(all.row, all.pulses)]

(* cwrsi: from the first to the last.                                      *)
Taken(st, p) == CHOOSE j \in 0 .. p : st.row[j + 1] <= st.index
                                     /\ \A i \in j + 1 .. p : st.row[i + 1] > st.index

Read(st) ==
  LET sign == st.index >= st.row[st.pulses + 2]
      rest == IF sign THEN [st EXCEPT !.index = @ - st.row[st.pulses + 2]] ELSE st
      left == Taken(rest, st.pulses)
      size == st.pulses - left
  IN [row |-> Uprev(SubSeq(st.row, 1, left + 2), 0), pulses |-> left,
      index |-> rest.index - st.row[left + 1],
      y |-> Append(st.y, IF sign THEN -size ELSE size)]

Cwrsi(m, p, i) ==
  FoldLeft(LAMBDA st, j : Read(st),
           [row |-> NcwrsUrow(m, p), pulses |-> p, index |-> i, y |-> <<>>],
           [j \in 1 .. m |-> j]).y

-----------------------------------------------------------------------------
(* CELT_PVQ_U_DATA: of U(m, p), which is U(p, m), the columns of a row     *)
(* that have room in 32 bits, from the diagonal on.                        *)

RowLength(r) == <<209, 208, 207, 206, 205, 204, 104, 54, 33, 21, 15, 10, 7, 4, 1>>[r + 1]

(* pvq_u finds it.                                                         *)
InTable(m, p) ==
  /\ Least(m, p) <= 14
  /\ Most(m, p) <= Least(m, p) + RowLength(Least(m, p)) - 1

HasTotal(m, p) == InTable(m, p) /\ InTable(m, p + 1)

U[m \in 0 .. 20, p \in 0 .. 20] ==
  IF m = 0 \/ p = 0 THEN IF m = p THEN 1 ELSE 0
  ELSE U[m - 1, p] + U[m, p - 1] + U[m - 1, p - 1]

\* Mutant: where it does not reach the number.
FoundBelow(m, p, i) ==
  LET from == IF p >= m /\ U[m, m] > i THEN m - 1 ELSE p
  IN CHOOSE j \in 0 .. from : (j = 0 \/ U[m, j] < i) /\ \A h \in j + 1 .. from : U[m, h] >= i

(* Where the search for an element ends: at the largest j for which U(m, j) *)
(* does not exceed the number.  It begins on the diagonal, not at p, when   *)
(* that lies above the number.                                              *)
Found(m, p, i) ==
  LET from == IF p >= m /\ U[m, m] > i THEN m - 1 ELSE p
  IN CHOOSE j \in 0 .. from : U[m, j] <= i /\ \A h \in j + 1 .. from : U[m, h] > i

TableRead(st) ==
  LET m == st.left
      p == st.pulses
      sign == st.index >= U[m, p + 1]
      i == IF sign THEN st.index - U[m, p + 1] ELSE st.index
      left == Found(m, p, i)
      size == p - left
  IN [left |-> m - 1, pulses |-> left, index |-> i - U[m, left],
      y |-> Append(st.y, IF sign THEN -size ELSE size)]

(* The last two without the table.                                         *)
TableEnd(st) ==
  LET sign == st.index >= 2 * st.pulses + 1
      i == IF sign THEN st.index - (2 * st.pulses + 1) ELSE st.index
      left == (i + 1) \div 2
      size == st.pulses - left
      last == IF left = 0 \/ i = 2 * left - 1 THEN left ELSE -left
  IN st.y \o <<IF sign THEN -size ELSE size, last>>

CwrsiPvq(m, p, i) ==
  TableEnd(FoldLeft(LAMBDA st, j : TableRead(st),
                    [left |-> m, pulses |-> p, index |-> i, y |-> <<>>],
                    [j \in 1 .. m - 2 |-> j]))

(* What it may ask the table for while m elements are left.                *)
Asks(m, p) ==
  IF p >= m THEN {<<m, p + 1>>, <<m, m>>} \cup ({m} \X (m .. p)) \cup ((0 .. m - 1) \X {m})
  ELSE (0 .. p + 1) \X {m}

-----------------------------------------------------------------------------
Vectors(m, p) ==
  {y \in [1 .. m -> -p .. p] : FoldLeft(LAMBDA s, i : s + Abs(y[i]), 0, [i \in 1 .. m |-> i]) = p}

Init == n \in Dims /\ k \in Pulses /\ index = 0

(* One number after the other.                                             *)
Count ==
  /\ index + 1 < Total(NcwrsUrow(n, k), k)
  /\ index' = index + 1
  /\ UNCHANGED <<n, k>>

Spec == Init /\ [][Count]_vars

TableInit ==
  /\ n \in BandDims /\ k \in BandPulses /\ HasTotal(n, k)
  /\ index = 0

(* An element is read, and has some of the pulses.                         *)
Descend ==
  /\ n > 2
  /\ n' = n - 1 /\ k' \in 0 .. k
  /\ UNCHANGED index

TableSpec == TableInit /\ [][Descend]_vars

-----------------------------------------------------------------------------
(* The two ways to read a number agree, and the encoder gives the vector   *)
(* that number, out of as many.                                            *)
RoundTrip ==
  LET y == CwrsiPvq(n, k, index)
  IN /\ Cwrsi(n, k, index) = y
     /\ Icwrs(y, k) = [index |-> index, total |-> Total(NcwrsUrow(n, k), k)]

(* Every vector of k pulses has a number.                                  *)
EveryVector ==
  index = 0 =>
    \A y \in Vectors(n, k) :
      LET code == Icwrs(y, k)
      IN code.index \in 0 .. code.total - 1 /\ Cwrsi(n, k, code.index) = y

(* A vector that the decoder begins to read with the table is in it to the *)
(* end: else the number would be read from the packet a second time, and   *)
(* all that follows misread.                                               *)
StaysInTable == n > 2 => \A q \in Asks(n, k) : InTable(q[1], q[2])
=============================================================================
