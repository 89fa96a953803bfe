----------------------------- MODULE MCExtensions -----------------------------
(***************************************************************************)
(* Instances of ExtensionIterator: every list of up to three extensions of *)
(* four kinds in up to three frames; every padding of up to four bytes.   *)
(* With LongId = 5 and MaxId = 6, identifiers 3 and 4 are short and 5 and  *)
(* 6 long; with Lace = 2 a payload of three bytes needs two length bytes.  *)
(***************************************************************************)
EXTENDS ExtensionIterator

CONSTANTS MaxFrames, MaxExtensions, MaxBytes

Kinds == {[id |-> 3, size |-> 0], [id |-> 3, size |-> 1],
          [id |-> 5, size |-> 0], [id |-> 5, size |-> 3]}

\* The payload tells the extensions of a list apart.
Extension(kind, frame, i) ==
    [id |-> kind.id, frame |-> frame, data |-> [n \in 1..kind.size |-> i]]

Lists(n, frames) ==
    {[i \in 1..n |-> Extension(list[i][1], list[i][2], i)] :
        list \in [1..n -> Kinds \X (0..(frames - 1))]}

MCWritten ==
    UNION {{[exts |-> list, frames |-> frames, fill |-> fill] :
              list \in UNION {Lists(n, frames) : n \in 0..MaxExtensions},
              fill \in 0..1} :
             frames \in 1..MaxFrames}

\* Padding, separators, repeats, and extensions with either flag.
Alphabet == {0, 2, 3, 4, 5, 6, 7, 10, 11}

MCRaw ==
    {[data |-> data, frames |-> frames] :
        data \in UNION {[1..n -> Alphabet] : n \in 0..MaxBytes},
        frames \in 1..MaxFrames}


===============================================================================
