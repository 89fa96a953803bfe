------------------------------ MODULE MCRepacking ------------------------------
(***************************************************************************)
(* An instance of Repacking.  With MaxByte = 7 a size of 4 or more takes   *)
(* two bytes and a padding of 7 or more two length bytes.  Frames of 40 ms *)
(* (TOC 16: three in a packet) and 60 ms (TOC 24: two); identifiers 3 and  *)
(* 4 short, 5 and 6 long.  The received packets are written by hand, in    *)
(* forms the repacketizer itself would not choose.                         *)
(***************************************************************************)
EXTENDS Repacking

\* Frames of one packet: data, extensions as <<id, data>> of each.
Frames(toc, data, exts, sound) ==
    [n \in DOMAIN data |->
       [data |-> data[n], config |-> toc \div 4, at |-> n, sound |-> sound,
        exts |-> [i \in DOMAIN exts[n] |->
                    [id |-> exts[n][i][1], frame |-> n - 1, data |-> exts[n][i][2]]]]]

Plain(toc, data) == Frames(toc, data, [n \in DOMAIN data |-> <<>>], TRUE)

MCReceived == {
    \* one frame, whose size takes two bytes if it is written, and padding of zeros
    [bytes |-> <<19, 65, 2, 25, 25, 25, 25, 0, 0>>,
     frames |-> Plain(16, <<<<25, 25, 25, 25>>>>)],
    \* two frames, both with extension 3 and the second with a long one
    [bytes |-> <<19, 66, 5, 26, 27, 7, 31, 4, 32, 10>>,
     frames |-> Frames(16, <<<<26>>, <<27>>>>,
                       <<<<<<3, <<31>>>>>>, <<<<3, <<32>>>>, <<5, <<>>>>>>>>, TRUE)],
    \* the same frame with padding that is malformed after its first extension
    [bytes |-> <<19, 65, 2, 25, 25, 25, 25, 6, 2>>,
     frames |-> Frames(16, <<<<25, 25, 25, 25>>>>, <<<<<<3, <<>>>>>>>>, FALSE)],
    \* another configuration, a size of two bytes, and an empty frame
    [bytes |-> <<26, 4, 0, 24, 24, 24, 24>>,
     frames |-> Plain(24, <<<<24, 24, 24, 24>>, <<>>>>)],
    \* three frames, as many as there may be
    [bytes |-> <<19, 3, 29, 30, 31>>, frames |-> Plain(16, <<<<29>>, <<30>>, <<31>>>>)],
    \* no packet: two frames of equal size in three bytes
    [bytes |-> <<17, 1, 1, 1>>, frames |-> <<>>]}

MCAdded == {<<[id |-> 5, frame |-> 0, data |-> <<33, 33>>]>>}

MCLengths(n) == {n - 1, 8, Room}
===============================================================================
