---------------------------- MODULE DecodeContract ----------------------------
(***************************************************************************)
(* What a caller of the decoder is promised, with nothing said of modes,   *)
(* frames, concealment or redundancy: a call for `want' units of audio     *)
(* either delivers exactly that many and reports them as the duration of   *)
(* the last packet, or fails and leaves that duration as it found it.      *)
(* One unit is 2.5 ms.                                                     *)
(***************************************************************************)
EXTENDS Naturals

VARIABLES
    want,      \* units the call in progress promised, 0 between two calls
    got,       \* units delivered by the call in progress or the last one
    answer,    \* how the last call ended; "none" while there is none to tell of
    duration   \* what OPUS_GET_LAST_PACKET_DURATION answers between two calls

contractVars == <<want, got, answer, duration>>

ContractInit ==
    /\ want = 0
    /\ got = 0
    /\ answer = "none"
    /\ duration = 0

Begin ==
    /\ want = 0
    /\ want' \in Nat \ {0}
    /\ got' = 0
    /\ answer' = "none"
    /\ UNCHANGED duration

Deliver ==
    /\ got < want
    /\ got' \in (got + 1)..want
    /\ UNCHANGED <<want, answer, duration>>

\* The last delivery and the return of the call are one step.
Succeed ==
    /\ want # 0
    /\ want' = 0
    /\ got' = want
    /\ answer' = "ok"
    /\ duration' = want

Fail ==
    /\ want # 0
    /\ want' = 0
    /\ answer' = "error"
    /\ UNCHANGED <<got, duration>>

\* OPUS_RESET_STATE between two calls.
Forget ==
    /\ want = 0
    /\ answer' = "none"
    /\ duration' = 0
    /\ UNCHANGED <<want, got>>

ContractNext == Begin \/ Deliver \/ Succeed \/ Fail \/ Forget

Contract ==
    /\ ContractInit
    /\ [][ContractNext]_contractVars
    /\ WF_contractVars(Deliver \/ Succeed \/ Fail)
===============================================================================
