---------------------------- MODULE LossyChannel ----------------------------
(***************************************************************************)
(* What the downlink data path of a UE promises (NrDataPlane implements    *)
(* it): packets are accepted one after the other and numbered; each is     *)
(* handed to the upper layers at most once, in the order of acceptance and *)
(* as it was accepted, or is given up, and that is final.                  *)
(***************************************************************************)
EXTENDS Integers, Sequences

CONSTANTS
    First,      \* number of the first packet
    Sizes       \* sizes a packet may have

VARIABLES
    accepted,   \* the packets accepted: their sizes, in order
    handed,     \* the packets handed up: [id, len], in order
    givenUp     \* the packets that will not be handed up

Ids == First .. First + Len(accepted) - 1
Size(c) == accepted[c - First + 1]
Handed(s) == {s[i].id : i \in DOMAIN s}

Init == accepted = << >> /\ handed = << >> /\ givenUp = {}

Accept ==
    /\ \E n \in Sizes : accepted' = Append(accepted, n)
    /\ UNCHANGED <<handed, givenUp>>

\* Packets are handed up in order, at most once, whole and unless given up.
Legal(s, gone) ==
    /\ \A i \in DOMAIN s : s[i].id \in Ids \ gone /\ s[i].len = Size(s[i].id)
    /\ \A i \in DOMAIN s : i > 1 => s[i - 1].id < s[i].id

\* One step may hand up, or give up, several packets.
Progress ==
    /\ SubSeq(handed', 1, Len(handed)) = handed
    /\ givenUp \subseteq givenUp' /\ givenUp' \subseteq Ids
    /\ Legal(handed', givenUp')
    /\ UNCHANGED accepted

Next == Accept \/ Progress
Spec == Init /\ [][Next]_<<accepted, handed, givenUp>>
=============================================================================
