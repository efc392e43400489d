---------------------------- MODULE DtapService ----------------------------
(***************************************************************************)
(* What the BSC promises the MSC for the messages it is given for an MS:   *)
(* each one is held until its end is decided, and its end is decided once; *)
(* only a message that was refused because nothing can be sent to the BTS  *)
(* may be answered once more.                                              *)
(***************************************************************************)
EXTENDS Naturals, Sequences

CONSTANTS
    Msgs,      \* the messages
    Outcomes   \* how a message may end

VARIABLES
    hand,   \* the messages the BSC holds
    told,   \* per message: the ends decided for it, <<>> while there is none
    unsent  \* the messages that were refused because nothing can be sent to the BTS

Init == hand = {} /\ told = [m \in Msgs |-> <<>>] /\ unsent = {}

\* a message that the BSC has not seen comes in
Taken(m) == m \notin hand /\ told[m] = <<>> /\ m \in hand' /\ told'[m] = <<>>

\* the end of a message, held or just handed over, is decided
Ended(m) == told[m] = <<>> /\ m \notin hand' /\ Len(told'[m]) = 1 /\ told'[m][1] \in Outcomes

\* a message that was refused is answered once more
Again(m) ==
    /\ m \in unsent /\ m \notin hand /\ m \notin hand'
    /\ Len(told[m]) = 1 /\ Len(told'[m]) = 2 /\ told'[m][1] = told[m][1] /\ told'[m][2] \in Outcomes

Kept(m) == (m \in hand' <=> m \in hand) /\ told'[m] = told[m]

Next ==
    /\ unsent \subseteq unsent'
    /\ \A m \in unsent' : m \in unsent \/ Ended(m)
    /\ \A m \in Msgs : Kept(m) \/ Taken(m) \/ Ended(m) \/ Again(m)

Spec == Init /\ [][Next]_<<hand, told, unsent>>

=============================================================================
