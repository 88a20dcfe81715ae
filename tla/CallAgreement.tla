--------------------------- MODULE CallAgreement ----------------------------
(***************************************************************************)
(* What setting up a call promises, whatever the transport: the callee     *)
(* decides the outcome once, the caller learns the outcome that was        *)
(* decided, and the callee takes a call for established only after the     *)
(* caller learned that it was accepted (the three-way handshake of         *)
(* INVITE, final response and ACK).                                        *)
(***************************************************************************)
CONSTANTS
    Outcomes,   \* what a call can come to
    Accepting   \* the outcomes that establish it

VARIABLES
    decided,    \* the outcome given by the callee, as a set of at most one
    learned,    \* the outcome told to the caller, the same way
    confirmed   \* the callee knows that the caller learned of the acceptance

agreementVars == <<decided, learned, confirmed>>

Init ==
    /\ decided = {}
    /\ learned = {}
    /\ confirmed = FALSE

Decide ==
    /\ decided = {}
    /\ \E outcome \in Outcomes : decided' = {outcome}
    /\ UNCHANGED <<learned, confirmed>>

Learn ==
    /\ learned = {}
    /\ decided # {}
    /\ learned' = decided
    /\ UNCHANGED <<decided, confirmed>>

Confirm ==
    /\ learned \cap Accepting # {}
    /\ confirmed' = TRUE
    /\ UNCHANGED <<decided, learned>>

Next == Decide \/ Learn \/ Confirm

Spec == Init /\ [][Next]_agreementVars
=============================================================================
