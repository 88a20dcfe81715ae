---------------------------- MODULE SipTransport ----------------------------
(***************************************************************************)
(* The two links between the user agents of a call, as belle-sip's         *)
(* transactions see them: what belle_sip_channel_queue_message accepted    *)
(* and the peer has not processed yet.                                     *)
(*                                                                         *)
(* Over a reliable transport (TCP, TLS) a link is a sequence: messages     *)
(* arrive once and in order, until the connection breaks.  Over UDP it is  *)
(* a set: a datagram may be lost, overtaken or delivered again.            *)
(* belle_sip_channel_is_reliable is what the transactions consult.         *)
(*                                                                         *)
(* The peers talk directly: a proxy adds only more of the same losses,     *)
(* duplicates and delays.                                                  *)
(***************************************************************************)
EXTENDS Naturals, Sequences

CONSTANTS
    Reliable,     \* belle_sip_channel_is_reliable of the channels of the call
    MaxInFlight   \* bound: no retransmission is sent over a connection that
                  \* already carries this many messages

ASSUME TransportAssumption ==
    /\ Reliable \in BOOLEAN
    /\ MaxInFlight \in Nat

VARIABLES
    toServer,   \* in flight from the caller's agent to the callee's
    toClient    \* in flight from the callee's agent to the caller's

links == <<toServer, toClient>>

-----------------------------------------------------------------------------
(***************************************************************************)
(* Messages.  A response is named by its status code; codes of one class   *)
(* that no handler tells apart are represented by one of them.             *)
(***************************************************************************)
Provisional == {"100", "180"}
Success     == {"200"}
Failure     == {"486", "487", "503"}
Final       == Success \cup Failure
Codes       == Provisional \cup Final

\* "ACK" is the transaction's own ACK of a failure (ict.c make_ack);
\* "ACK2xx" is the dialog's ACK of a 2xx, a transaction of its own.
Requests == {"INVITE", "ACK", "ACK2xx", "CANCEL", "BYE"}

ToServerMsg == Requests

\* "CancelAnswer" is any final response to the CANCEL, all the others belong
\* to the INVITE.
ToClientMsg == Codes \cup {"BYE", "CancelAnswer"}

-----------------------------------------------------------------------------
EmptyLink == IF Reliable THEN << >> ELSE {}

LinkOf(Msg) == IF Reliable THEN Seq(Msg) ELSE SUBSET Msg

Put(link, m) == IF Reliable THEN Append(link, m) ELSE link \cup {m}

\* A message handed to a channel that is in error stays in its queue and is
\* released with it; every other channel transmits it.
Send(channel, link, m) == IF channel = "error" THEN link ELSE Put(link, m)

Contents(link) == IF Reliable THEN {link[i] : i \in 1..Len(link)} ELSE link

\* The messages the peer may read next.
Arriving(link, m) == IF Reliable THEN link # << >> /\ Head(link) = m
                                 ELSE m \in link

\* What is left once m was read: over UDP the network may still hold a copy.
After(link, m) == IF Reliable THEN {Tail(link)} ELSE {link, link \ {m}}

\* A reliable link has room for a retransmission; a set absorbs it.
Room == Reliable => Len(toServer) + Len(toClient) < MaxInFlight

\* What is left once the network dropped m, or the connection broke.
Dropped(link, m) == link \ {m}
Broken(link)     == IF Reliable THEN {link, << >>} ELSE {link}
=============================================================================
