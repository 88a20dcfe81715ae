-------------------------- MODULE NonInviteClient --------------------------
(***************************************************************************)
(* The non-INVITE client transactions of one owner (nict.c over            *)
(* transaction.c) and the channel they share (channel.c, provider.c).      *)
(*                                                                         *)
(* A handler runs to its end inside one turn of the main loop and calls    *)
(* its listener in the middle.  The pieces of a handler are therefore      *)
(* operators from a world to a world: w.transactions and w.channel are     *)
(* what the variables hold once the piece has run.                         *)
(*                                                                         *)
(* Timer E repeats the request over UDP and changes no state of ours: an   *)
(* answer may come at any time once the request was sent.                  *)
(***************************************************************************)
EXTENDS Naturals

CONSTANTS
    MaxRequests,   \* bound: transactions created one after the other
    Alternates     \* addresses of the server beside the first one

ASSUME NonInviteAssumption ==
    /\ MaxRequests \in Nat \ {0}
    /\ Alternates \in Nat

VARIABLES
    transactions,   \* the transactions by the order of their creation
    channel         \* the channel the provider finds for their next hop

-----------------------------------------------------------------------------
\* The one beyond MaxRequests is never kept: it keeps the operators total.
Ids == 1..MaxRequests + 1

TransactionStates ==
    {"NULL", "INIT", "TRYING", "PROCEEDING", "COMPLETED", "TERMINATED"}

\* linked says that base.channel is set; its state is that of the channel,
\* which the provider finds for every transaction until its error is notified.
Transaction == [state : TransactionStates, timers : SUBSET {"F", "K"},
                linked : BOOLEAN, timedOut : BOOLEAN, expires : {0, 1}]

Unused == [state |-> "NULL", timers |-> {}, linked |-> FALSE,
           timedOut |-> FALSE, expires |-> 0]

\* "connecting" stands for every state before READY but RETRY; "error" is
\* ERROR before the main loop tells the listeners.
ChannelStates == {"none", "connecting", "ready", "retry", "error"}
Channel       == [state : ChannelStates, left : 0..Alternates]

Transient(state) == state \in {"INIT", "TRYING", "PROCEEDING"}

-----------------------------------------------------------------------------
\* Mutant: timer F is not started.
NictSendUntimed(transaction) == [transaction EXCEPT !.state = "TRYING"]

\* nict_send_request
NictSend(transaction) ==
    [transaction EXCEPT !.state = "TRYING", !.timers = @ \cup {"F"}]

\* belle_sip_transaction_terminate, up to the listener.
Ended(w, t) ==
    [w EXCEPT !.transactions[t].state = "TERMINATED",
              !.transactions[t].timers = {}]

\* belle_sip_provider_get_channel finds the channel, or makes one if the
\* transport has a listening point.
HasChannel(w, reachable) == w.channel.state # "none" \/ reachable

\* belle_sip_client_transaction_send_request_to of a transaction in INIT: it
\* waits for its channel or goes out at once; without any it is terminated.
SendRequest(w, t, reachable) ==
    IF ~HasChannel(w, reachable) THEN Ended(w, t)
    ELSE [w EXCEPT
        !.transactions[t] =
            LET linked == [@ EXCEPT !.linked = TRUE]
            IN  IF w.channel.state = "ready" THEN NictSend(linked) ELSE linked,
        !.channel =
            IF @.state = "none" THEN [state |-> "connecting", left |-> Alternates]
            ELSE @]

\* Mutant: the next address is taken without asking whether there is one.
ChannelErrorUnbounded(c, soft) ==
    IF c.state # "ready" \/ soft
    THEN [state |-> "retry", left |-> c.left - 1]
    ELSE [c EXCEPT !.state = "error"]

\* belle_sip_channel_handle_error: another address when the channel was not
\* ready or reported a server error, else the error is notified later.
ChannelError(c, soft) ==
    IF (c.state # "ready" \/ soft) /\ c.left > 0
    THEN [state |-> "retry", left |-> c.left - 1]
    ELSE [c EXCEPT !.state = "error"]

\* belle_sip_transaction_notify_timeout of a REGISTER: a ready channel that
\* received nothing for a minute is reported dead, any other is left alone.
ReportDeadChannel(w, t, quiet) ==
    IF w.channel.state = "ready" /\ quiet
    THEN [w EXCEPT !.channel = ChannelError(@, FALSE),
                   !.transactions[t].timedOut = TRUE]
    ELSE w

\* on_channel_state_changed, READY
SentWhenReady(trans) ==
    [t \in Ids |-> IF trans[t].linked /\ trans[t].state = "INIT"
                   THEN NictSend(trans[t]) ELSE trans[t]]

\* on_channel_state_changed, ERROR, of the transactions of another owner or of
\* none: no listener cares.
EndedByError(trans, except) ==
    [t \in Ids |-> IF trans[t].linked /\ t # except
                   THEN [trans[t] EXCEPT !.state = "TERMINATED",
                                         !.timers = {}, !.linked = FALSE]
                   ELSE trans[t]]
=============================================================================
