---------------------------- MODULE InviteClient ----------------------------
(***************************************************************************)
(* The calling side of one INVITE: the INVITE client transaction of        *)
(* belle-sip (ict.c over transaction.c), the dialog it creates (dialog.c,  *)
(* as UAC) and the call operation of linphone that owns both (SalCallOp in *)
(* call-op.cpp), driven by the responses of the provider (provider.c), by  *)
(* the channel (channel.c) and by the main loop's timers.                  *)
(*                                                                         *)
(* Everything runs on one main loop, so a callback is one step: a handler  *)
(* and what the listener does inside it are one action here.               *)
(***************************************************************************)
EXTENDS SipTransport

CONSTANT
    MaxClientFailures   \* bound: channel failures the caller's side meets

ASSUME MaxClientFailuresAssumption == MaxClientFailures \in Nat

VARIABLES
    ictState,       \* transaction state; "NULL" before the call
    ictTimers,      \* timers of the transaction that are on the main loop
    ictChannel,     \* base.channel and its state as far as it matters
    ictLast,        \* base.last_response
    uac,            \* the caller's dialog
    callerOp,       \* SalCallOp::mState of the caller
    linked,         \* op->mDialog is that dialog
    cancel,         \* the CANCEL transaction of the call
    byeSent,        \* a BYE transaction of the caller's dialog is running
    callerFinals,   \* history: final responses reported to the caller's op
    clientFailures  \* channel failures so far

ictVars    == <<ictState, ictTimers, ictChannel, ictLast>>
callerVars == <<uac, callerOp, linked, cancel, byeSent, callerFinals>>
clientVars == <<ictVars, callerVars, clientFailures>>

-----------------------------------------------------------------------------
NoResponse == "none"

ClientStates == {"NULL", "INIT", "CALLING", "PROCEEDING", "COMPLETED",
                 "ACCEPTED", "TERMINATED"}
ClientTimers == {"A", "B", "D", "M", "repair"}

\* "connecting" stands for every state of a channel before READY; "error" is
\* ERROR before the listeners were told (the notification is deferred to the
\* main loop); "none" is base.channel = NULL.
Channels == {"none", "connecting", "ready", "error"}

OpStates     == {"Early", "Active", "Terminating", "Terminated"}
DialogStates == {"none", "EARLY", "CONFIRMED", "TERMINATED"}

\* needsAck is dialog->needs_ack, acked says that last_out_ack is set.
UacDialog == [state : DialogStates, needsAck : BOOLEAN, acked : BOOLEAN]

ClientTypeOK ==
    /\ ictState \in ClientStates
    /\ ictTimers \subseteq ClientTimers
    /\ ictChannel \in Channels
    /\ ictLast \in Codes \cup {NoResponse}
    /\ uac \in UacDialog
    /\ callerOp \in OpStates
    /\ linked \in BOOLEAN
    /\ cancel \in {"none", "sent", "done"}
    /\ byeSent \in BOOLEAN
    /\ callerFinals \subseteq Final
    /\ clientFailures \in 0..MaxClientFailures

ClientInit ==
    /\ ictState = "NULL"
    /\ ictTimers = {}
    /\ ictChannel = "none"
    /\ ictLast = NoResponse
    /\ uac = [state |-> "none", needsAck |-> FALSE, acked |-> FALSE]
    /\ callerOp = "Early"
    /\ linked = FALSE
    /\ cancel = "none"
    /\ byeSent = FALSE
    /\ callerFinals = {}
    /\ clientFailures = 0

-----------------------------------------------------------------------------
(***************************************************************************)
(* Pieces of the handlers.                                                 *)
(***************************************************************************)

\* belle_sip_transaction_state_is_transient
Transient(state) == state \in {"INIT", "TRYING", "CALLING", "PROCEEDING"}

\* In prov->client_transactions: from send_request_to to terminate.
ClientLive == ictState \notin {"NULL", "TERMINATED"}

SendToServer(channel, m) == toServer' = Send(channel, toServer, m)

\* SalCallOp::setReleased lets the dialog go.
Release ==
    /\ callerOp' = "Terminated"
    /\ linked' = FALSE

\* belle_sip_transaction_terminate: the repair timer and, through on_terminate,
\* every other timer stop; a dialog that got no final response is told and
\* deleted.
EndTransaction ==
    /\ ictState' = "TERMINATED"
    /\ ictTimers' = {}
    /\ uac' = IF ictLast \notin Final /\ uac.state = "EARLY"
              THEN [uac EXCEPT !.state = "TERMINATED"] ELSE uac

\* SalCallOp::processTransactionTerminatedCb then gives up a call that is
\* still early and unanswered.
TerminateClient ==
    /\ EndTransaction
    /\ IF callerOp = "Early" /\ ictLast \notin Final
       THEN Release
       ELSE UNCHANGED <<callerOp, linked>>

\* ict_send_request
IctSendRequest ==
    /\ ictState' = "CALLING"
    /\ ictTimers' = ictTimers \cup (IF Reliable THEN {"B"} ELSE {"A", "B"})
    /\ ictChannel' = "ready"
    /\ SendToServer("ready", "INVITE")

\* A response that finds the transaction without a channel gives it a new one
\* (belle_sip_provider_dispatch_response).
Reassociated == IF ictChannel = "none" THEN "ready" ELSE ictChannel

-----------------------------------------------------------------------------
(***************************************************************************)
(* SalCallOp::call and belle_sip_client_transaction_send_request_to.  The  *)
(* channel may be ready or still have to be resolved and connected.        *)
(***************************************************************************)
Call ==
    /\ ictState = "NULL"
    /\ \/ IctSendRequest
       \/ /\ ictState' = "INIT"
          /\ ictChannel' = "connecting"
          /\ UNCHANGED <<ictTimers, toServer>>
    /\ UNCHANGED <<ictLast, callerVars, clientFailures, toClient>>

\* on_channel_state_changed, READY.
ClientChannelReady ==
    /\ ictChannel = "connecting"
    /\ ictState = "INIT"
    /\ IctSendRequest
    /\ UNCHANGED <<ictLast, callerVars, clientFailures, toClient>>

\* belle_sip_channel_handle_error: the state changes at once, the listeners
\* are told later.  A broken connection may take what is in flight with it.
ClientChannelFails ==
    /\ clientFailures < MaxClientFailures
    /\ ictChannel \in {"connecting", "ready"}
    /\ ictChannel' = "error"
    /\ clientFailures' = clientFailures + 1
    /\ toServer' \in Broken(toServer)
    /\ toClient' \in Broken(toClient)
    /\ UNCHANGED <<ictState, ictTimers, ictLast, callerVars>>

\* The CANCEL was sent over the channel that broke: its transaction ends
\* without a timeout to report.
CancelAbandoned == cancel' = IF cancel = "sent" THEN "done" ELSE cancel

\* Mutant: the repair timer is not started.
ErrorWithoutRepair ==
    /\ ictChannel = "error"
    /\ Transient(ictState)
    /\ ictChannel' = "none"
    /\ IF ictState = "INIT" THEN Release ELSE UNCHANGED <<callerOp, linked>>
    /\ CancelAbandoned
    /\ UNCHANGED <<ictState, ictTimers, ictLast, uac, byeSent, callerFinals,
                   clientFailures, links>>

\* on_channel_state_changed, ERROR, for a transaction still waiting for its
\* final response: the op is told (SalCallOp::processIoErrorCb gives up only
\* if the INVITE never left) and the repair timer starts again.
ClientChannelErrorTransient ==
    /\ ictChannel = "error"
    /\ Transient(ictState)
    /\ ictChannel' = "none"
    /\ ictTimers' = ictTimers \cup {"repair"}
    /\ IF ictState = "INIT" THEN Release ELSE UNCHANGED <<callerOp, linked>>
    /\ CancelAbandoned
    /\ UNCHANGED <<ictState, ictLast, uac, byeSent, callerFinals,
                   clientFailures, links>>

\* The same event otherwise: the transaction is terminated (no effect if it
\* already is) and lets the channel go.
ClientChannelErrorFinal ==
    /\ ictChannel = "error"
    /\ ~Transient(ictState)
    /\ ictChannel' = "none"
    /\ \/ /\ ictState # "TERMINATED"
          /\ TerminateClient
       \/ /\ ictState = "TERMINATED"
          /\ UNCHANGED <<ictState, ictTimers, uac, callerOp, linked>>
    /\ CancelAbandoned
    /\ UNCHANGED <<ictLast, byeSent, callerFinals, clientFailures, links>>

-----------------------------------------------------------------------------
(***************************************************************************)
(* Responses, as belle_sip_provider_dispatch_response hands them on.       *)
(***************************************************************************)
\* The response leaves the link and finds the transaction.
Response(code) ==
    /\ ClientLive
    /\ Arriving(toClient, code)
    /\ toClient' \in After(toClient, code)

Waiting == ictState \in {"CALLING", "PROCEEDING"}

\* No transaction has it: Sal discards stateless responses.
RecvStateless ==
    /\ ~ClientLive
    /\ \E code \in Codes : /\ Arriving(toClient, code)
                           /\ toClient' \in After(toClient, code)
    /\ UNCHANGED <<clientVars, toServer>>

\* A provisional response.  One with a to-tag creates the dialog; the first
\* one after a hang-up is what the CANCEL was waiting for.
RecvProvisional(code) ==
    /\ Response(code)
    /\ Waiting
    /\ ictState' = "PROCEEDING"
    /\ ictLast' = code
    /\ ictChannel' = Reassociated
    /\ uac' = IF code # "100" /\ uac.state = "none"
              THEN [uac EXCEPT !.state = "EARLY"] ELSE uac
    /\ IF callerOp = "Terminating" /\ cancel = "none"
       THEN SendToServer(Reassociated, "CANCEL") /\ cancel' = "sent"
       ELSE UNCHANGED <<toServer, cancel>>
    /\ linked' = (callerOp # "Terminated" /\ uac'.state # "none")
    /\ UNCHANGED <<ictTimers, callerOp, byeSent, callerFinals, clientFailures>>

\* A failure: ACK, an early dialog is deleted and the op, unless released,
\* is told.  Without a dialog that releases it at once, else the dialog's end
\* will.
RecvReject(code) ==
    /\ Response(code)
    /\ Waiting
    /\ ictState' = "COMPLETED"
    /\ ictLast' = code
    /\ ictChannel' = Reassociated
    /\ ictTimers' = ictTimers \cup {"D"}
    /\ SendToServer(Reassociated, "ACK")
    /\ uac' = IF uac.state = "EARLY" THEN [uac EXCEPT !.state = "TERMINATED"]
                                     ELSE uac
    /\ \/ /\ callerOp = "Terminated"
          /\ UNCHANGED <<callerOp, linked, callerFinals>>
       \/ /\ callerOp # "Terminated"
          /\ IF uac.state = "none"
             THEN Release
             ELSE callerOp' = "Terminating" /\ linked' = TRUE
          /\ callerFinals' = callerFinals \cup {code}
    /\ UNCHANGED <<cancel, byeSent, clientFailures>>

\* Mutant: an acceptance that crosses the hang-up is forgotten.
AcceptanceForgotten(channel) == UNCHANGED <<byeSent, toServer>>

\* The BYEs a 2xx brings about on a dialog the op does not want: one by the
\* op, if it still listens, and, as nobody sent the ACK, one by
\* belle_sip_dialog_check_ack_sent.
HangUpAccepted(channel) ==
    /\ byeSent' = TRUE
    /\ toServer' = IF callerOp = "Terminating"
                   THEN Send(channel, Send(channel, toServer, "BYE"), "BYE")
                   ELSE Send(channel, toServer, "BYE")

\* Mutant: the ACK is sent but the dialog does not keep it.
AckNotKept(code) ==
    /\ Response(code)
    /\ Waiting
    /\ callerOp = "Early"
    /\ ictState' = "ACCEPTED"
    /\ ictLast' = code
    /\ ictChannel' = Reassociated
    /\ ictTimers' = ictTimers \cup {"M"}
    /\ linked' = TRUE
    /\ callerFinals' = callerFinals \cup {code}
    /\ SendToServer(Reassociated, "ACK2xx")
    /\ uac' = [state |-> "CONFIRMED", needsAck |-> TRUE, acked |-> FALSE]
    /\ callerOp' = "Active"
    /\ UNCHANGED <<cancel, byeSent, clientFailures>>

\* The first 2xx confirms the dialog, which now needs the op's ACK.
RecvAccept(code) ==
    /\ Response(code)
    /\ Waiting
    /\ ictState' = "ACCEPTED"
    /\ ictLast' = code
    /\ ictChannel' = Reassociated
    /\ ictTimers' = ictTimers \cup {"M"}
    /\ linked' = (callerOp # "Terminated")
    /\ callerFinals' = IF callerOp = "Terminated" THEN callerFinals
                       ELSE callerFinals \cup {code}
    /\ \/ /\ callerOp = "Early"
          /\ SendToServer(Reassociated, "ACK2xx")
          /\ uac' = [state |-> "CONFIRMED", needsAck |-> FALSE, acked |-> TRUE]
          /\ callerOp' = "Active"
          /\ UNCHANGED byeSent
       \/ /\ callerOp # "Early"
          /\ HangUpAccepted(Reassociated)
          /\ uac' = [state |-> "CONFIRMED", needsAck |-> TRUE, acked |-> FALSE]
          /\ UNCHANGED callerOp
    /\ UNCHANGED <<cancel, clientFailures>>

\* A 2xx again.  The dialog repeats an ACK it sent and absorbs the response;
\* without one it is hung up again.  A dialog that is over but still held
\* ignores it.  One that was released is replaced by a new dialog nobody
\* owns, which check_ack_sent ends with a BYE.
RecvAcceptAgain(code) ==
    /\ Response(code)
    /\ ictState = "ACCEPTED"
    /\ ictLast' = code
    /\ ictChannel' = Reassociated
    /\ \/ /\ uac.state = "CONFIRMED" /\ uac.acked
          /\ SendToServer(Reassociated, "ACK2xx")
          /\ UNCHANGED <<uac, linked, byeSent>>
       \/ /\ uac.state = "CONFIRMED" /\ ~uac.acked
          /\ uac' = [uac EXCEPT !.needsAck = TRUE]
          /\ linked' = (callerOp # "Terminated")
          /\ HangUpAccepted(Reassociated)
       \/ /\ uac.state = "TERMINATED" /\ callerOp # "Terminated"
          /\ UNCHANGED <<toServer, uac, linked, byeSent>>
       \/ /\ uac.state = "TERMINATED" /\ callerOp = "Terminated"
          /\ SendToServer(Reassociated, "BYE")
          /\ UNCHANGED <<uac, linked, byeSent>>
    /\ UNCHANGED <<ictState, ictTimers, callerOp, cancel, callerFinals,
                   clientFailures>>

\* A failure again: the transaction repeats its ACK.
RecvRejectAgain(code) ==
    /\ Response(code)
    /\ ictState = "COMPLETED"
    /\ ictChannel' = Reassociated
    /\ SendToServer(Reassociated, "ACK")
    /\ UNCHANGED <<ictState, ictTimers, ictLast, callerVars, clientFailures>>

\* What no case of ict_on_response matches.
RecvIgnored(code) ==
    /\ Response(code)
    /\ \/ ictState = "ACCEPTED" /\ code \notin Success
       \/ ictState = "COMPLETED" /\ code \notin Failure
    /\ ictChannel' = Reassociated
    /\ UNCHANGED <<ictState, ictTimers, ictLast, callerVars, clientFailures,
                   toServer>>

\* Mutant: the answer to the CANCEL is taken for the INVITE's.
AnswerMistaken ==
    /\ Arriving(toClient, "CancelAnswer")
    /\ toClient' \in After(toClient, "CancelAnswer")
    /\ callerFinals' = callerFinals \cup {"487"}
    /\ UNCHANGED <<ictVars, uac, callerOp, linked, cancel, byeSent,
                   clientFailures, toServer>>

\* The CANCEL was answered.  Its transaction has no dialog, so the op takes
\* the answer for one without a dialog and lets its own go.
RecvCancelAnswer ==
    /\ Arriving(toClient, "CancelAnswer")
    /\ toClient' \in After(toClient, "CancelAnswer")
    /\ cancel' = IF cancel = "sent" THEN "done" ELSE cancel
    /\ linked' = (linked /\ cancel # "sent")
    /\ UNCHANGED <<ictVars, uac, callerOp, byeSent, callerFinals,
                   clientFailures, toServer>>

\* Mutant: the dialog ends but the op is not told.
ByeNotReported ==
    /\ Arriving(toClient, "BYE")
    /\ toClient' \in After(toClient, "BYE")
    /\ uac' = IF uac.state = "CONFIRMED" /\ linked
              THEN [uac EXCEPT !.state = "TERMINATED", !.needsAck = FALSE] ELSE uac
    /\ linked' = FALSE
    /\ UNCHANGED <<ictVars, callerOp, cancel, byeSent, callerFinals,
                   clientFailures, toServer>>

\* A BYE ends the confirmed dialog (SalCallOp::callTerminated); a dialog no
\* op is linked to drops it.  An early dialog answers it 501, an unknown one
\* 481: the callee's BYE transaction is done with either.
RecvByeFromCallee ==
    /\ Arriving(toClient, "BYE")
    /\ toClient' \in After(toClient, "BYE")
    /\ IF uac.state = "CONFIRMED" /\ linked
       THEN /\ uac' = [uac EXCEPT !.state = "TERMINATED", !.needsAck = FALSE]
            /\ callerOp' = "Terminating"
       ELSE UNCHANGED <<uac, callerOp>>
    /\ UNCHANGED <<ictVars, linked, cancel, byeSent, callerFinals,
                   clientFailures, toServer>>

ClientReceive ==
    \/ RecvStateless
    \/ \E code \in Provisional : RecvProvisional(code)
    \/ \E code \in Failure : RecvReject(code) \/ RecvRejectAgain(code)
    \/ \E code \in Success : RecvAccept(code) \/ RecvAcceptAgain(code)
    \/ \E code \in Codes : RecvIgnored(code)
    \/ RecvCancelAnswer
    \/ RecvByeFromCallee

-----------------------------------------------------------------------------
(***************************************************************************)
(* Timers of the transactions.                                             *)
(***************************************************************************)

\* Retransmits the INVITE; keeps running in every state while there is a
\* channel.
TimerA ==
    /\ "A" \in ictTimers
    /\ IF ictChannel = "none"
       THEN /\ ictTimers' = ictTimers \ {"A"}
            /\ UNCHANGED toServer
       ELSE /\ ictState = "CALLING"
            /\ SendToServer(ictChannel, "INVITE")
            /\ UNCHANGED ictTimers
    /\ UNCHANGED <<ictState, ictChannel, ictLast, callerVars, clientFailures,
                   toClient>>

\* Nobody answered: the op is told and released, then the transaction ends.
\* In any other state the timer only stops.
TimerB ==
    /\ "B" \in ictTimers
    /\ \/ /\ ictState = "CALLING"
          /\ EndTransaction
          /\ Release
       \/ /\ ictState # "CALLING"
          /\ ictTimers' = ictTimers \ {"B"}
          /\ UNCHANGED <<ictState, uac, callerOp, linked>>
    /\ UNCHANGED <<ictChannel, ictLast, cancel, byeSent, callerFinals,
                   clientFailures, links>>

\* Mutant: timer M expects the state of timer D.
TimerMixedUp(timer) ==
    /\ timer \in ictTimers
    /\ timer # "repair" => ictState = "COMPLETED"
    /\ TerminateClient
    /\ UNCHANGED <<ictChannel, ictLast, cancel, byeSent, callerFinals,
                   clientFailures, links>>

\* The waits that end the transaction: D in COMPLETED, M in ACCEPTED, and the
\* repair timer wherever it finds it.
TimerEnds(timer) ==
    /\ timer \in ictTimers
    /\ timer = "D" => ictState = "COMPLETED"
    /\ timer = "M" => ictState = "ACCEPTED"
    /\ TerminateClient
    /\ UNCHANGED <<ictChannel, ictLast, cancel, byeSent, callerFinals,
                   clientFailures, links>>

\* The CANCEL's own transaction gets no answer (SalCallOp::processTimeoutCb):
\* an op without a dialog gives up.
CancelTimeout ==
    /\ cancel = "sent"
    /\ cancel' = "done"
    /\ IF callerOp # "Terminated" /\ ~linked
       THEN Release
       ELSE UNCHANGED <<callerOp, linked>>
    /\ UNCHANGED <<ictVars, uac, byeSent, callerFinals, clientFailures, links>>

-----------------------------------------------------------------------------
(***************************************************************************)
(* The op and its dialog.                                                  *)
(***************************************************************************)

\* SalCallOp::terminate of an outgoing call.
HangUp ==
    /\ ictState # "NULL"
    /\ callerOp \in {"Early", "Active"}
    /\ uac.state # "TERMINATED"
    /\ callerOp' = "Terminating"
    /\ \/ /\ uac.state = "CONFIRMED"
          /\ SendToServer(ictChannel, "BYE")
          /\ byeSent' = TRUE
          /\ UNCHANGED <<ictTimers, cancel>>
       \/ /\ \/ uac.state = "EARLY"
             \/ uac.state = "none" /\ ictState = "PROCEEDING"
          /\ SendToServer(ictChannel, "CANCEL")
          /\ cancel' = "sent"
          /\ UNCHANGED <<ictTimers, byeSent>>
       \/ /\ uac.state = "none" /\ ictState # "PROCEEDING"
          /\ ictTimers' = ictTimers \ {"A"}
          /\ UNCHANGED <<toServer, cancel, byeSent>>
    /\ UNCHANGED <<ictState, ictChannel, ictLast, uac, linked, callerFinals,
                   clientFailures, toClient>>

\* Mutant: the op lets the dialog go before it is told of its end.
ByeDoneUnlinked ==
    /\ byeSent
    /\ uac.state = "CONFIRMED"
    /\ uac' = [uac EXCEPT !.state = "TERMINATED", !.needsAck = FALSE]
    /\ linked' = FALSE
    /\ UNCHANGED <<ictVars, callerOp, cancel, byeSent, callerFinals,
                   clientFailures, links>>

\* The BYE was answered, or nobody did and its transaction timed out: the
\* dialog is deleted (belle_sip_dialog_update).  An op that had lost it finds
\* it again with the answer, or is released as the BYE's transaction ends.
CallerByeDone ==
    /\ byeSent
    /\ uac.state = "CONFIRMED"
    /\ uac' = [uac EXCEPT !.state = "TERMINATED", !.needsAck = FALSE]
    /\ linked' = (callerOp # "Terminated")
    /\ UNCHANGED <<ictVars, callerOp, cancel, byeSent, callerFinals,
                   clientFailures, links>>

\* The main loop tells the op that its dialog is gone and the op releases
\* itself: two deferred callbacks nothing can tell apart, one step.
CallerDialogTerminated ==
    /\ uac.state = "TERMINATED"
    /\ linked
    /\ Release
    /\ UNCHANGED <<ictVars, uac, cancel, byeSent, callerFinals,
                   clientFailures, links>>
=============================================================================
