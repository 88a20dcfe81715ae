---------------------------- MODULE InviteServer ----------------------------
(***************************************************************************)
(* The called side of one INVITE: the INVITE server transaction (ist.c     *)
(* over transaction.c), the dialog as UAS with its own retransmission of   *)
(* the 200 (dialog.c) and the call operation of linphone (call-op.cpp).    *)
(***************************************************************************)
EXTENDS SipTransport

CONSTANT
    MaxServerFailures   \* bound: channel failures the callee's side meets

ASSUME MaxServerFailuresAssumption == MaxServerFailures \in Nat

VARIABLES
    istState,       \* transaction state; "NULL" before the INVITE
    istTimers,      \* timers of the transaction that are on the main loop
    istChannel,     \* base.channel and its state as far as it matters
    istLast,        \* base.last_response
    uas,            \* the callee's dialog
    calleeOp,       \* SalCallOp::mState of the callee; "none" before the call
    calleeBye,      \* a BYE transaction of the callee's dialog is running
    calleeAcked,    \* history: the dialog was acknowledged
    finalsSent,     \* history: final responses given to the INVITE
    offered,        \* history: calls offered to the callee's application
    serverFailures, \* channel failures so far
    calleeAlive     \* the callee's process did not crash

istVars    == <<istState, istTimers, istChannel, istLast, finalsSent>>
calleeVars == <<uas, calleeOp, calleeBye, calleeAcked, offered>>
serverVars == <<istVars, calleeVars, serverFailures, calleeAlive>>

-----------------------------------------------------------------------------
NoAnswer == "none"

ServerStates == {"NULL", "PROCEEDING", "COMPLETED", "CONFIRMED", "ACCEPTED",
                 "TERMINATED"}
ServerTimers == {"G", "H", "I", "L", "repair"}

\* "ready" is any channel that accepts messages; "error" and "none" are those
\* of the client.
ServerChannels == {"none", "ready", "error"}

\* retrans says that the two 200Ok timers of the dialog are running.
UasDialog == [state : {"none", "NULL", "EARLY", "CONFIRMED", "TERMINATED"},
              needsAck : BOOLEAN, retrans : BOOLEAN]

ServerTypeOK ==
    /\ istState \in ServerStates
    /\ istTimers \subseteq ServerTimers
    /\ istChannel \in ServerChannels
    /\ istLast \in Codes \cup {NoAnswer}
    /\ istState \in {"PROCEEDING", "COMPLETED"} => istLast \in Codes
    /\ uas \in UasDialog
    /\ calleeOp \in {"none", "Early", "Active", "Terminating", "Terminated"}
    /\ calleeBye \in BOOLEAN
    /\ calleeAcked \in BOOLEAN
    /\ finalsSent \subseteq Final
    /\ offered \in 0..2
    /\ serverFailures \in 0..MaxServerFailures
    /\ calleeAlive \in BOOLEAN

ServerInit ==
    /\ istState = "NULL"
    /\ istTimers = {}
    /\ istChannel = "none"
    /\ istLast = NoAnswer
    /\ uas = [state |-> "none", needsAck |-> FALSE, retrans |-> FALSE]
    /\ calleeOp = "none"
    /\ calleeBye = FALSE
    /\ calleeAcked = FALSE
    /\ finalsSent = {}
    /\ offered = 0
    /\ serverFailures = 0
    /\ calleeAlive = TRUE

-----------------------------------------------------------------------------
(***************************************************************************)
(* Pieces of the handlers.                                                 *)
(***************************************************************************)

\* In prov->server_transactions: what requests of the INVITE's branch match.
ServerLive == istState \notin {"NULL", "TERMINATED"}

SendToClient(channel, m) == toClient' = Send(channel, toClient, m)

Request(m) ==
    /\ Arriving(toServer, m)
    /\ toServer' \in After(toServer, m)

\* Mutant: the 200Ok timers are not started.
UpdatedOnce(dialog, code) ==
    IF dialog.state \notin {"NULL", "EARLY"} THEN dialog
    ELSE IF code \in Success
    THEN [state |-> "CONFIRMED", needsAck |-> TRUE, retrans |-> FALSE]
    ELSE IF code \in Failure THEN [dialog EXCEPT !.state = "TERMINATED"]
    ELSE dialog

\* belle_sip_dialog_update as UAS for an INVITE whose last response is code.
\* A confirmed dialog takes a 2xx for the answer to a re-INVITE: it needs an
\* ACK again and the 200 is retransmitted again.
Updated(dialog, code) ==
    IF dialog.state \notin {"NULL", "EARLY", "CONFIRMED"} THEN dialog
    ELSE IF code \in Success
    THEN [state |-> "CONFIRMED", needsAck |-> TRUE, retrans |-> TRUE]
    ELSE IF dialog.state = "CONFIRMED" THEN dialog
    ELSE IF code \in Failure THEN [dialog EXCEPT !.state = "TERMINATED"]
    ELSE IF code = "180" THEN [dialog EXCEPT !.state = "EARLY"]
    ELSE dialog

\* belle_sip_server_transaction_send_response takes a new channel when the
\* transaction has none.
ResponseChannel == IF istChannel = "none" THEN "ready" ELSE istChannel

\* What ist_send_new_response starts after a final response.
ResponseTimers(code) ==
    IF code \in Success THEN {"L"}
    ELSE IF code \in Failure THEN IF Reliable THEN {"H"} ELSE {"G", "H"}
    ELSE {}

\* Mutant: a response is sent in any state.
SendInAnyState(code, timers, link) ==
    /\ istChannel' = ResponseChannel
    /\ toClient' = Send(ResponseChannel, link, code)
    /\ istState' = IF code \in Success THEN "ACCEPTED"
                   ELSE IF code \in Failure THEN "COMPLETED"
                   ELSE "PROCEEDING"
    /\ istTimers' = timers \cup ResponseTimers(code)
    /\ istLast' = code
    /\ finalsSent' = finalsSent \cup ({code} \cap Final)
    /\ uas' = Updated(uas, code)

\* belle_sip_server_transaction_send_response with ist_send_new_response.  A
\* response that comes too late is not sent, but the dialog is updated all
\* the same, with the response that was sent last.
SendResponse(code, timers, link) ==
    /\ istChannel' = ResponseChannel
    /\ \/ /\ istState = "PROCEEDING"
          /\ toClient' = Send(ResponseChannel, link, code)
          /\ istState' = IF code \in Success THEN "ACCEPTED"
                         ELSE IF code \in Failure THEN "COMPLETED"
                         ELSE "PROCEEDING"
          /\ istTimers' = timers \cup ResponseTimers(code)
          /\ istLast' = code
          /\ finalsSent' = finalsSent \cup ({code} \cap Final)
          /\ uas' = Updated(uas, code)
       \/ /\ istState # "PROCEEDING"
          /\ istTimers' = timers
          /\ uas' = Updated(uas, istLast)
          /\ toClient' = link
          /\ UNCHANGED <<istState, istLast, finalsSent>>

\* belle_sip_transaction_terminate after a final response: every timer stops.
TerminateServer ==
    /\ istState' = "TERMINATED"
    /\ istTimers' = {}

-----------------------------------------------------------------------------
(***************************************************************************)
(* Requests of the caller, as belle_sip_provider_dispatch_request hands    *)
(* them on.                                                                *)
(***************************************************************************)

\* No transaction and no dialog know the INVITE: a call is offered.  The
\* transaction answers 100 by itself and the op creates the dialog.
RecvInvite ==
    /\ Request("INVITE")
    /\ istState = "NULL"
    /\ istState' = "PROCEEDING"
    /\ istChannel' = "ready"
    /\ istLast' = "100"
    /\ SendToClient("ready", "100")
    /\ uas' = [uas EXCEPT !.state = "NULL"]
    /\ calleeOp' = "Early"
    /\ offered' = 1
    /\ UNCHANGED <<istTimers, calleeBye, calleeAcked, finalsSent,
                   serverFailures, calleeAlive>>

\* The same INVITE after its transaction is gone has no to-tag to find the
\* dialog with: it is offered as a second call, which is not followed further.
RecvInviteAsNew ==
    /\ Request("INVITE")
    /\ istState = "TERMINATED"
    /\ offered' = 2
    /\ UNCHANGED <<istVars, uas, calleeOp, calleeBye, calleeAcked,
                   serverFailures, calleeAlive, toClient>>

\* ist_on_request_retransmission: repeat the last response; on a transaction
\* that waits for a new channel this dereferences a null pointer.
RecvInviteAgain ==
    /\ Request("INVITE")
    /\ ServerLive
    /\ \/ /\ istState \in {"PROCEEDING", "COMPLETED"}
          /\ istChannel # "none"
          /\ SendToClient(istChannel, istLast)
          /\ UNCHANGED calleeAlive
       \/ /\ istState \in {"PROCEEDING", "COMPLETED"}
          /\ istChannel = "none"
          /\ calleeAlive' = FALSE
          /\ UNCHANGED toClient
       \/ /\ istState \notin {"PROCEEDING", "COMPLETED"}
          /\ UNCHANGED <<toClient, calleeAlive>>
    /\ UNCHANGED <<istVars, calleeVars, serverFailures>>

\* Mutant: the ACK ends the transaction over UDP too.
AckEndsAlways ==
    /\ Request("ACK")
    /\ IF istState = "COMPLETED" THEN TerminateServer
                                 ELSE UNCHANGED <<istState, istTimers>>
    /\ UNCHANGED <<istChannel, istLast, finalsSent, calleeVars,
                   serverFailures, calleeAlive, toClient>>

\* Mutant: the wait for repeated ACKs has no timer.
AckWithoutTimerI ==
    /\ Request("ACK")
    /\ istState' = IF istState = "COMPLETED" THEN "CONFIRMED" ELSE istState
    /\ istTimers' = istTimers \ {"G"}
    /\ UNCHANGED <<istChannel, istLast, finalsSent, calleeVars,
                   serverFailures, calleeAlive, toClient>>

\* belle_sip_ist_process_ack: the ACK of a failure.
RecvAck ==
    /\ Request("ACK")
    /\ \/ /\ istState = "COMPLETED"
          /\ IF Reliable
             THEN TerminateServer
             ELSE /\ istState' = "CONFIRMED"
                  /\ istTimers' = (istTimers \ {"G"}) \cup {"I"}
       \/ /\ istState # "COMPLETED"
          /\ UNCHANGED <<istState, istTimers>>
    /\ UNCHANGED <<istChannel, istLast, finalsSent, calleeVars,
                   serverFailures, calleeAlive, toClient>>

\* The ACK of a 2xx finds the dialog (belle_sip_dialog_handle_ack): the 200 is
\* no longer retransmitted.  A repeated one is absorbed.
RecvAck2xx ==
    /\ Request("ACK2xx")
    /\ IF uas.state = "CONFIRMED" /\ uas.needsAck
       THEN /\ uas' = [uas EXCEPT !.needsAck = FALSE, !.retrans = FALSE]
            /\ calleeAcked' = TRUE
       ELSE UNCHANGED <<uas, calleeAcked>>
    /\ UNCHANGED <<istVars, calleeOp, calleeBye, offered, serverFailures,
                   calleeAlive, toClient>>

\* A CANCEL of a call that is not answered yet gets its 200 and the INVITE
\* its 487.  Too late, or unknown, it gets 481 and changes nothing; nobody
\* answers it while the dialog that ended is still held.
RecvCancel ==
    /\ Request("CANCEL")
    /\ \/ /\ ServerLive
          /\ uas.state \in {"NULL", "EARLY"}
          /\ calleeOp # "Terminated"
          /\ SendResponse("487", istTimers,
                          Send(ResponseChannel, toClient, "CancelAnswer"))
          /\ calleeOp' = "Terminating"
       \/ /\ ~ServerLive \/ uas.state \in {"CONFIRMED", "TERMINATED"}
          /\ SendToClient(ResponseChannel, "CancelAnswer")
          /\ UNCHANGED <<istVars, uas, calleeOp>>
       \/ /\ ServerLive
          /\ uas.state = "TERMINATED"
          /\ UNCHANGED <<istVars, uas, calleeOp, toClient>>
    /\ UNCHANGED <<calleeBye, calleeAcked, offered, serverFailures, calleeAlive>>

\* A BYE ends the confirmed dialog, acknowledged or not.
RecvByeFromCaller ==
    /\ Request("BYE")
    /\ IF uas.state = "CONFIRMED" /\ calleeOp # "Terminated"
       THEN /\ uas' = [state |-> "TERMINATED", needsAck |-> FALSE,
                       retrans |-> FALSE]
            /\ calleeOp' = "Terminating"
       ELSE UNCHANGED <<uas, calleeOp>>
    /\ UNCHANGED <<istVars, calleeBye, calleeAcked, offered, serverFailures,
                   calleeAlive, toClient>>

ServerReceive ==
    \/ RecvInvite
    \/ RecvInviteAsNew
    \/ RecvInviteAgain
    \/ RecvAck
    \/ RecvAck2xx
    \/ RecvCancel
    \/ RecvByeFromCaller

-----------------------------------------------------------------------------
(***************************************************************************)
(* The application of the callee.                                          *)
(***************************************************************************)

\* SalCallOp::notifyRinging, once per call.
Ring ==
    /\ calleeOp = "Early"
    /\ istLast = "100"
    /\ SendResponse("180", istTimers, toClient)
    /\ UNCHANGED <<calleeOp, calleeBye, calleeAcked, offered, serverFailures,
                   calleeAlive, toServer>>

\* A response of the application to the INVITE, as long as the op has its
\* transaction: neither accept nor decline asks for the state of the op.
\* Bound: a call that was answered is answered again only while there is room.
Answer(code) ==
    /\ ServerLive
    /\ calleeOp # "Terminated"
    /\ calleeOp = "Early" \/ Room
    /\ SendResponse(code, istTimers, toClient)

\* SalCallOp::accept.
Accept ==
    /\ Answer("200")
    /\ calleeOp' = IF calleeOp = "Early" THEN "Active" ELSE calleeOp
    /\ UNCHANGED <<calleeBye, calleeAcked, offered, serverFailures, calleeAlive, toServer>>

\* SalCallOp::decline leaves the op to the end of the dialog;
\* SalCallOp::terminate of an incoming call that is not established declines
\* it and releases the op.
Decline ==
    /\ Answer("486")
    /\ \/ UNCHANGED calleeOp
       \/ /\ calleeOp = "Early"
          /\ uas.state \in {"NULL", "EARLY"}
          /\ calleeOp' = "Terminated"
    /\ UNCHANGED <<calleeBye, calleeAcked, offered, serverFailures, calleeAlive, toServer>>

\* SalCallOp::terminate of an established call.
CalleeHangUp ==
    /\ calleeOp = "Active"
    /\ uas.state = "CONFIRMED"
    /\ SendToClient(istChannel, "BYE")
    /\ calleeBye' = TRUE
    /\ calleeOp' = "Terminating"
    /\ UNCHANGED <<istVars, uas, calleeAcked, offered, serverFailures,
                   calleeAlive, toServer>>

-----------------------------------------------------------------------------
(***************************************************************************)
(* Timers.                                                                 *)
(***************************************************************************)

\* Repeats the failure until it is acknowledged.
TimerG ==
    /\ "G" \in istTimers
    /\ \/ /\ istState = "COMPLETED"
          /\ SendToClient(istChannel, istLast)
          /\ UNCHANGED istTimers
       \/ /\ istState # "COMPLETED"
          /\ istTimers' = istTimers \ {"G"}
          /\ UNCHANGED toClient
    /\ UNCHANGED <<istState, istChannel, istLast, finalsSent, calleeVars,
                   serverFailures, calleeAlive, toServer>>

\* H gives up waiting for the ACK, and only then; I and L end the waits for
\* repeated ACKs and INVITEs in any state.
ServerTimerEnds(timer) ==
    /\ timer \in istTimers
    /\ IF timer = "H" /\ istState # "COMPLETED"
       THEN istTimers' = istTimers \ {"H"} /\ UNCHANGED istState
       ELSE TerminateServer
    /\ UNCHANGED <<istChannel, istLast, finalsSent, calleeVars, serverFailures,
                   calleeAlive, links>>

\* Mutant: the call is answered 503 although it was answered in the meantime.
RepairAnswersAgain ==
    /\ "repair" \in istTimers
    /\ istTimers' = istTimers \ {"repair"}
    /\ finalsSent' = finalsSent \cup {"503"}
    /\ SendToClient(ResponseChannel, "503")
    /\ UNCHANGED <<istState, istChannel, istLast, calleeVars, serverFailures,
                   calleeAlive, toServer>>

\* server_transaction_on_call_repair_timer: no way to the caller was found in
\* time, the call is answered 503, whatever happened since the failure.
ServerRepairTimer ==
    /\ "repair" \in istTimers
    /\ SendResponse("503", istTimers \ {"repair"}, toClient)
    /\ UNCHANGED <<calleeOp, calleeBye, calleeAcked, offered, serverFailures,
                   calleeAlive, toServer>>

\* The dialog repeats its 200 until it is acknowledged.
Retransmit200 ==
    /\ uas.retrans
    /\ Room
    /\ SendToClient(istChannel, "200")
    /\ UNCHANGED <<serverVars, toServer>>

\* Mutant: the retransmissions end and nobody is told.
GiveUpSilently ==
    /\ uas.retrans
    /\ uas' = [uas EXCEPT !.retrans = FALSE]
    /\ UNCHANGED <<istVars, calleeOp, calleeBye, calleeAcked, offered,
                   serverFailures, calleeAlive, links>>

\* Mutant: the dialog is given up without its BYE.
GiveUpWithoutBye ==
    /\ uas.retrans
    /\ uas' = [uas EXCEPT !.retrans = FALSE]
    /\ calleeBye' = TRUE
    /\ UNCHANGED <<istVars, calleeOp, calleeAcked, offered, serverFailures,
                   calleeAlive, links>>

\* After 64*T1 the dialog gives up and hangs up by itself.
Give200Up ==
    /\ uas.retrans
    /\ uas' = [uas EXCEPT !.retrans = FALSE]
    /\ SendToClient(istChannel, "BYE")
    /\ calleeBye' = TRUE
    /\ UNCHANGED <<istVars, calleeOp, calleeAcked, offered, serverFailures,
                   calleeAlive, toServer>>

-----------------------------------------------------------------------------
(***************************************************************************)
(* The op and its dialog; the channel.                                     *)
(***************************************************************************)

\* The BYE was answered or timed out.
CalleeByeDone ==
    /\ calleeBye
    /\ uas.state = "CONFIRMED"
    /\ uas' = [state |-> "TERMINATED", needsAck |-> FALSE, retrans |-> FALSE]
    /\ UNCHANGED <<istVars, calleeOp, calleeBye, calleeAcked, offered,
                   serverFailures, calleeAlive, links>>

\* The main loop tells the op that its dialog is gone; the op releases itself.
CalleeDialogTerminated ==
    /\ uas.state = "TERMINATED"
    /\ calleeOp # "Terminated"
    /\ calleeOp' = "Terminated"
    /\ UNCHANGED <<istVars, uas, calleeBye, calleeAcked, offered,
                   serverFailures, calleeAlive, links>>

ServerChannelFails ==
    /\ serverFailures < MaxServerFailures
    /\ istChannel = "ready"
    /\ istChannel' = "error"
    /\ serverFailures' = serverFailures + 1
    /\ toServer' \in Broken(toServer)
    /\ toClient' \in Broken(toClient)
    /\ UNCHANGED <<istState, istTimers, istLast, finalsSent, calleeVars,
                   calleeAlive>>

\* Mutant: a call that lost its channel waits for ever.
ServerErrorWithoutRepair ==
    /\ istChannel = "error"
    /\ istChannel' = "none"
    /\ IF istState = "PROCEEDING" THEN UNCHANGED <<istState, istTimers>>
                                  ELSE TerminateServer
    /\ UNCHANGED <<istLast, finalsSent, calleeVars, serverFailures,
                   calleeAlive, links>>

\* on_channel_state_changed, ERROR: an unanswered call waits for repair, any
\* other transaction ends.
ServerChannelError ==
    /\ istChannel = "error"
    /\ istChannel' = "none"
    /\ \/ /\ istState = "PROCEEDING"
          /\ istTimers' = istTimers \cup {"repair"}
          /\ UNCHANGED istState
       \/ /\ istState # "PROCEEDING"
          /\ TerminateServer
    /\ UNCHANGED <<istLast, finalsSent, calleeVars, serverFailures,
                   calleeAlive, links>>
=============================================================================
