----------------------------- MODULE InviteCall -----------------------------
(***************************************************************************)
(* One call between two user agents: the caller of InviteClient and the    *)
(* callee of InviteServer over the links of SipTransport.                  *)
(***************************************************************************)
EXTENDS InviteClient, InviteServer

vars == <<clientVars, serverVars, links>>

-----------------------------------------------------------------------------
(***************************************************************************)
(* The timing of the two ends.  Timers H and L last 64*T1, as long as the  *)
(* caller repeats an unanswered INVITE (timer B), and timer I lasts T4,    *)
(* the longest a message stays in the network: when one of them ends, the  *)
(* INVITE is neither repeated nor in flight any more.  No other timer is   *)
(* related to what the peer does.                                          *)
(***************************************************************************)
InviteGone ==
    /\ ictState \notin {"INIT", "CALLING"}
    /\ "INVITE" \notin Contents(toServer)

ClientStep ==
    /\ \/ Call
       \/ ClientChannelReady
       \/ ClientChannelFails
       \/ ClientChannelErrorTransient
       \/ ClientChannelErrorFinal
       \/ ClientReceive
       \/ TimerA
       \/ TimerB
       \/ \E timer \in {"D", "M", "repair"} : TimerEnds(timer)
       \/ CancelTimeout
       \/ HangUp
       \/ CallerByeDone
       \/ CallerDialogTerminated
    /\ UNCHANGED serverVars

ServerStep ==
    /\ calleeAlive
    /\ \/ ServerReceive
       \/ Ring
       \/ Accept
       \/ Decline
       \/ CalleeHangUp
       \/ TimerG
       \/ \E timer \in {"H", "I", "L"} : InviteGone /\ ServerTimerEnds(timer)
       \/ ServerRepairTimer
       \/ Retransmit200
       \/ Give200Up
       \/ CalleeByeDone
       \/ CalleeDialogTerminated
       \/ ServerChannelFails
       \/ ServerChannelError
    /\ UNCHANGED clientVars

\* A datagram gets lost.
Lose ==
    /\ ~Reliable
    /\ \/ \E m \in toServer : toServer' = Dropped(toServer, m) /\ UNCHANGED toClient
       \/ \E m \in toClient : toClient' = Dropped(toClient, m) /\ UNCHANGED toServer
    /\ UNCHANGED <<clientVars, serverVars>>

Init ==
    /\ ClientInit
    /\ ServerInit
    /\ toServer = EmptyLink
    /\ toClient = EmptyLink

Next == ClientStep \/ ServerStep \/ Lose

Spec == Init /\ [][Next]_vars

-----------------------------------------------------------------------------
(***************************************************************************)
(* Fairness: the main loop runs what is due (timers, deferred callbacks,   *)
(* messages that arrived), a connection attempt ends, and the callee's     *)
(* application answers: a call nobody picks up is declined after           *)
(* sip.inc_timeout.  Receiving is fair because the links of a run that     *)
(* uses it are reliable.                                                   *)
(***************************************************************************)
ClientFairness ==
    /\ WF_vars(ClientChannelReady /\ UNCHANGED serverVars)
    /\ WF_vars(ClientChannelErrorTransient /\ UNCHANGED serverVars)
    /\ WF_vars(ClientChannelErrorFinal /\ UNCHANGED serverVars)
    /\ WF_vars(ClientReceive /\ UNCHANGED serverVars)
    /\ WF_vars(TimerB /\ UNCHANGED serverVars)
    /\ \A timer \in {"D", "M", "repair"} :
          WF_vars(TimerEnds(timer) /\ UNCHANGED serverVars)
    /\ WF_vars(CancelTimeout /\ UNCHANGED serverVars)
    /\ WF_vars(CallerByeDone /\ UNCHANGED serverVars)
    /\ WF_vars(CallerDialogTerminated /\ UNCHANGED serverVars)

\* The application answers once; that it does so again is its own choice.
FirstAnswer == calleeOp = "Early" /\ (Accept \/ Decline)

ServerFairness ==
    /\ WF_vars(calleeAlive /\ ServerReceive /\ UNCHANGED clientVars)
    /\ WF_vars(calleeAlive /\ FirstAnswer /\ UNCHANGED clientVars)
    /\ \A timer \in {"H", "I", "L"} :
          WF_vars(calleeAlive /\ InviteGone /\ ServerTimerEnds(timer)
                  /\ UNCHANGED clientVars)
    /\ WF_vars(calleeAlive /\ Give200Up /\ UNCHANGED clientVars)
    /\ WF_vars(calleeAlive /\ CalleeByeDone /\ UNCHANGED clientVars)
    /\ WF_vars(calleeAlive /\ CalleeDialogTerminated /\ UNCHANGED clientVars)

Fairness == ClientFairness /\ ServerFairness

FairSpec == Spec /\ Fairness

-----------------------------------------------------------------------------
(***************************************************************************)
(* Safety.                                                                 *)
(***************************************************************************)

\* Every variable has the type its module gives it, and the links carry the
\* messages their readers know.
TypeOK ==
    /\ ClientTypeOK
    /\ ServerTypeOK
    /\ toServer \in LinkOf(ToServerMsg)
    /\ toClient \in LinkOf(ToClientMsg)

\* However an answer, a decline, a CANCEL and the repair timer race, the
\* INVITE gets one final response (ist_send_new_response).
SingleFinal == \A f, g \in finalsSent : f = g

\* The caller's op is told no final response but the callee's, and none is on
\* its way: retransmissions, 503s of the repair timer and responses that come
\* too late included.
OutcomeAgreement ==
    /\ callerFinals \subseteq finalsSent
    /\ Contents(toClient) \cap Final \subseteq finalsSent

\* The callee's dialog takes itself for acknowledged (belle_sip_dialog_
\* handle_ack) only if the caller's op acknowledged the call.
AckCausality == calleeAcked => uac.acked

\* A client transaction that lives always has a timer or a channel event that
\* will end it, also after its channel was lost.
NoStuckClient ==
    /\ ictState = "CALLING" => "B" \in ictTimers
    /\ ictState = "COMPLETED" => "D" \in ictTimers
    /\ ictState = "ACCEPTED" => "M" \in ictTimers
    /\ ClientLive /\ ictChannel = "none" => "repair" \in ictTimers

\* The same of the server transaction, once it answered or lost its channel.
NoStuckServer ==
    /\ istState = "COMPLETED" => "H" \in istTimers
    /\ istState = "CONFIRMED" => "I" \in istTimers
    /\ istState = "ACCEPTED" => "L" \in istTimers
    /\ istState = "PROCEEDING" /\ istChannel = "none" => "repair" \in istTimers

\* A call that the caller's dialog has confirmed but its op does not want is
\* being hung up: an acceptance that crosses a hang-up is not forgotten
\* (SalCallOp::processResponseCb, belle_sip_dialog_check_ack_sent).
UnwantedCallHungUp ==
    uac.state = "CONFIRMED" /\ callerOp # "Active" => byeSent

\* The callee's dialog, once confirmed, is acknowledged, repeats its 200 or
\* is being hung up: it never waits for an ACK without a timer.
AckAwaited == uas.state = "CONFIRMED" /\ uas.needsAck => uas.retrans \/ calleeBye

\* The transaction outlives the INVITE's repetitions (timers H, I, L): the
\* callee's application is offered one call.
NoGhostCall == offered <= 1

\* When nothing is in flight the two ops do not hold a call the other has
\* given up.
NoHalfOpenCall ==
    toServer = EmptyLink /\ toClient = EmptyLink =>
        /\ callerOp = "Active" => calleeOp = "Active"
        /\ calleeOp = "Active" /\ calleeAcked /\ ~calleeBye => callerOp = "Active"

\* A retransmitted INVITE finds a transaction that can answer it, whatever
\* became of its channel (ist_on_request_retransmission).
CalleeSurvives == calleeAlive

\* An acknowledged dialog waits for an ACK again only if the application
\* answers again: "REINVITE case, ack needed by both uas and uac"
\* (belle_sip_dialog_update) is for re-INVITEs, and this call sends none.
AckIsFinal ==
    [][calleeAcked /\ ~uas.needsAck /\ uas'.needsAck => Accept \/ Decline]_vars

-----------------------------------------------------------------------------
(***************************************************************************)
(* Liveness.                                                               *)
(***************************************************************************)

\* A call, however it goes, ends both its transactions.
ClientSettles == ictState # "NULL" ~> ictState = "TERMINATED"
ServerSettles == istState # "NULL" ~> istState = "TERMINATED"

\* "The Op must be kept for the time of the transaction in case a response is
\* received later" (SalCallOp::terminate), and no longer: an op that is hung up
\* is released.
OpReleased == callerOp = "Terminating" ~> callerOp = "Terminated"

\* As long as no CANCEL is involved, whose answer takes the op's dialog away,
\* an op that is hung up is released.
UncancelledOpReleased ==
    callerOp = "Terminating" ~> callerOp = "Terminated" \/ cancel # "none"

\* A call the callee accepted is held by both sides or ends on both.
AcceptedCallShared ==
    calleeOp = "Active" ~> callerOp = "Active" \/ calleeOp = "Terminated"

-----------------------------------------------------------------------------
(***************************************************************************)
(* Why OutcomeAgreement and AckCausality hold: the invariant that every    *)
(* step preserves, by named parts.                                         *)
(***************************************************************************)

\* Nothing was decided before the transaction left PROCEEDING.
UndecidedInv == istState \in {"NULL", "PROCEEDING"} => finalsSent = {}

\* What a retransmission can send was decided: by the transaction (G, a
\* repeated INVITE), or by the dialog (the 200Ok timer).
RepeatedInv ==
    /\ istLast \in Final => istLast \in finalsSent
    /\ uas.retrans => "200" \in finalsSent

\* An ACK of the 2xx that was sent or arrived comes from a dialog that sent
\* it, for a 2xx its op was told of; and that dialog is not confirmed again.
AckInv ==
    /\ "ACK2xx" \in Contents(toServer) => uac.acked
    /\ calleeAcked => uac.acked
    /\ uac.acked => /\ ictState \in {"ACCEPTED", "TERMINATED"}
                    /\ "200" \in callerFinals

\* The invariant of the outcome whatever the network and the channels do.
OutcomeInv ==
    /\ TypeOK
    /\ SingleFinal
    /\ UndecidedInv
    /\ RepeatedInv
    /\ OutcomeAgreement
    /\ AckInv

-----------------------------------------------------------------------------
(***************************************************************************)
(* Why UnwantedCallHungUp, NoGhostCall and NoHalfOpenCall hold: what ties  *)
(* the caller's op to its dialog, the callee's op to its own, and both to  *)
(* what is in flight.                                                      *)
(***************************************************************************)

\* An op that hung up, or was told that the call is over, wants no call again.
Ended == callerOp \in {"Terminating", "Terminated"}

\* The caller: only an accepted transaction has a confirmed dialog, an active
\* op holds that dialog and acknowledged it, and whoever cancelled or hung up
\* does not want the call.
CallerInv ==
    /\ uac.state = "CONFIRMED" => /\ ictState \in {"ACCEPTED", "TERMINATED"}
                                  /\ uac.acked \/ Ended
    /\ callerOp = "Active" => uac.state = "CONFIRMED" /\ uac.acked /\ linked
    /\ cancel = "sent" => Ended
    /\ byeSent => Ended
    /\ "BYE" \in Contents(toServer) => Ended

\* The INVITE was handed to a channel.
Invited == ictState \notin {"NULL", "INIT"}

\* The callee does nothing before the INVITE left and arrived.
InvitedInv ==
    /\ "INVITE" \in Contents(toServer) => Invited
    /\ \/ istState # "NULL" /\ Invited
       \/ /\ istState = "NULL" /\ istTimers = {} /\ istChannel = "none"
          /\ calleeOp = "none" /\ uas.state = "none" /\ ~uas.retrans

\* An accepted call has a dialog that is confirmed or over; one that is over,
\* or that the op gave up, was hung up by the callee or is not wanted by the
\* caller any more.
HungUpBy ==
    /\ uas.state = "TERMINATED" \/ calleeOp # "Active" => calleeBye \/ Ended
    /\ uas.state = "TERMINATED" /\ calleeOp = "Active" => calleeBye

\* The callee: its dialog is early as long as its transaction is, confirmed
\* only by its 200; it sends a BYE only of a call it accepted.
CalleeInv ==
    /\ istState = "PROCEEDING" => calleeOp = "Early" /\ uas.state \in {"NULL", "EARLY"}
    /\ uas.state = "CONFIRMED" => "200" \in finalsSent
    /\ "200" \in finalsSent => /\ calleeOp \notin {"none", "Early"}
                               /\ uas.state \in {"CONFIRMED", "TERMINATED"}
                               /\ HungUpBy
    /\ calleeBye => "200" \in finalsSent
    /\ "BYE" \in Contents(toClient) => calleeBye

\* The invariant of a call whatever the network and the channels do.
CallInv ==
    /\ OutcomeInv
    /\ CallerInv
    /\ UnwantedCallHungUp
    /\ InvitedInv
    /\ CalleeInv

\* m is on the link at most once.
Once(link, m) == \A i, j \in DOMAIN link : link[i] = m /\ link[j] = m => i = j

\* Why one call is offered: over UDP no INVITE comes any more once the server
\* transaction ended, over TCP the INVITE is sent once and read once.
OfferedInv ==
    /\ offered <= 1
    /\ ~Reliable /\ istState = "TERMINATED" => InviteGone
    /\ Reliable => /\ "A" \notin ictTimers
                   /\ Once(toServer, "INVITE")
                   /\ istState # "NULL" => "INVITE" \notin Contents(toServer)

\* m is on the link, and n behind it.
Follows(link, m, n) ==
    \E i, j \in DOMAIN link : i < j /\ link[i] = m /\ link[j] = n

\* On connections that do not fail, what one side knows and the other does
\* not is in flight: the 200 to a caller that waits, the callee's BYE, behind
\* that 200, to an op that is active or may become so, the caller's BYE to a
\* call it acknowledged and ended.
InFlightInv ==
    /\ ictChannel # "error"
    /\ istChannel # "error"
    /\ Waiting /\ "200" \in finalsSent => "200" \in Contents(toClient)
    /\ Waiting /\ calleeBye => Follows(toClient, "200", "BYE")
    /\ callerOp = "Active" /\ calleeBye => "BYE" \in Contents(toClient)
    /\ uac.acked /\ callerOp # "Active"
          => calleeBye \/ "BYE" \in Contents(toServer) \/ calleeOp # "Active"

-----------------------------------------------------------------------------
(***************************************************************************)
(* The abstract handshake this call implements.                            *)
(***************************************************************************)
Handshake == INSTANCE CallAgreement WITH
    decided <- finalsSent, learned <- callerFinals, confirmed <- calleeAcked,
    Outcomes <- Final, Accepting <- Success

ImplementsHandshake == Handshake!Spec
=============================================================================
