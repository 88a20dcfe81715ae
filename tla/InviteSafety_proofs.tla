------------------------- MODULE InviteSafety_proofs ------------------------
(***************************************************************************)
(* What a call keeps of its ops, its dialogs and its timers, on top of the *)
(* outcome of InviteCall_proofs: every side has a timer that will end what *)
(* it waits for, an unwanted call is hung up, a call is offered once, and  *)
(* on connections that do not fail no side holds a call the other gave up. *)
(***************************************************************************)
EXTENDS InviteCall_proofs

-----------------------------------------------------------------------------
(***************************************************************************)
(* Something always ends a wait.  These are inductive as they stand.       *)
(***************************************************************************)

\* The caller's handlers start a timer with every state that waits
\* (ict_send_request, ict_on_response) and with a lost channel.
LEMMA ClientKeepsTimers ==
    ASSUME NoStuckClient, ClientStep
    PROVE  NoStuckClient'
<1> USE DEF NoStuckClient, ClientLive
<1>1. CASE Call
  BY <1>1 DEF Call, IctSendRequest, SendToServer, ictVars, callerVars
<1>2. CASE ClientChannelReady
  BY <1>2 DEF ClientChannelReady, IctSendRequest, SendToServer, callerVars
<1>3. CASE ClientChannelFails
  BY <1>3, BrokenFacts DEF ClientChannelFails, callerVars
<1>4. CASE ClientChannelErrorTransient
  BY <1>4 DEF ClientChannelErrorTransient, Release, CancelAbandoned, Transient, links
<1>5. CASE ClientChannelErrorFinal
  BY <1>5 DEF ClientChannelErrorFinal, TerminateClient, EndTransaction, Release, CancelAbandoned, Transient, links
<1>6. CASE TimerA
  BY <1>6 DEF TimerA, SendToServer, callerVars
<1>7. CASE TimerB
  BY <1>7 DEF TimerB, EndTransaction, Release, links
<1>8. CASE \E timer \in {"D", "M", "repair"} : TimerEnds(timer)
  BY <1>8 DEF TimerEnds, TerminateClient, EndTransaction, Release, links
<1>9. CASE CancelTimeout
  BY <1>9 DEF CancelTimeout, Release, ictVars, links
<1>10. CASE HangUp
  BY <1>10 DEF HangUp, SendToServer
<1>11. CASE CallerByeDone
  BY <1>11 DEF CallerByeDone, ictVars, links
<1>12. CASE CallerDialogTerminated
  BY <1>12 DEF CallerDialogTerminated, Release, ictVars, links
<1>13. CASE ClientReceive
  <2>1. CASE RecvStateless
    BY <2>1 DEF RecvStateless, clientVars, ictVars, callerVars
  <2>2. CASE \E code \in Provisional : RecvProvisional(code)
    BY <2>2 DEF RecvProvisional, Response, Waiting, SendToServer, Reassociated
  <2>3. CASE \E code \in Failure : RecvReject(code)
    BY <2>3 DEF RecvReject, Response, Waiting, SendToServer, Reassociated, Release
  <2>4. CASE \E code \in Failure : RecvRejectAgain(code)
    BY <2>4 DEF RecvRejectAgain, Response, SendToServer, Reassociated, callerVars
  <2>5. CASE \E code \in Success : RecvAccept(code)
    BY <2>5 DEF RecvAccept, Response, Waiting, SendToServer, Reassociated, HangUpAccepted
  <2>6. CASE \E code \in Success : RecvAcceptAgain(code)
    BY <2>6 DEF RecvAcceptAgain, Response, SendToServer, Reassociated, HangUpAccepted
  <2>7. CASE \E code \in Codes : RecvIgnored(code)
    BY <2>7 DEF RecvIgnored, Response, Reassociated, callerVars
  <2>8. CASE RecvCancelAnswer
    BY <2>8 DEF RecvCancelAnswer, ictVars
  <2>9. CASE RecvByeFromCallee
    BY <2>9 DEF RecvByeFromCallee, ictVars
  <2> QED BY <1>13, <2>1, <2>2, <2>3, <2>4, <2>5, <2>6, <2>7, <2>8, <2>9 DEF ClientReceive
<1> QED BY <1>1, <1>2, <1>3, <1>4, <1>5, <1>6, <1>7, <1>8, <1>9, <1>10, <1>11, <1>12, <1>13 DEF ClientStep

\* The callee's handlers do so too: answering leaves a transaction with a
\* channel and, after a final response, with its timer.
LEMMA ResponseKeepsTimers ==
    ASSUME NoStuckServer, NEW code \in Codes, NEW timers, NEW link,
           istTimers \subseteq timers \cup {"G", "repair"},
           SendResponse(code, timers, link)
    PROVE  NoStuckServer'
BY DEF NoStuckServer, SendResponse, ResponseChannel, ResponseTimers, Codes,
       Provisional, Final, Success, Failure

\* The answers of the callee.
LEMMA ResponseCodes == {"180", "200", "486", "487", "503"} \subseteq Codes
BY DEF Codes, Provisional, Final, Success, Failure

LEMMA ServerKeepsTimers ==
    ASSUME NoStuckServer, ServerStep
    PROVE  NoStuckServer'
<1> USE DEF NoStuckServer
<1>1. CASE ServerReceive
  <2>1. CASE RecvInvite
    BY <2>1 DEF RecvInvite, Request, SendToClient
  <2>2. CASE RecvInviteAsNew
    BY <2>2 DEF RecvInviteAsNew, Request, istVars
  <2>3. CASE RecvInviteAgain
    BY <2>3 DEF RecvInviteAgain, Request, SendToClient, istVars, calleeVars
  <2>4. CASE RecvAck
    BY <2>4 DEF RecvAck, Request, TerminateServer, calleeVars
  <2>5. CASE RecvAck2xx
    BY <2>5 DEF RecvAck2xx, Request, istVars
  <2>6. CASE RecvCancel
    BY <2>6, ResponseKeepsTimers, ResponseCodes DEF RecvCancel, Request, SendToClient, istVars
  <2>7. CASE RecvByeFromCaller
    BY <2>7 DEF RecvByeFromCaller, Request, istVars
  <2> QED BY <1>1, <2>1, <2>2, <2>3, <2>4, <2>5, <2>6, <2>7 DEF ServerReceive
<1>2. CASE Ring
  BY <1>2, ResponseKeepsTimers, ResponseCodes DEF Ring
<1>3. CASE Accept
  BY <1>3, ResponseKeepsTimers, ResponseCodes DEF Accept, Answer
<1>4. CASE Decline
  BY <1>4, ResponseKeepsTimers, ResponseCodes DEF Decline, Answer
<1>5. CASE CalleeHangUp
  BY <1>5 DEF CalleeHangUp, SendToClient, istVars
<1>6. CASE TimerG
  BY <1>6 DEF TimerG, SendToClient, calleeVars
<1>7. CASE \E timer \in {"H", "I", "L"} : InviteGone /\ ServerTimerEnds(timer)
  BY <1>7 DEF ServerTimerEnds, TerminateServer, calleeVars, links
<1>8. CASE ServerRepairTimer
  BY <1>8, ResponseKeepsTimers, ResponseCodes DEF ServerRepairTimer
<1>9. CASE Retransmit200
  BY <1>9 DEF Retransmit200, SendToClient, serverVars, istVars, calleeVars
<1>10. CASE Give200Up
  BY <1>10 DEF Give200Up, SendToClient, istVars
<1>11. CASE CalleeByeDone
  BY <1>11 DEF CalleeByeDone, istVars, links
<1>12. CASE CalleeDialogTerminated
  BY <1>12 DEF CalleeDialogTerminated, istVars, links
<1>13. CASE ServerChannelFails
  BY <1>13, BrokenFacts DEF ServerChannelFails, calleeVars
<1>14. CASE ServerChannelError
  BY <1>14 DEF ServerChannelError, TerminateServer, calleeVars, links
<1> QED BY <1>1, <1>2, <1>3, <1>4, <1>5, <1>6, <1>7, <1>8, <1>9, <1>10, <1>11, <1>12, <1>13, <1>14 DEF ServerStep

\* A confirmed dialog that needs the ACK repeats its 200 until Give200Up hangs
\* up (belle_sip_dialog_update, dialog_on_200Ok_end).
LEMMA ServerKeepsAwaiting ==
    ASSUME ServerTypeOK, AckAwaited, ServerStep
    PROVE  AckAwaited'
<1> USE DEF AckAwaited, ServerTypeOK, UasDialog
<1>1. CASE ServerReceive
  <2>1. CASE RecvInvite
    BY <2>1 DEF RecvInvite, Request, SendToClient
  <2>2. CASE RecvInviteAsNew
    BY <2>2 DEF RecvInviteAsNew, Request, istVars
  <2>3. CASE RecvInviteAgain
    BY <2>3 DEF RecvInviteAgain, Request, SendToClient, istVars, calleeVars
  <2>4. CASE RecvAck
    BY <2>4 DEF RecvAck, Request, TerminateServer, calleeVars
  <2>5. CASE RecvAck2xx
    BY <2>5 DEF RecvAck2xx, Request, istVars
  <2>6. CASE RecvCancel
    BY <2>6 DEF RecvCancel, Request, SendToClient, istVars, SendResponse, Updated
  <2>7. CASE RecvByeFromCaller
    BY <2>7 DEF RecvByeFromCaller, Request, istVars
  <2> QED BY <1>1, <2>1, <2>2, <2>3, <2>4, <2>5, <2>6, <2>7 DEF ServerReceive
<1>2. CASE Ring
  BY <1>2 DEF Ring, SendResponse, Updated
<1>3. CASE Accept
  BY <1>3 DEF Accept, Answer, SendResponse, Updated
<1>4. CASE Decline
  BY <1>4 DEF Decline, Answer, SendResponse, Updated
<1>5. CASE CalleeHangUp
  BY <1>5 DEF CalleeHangUp, SendToClient, istVars
<1>6. CASE TimerG
  BY <1>6 DEF TimerG, SendToClient, calleeVars
<1>7. CASE \E timer \in {"H", "I", "L"} : InviteGone /\ ServerTimerEnds(timer)
  BY <1>7 DEF ServerTimerEnds, TerminateServer, calleeVars, links
<1>8. CASE ServerRepairTimer
  BY <1>8 DEF ServerRepairTimer, SendResponse, Updated
<1>9. CASE Retransmit200
  BY <1>9 DEF Retransmit200, SendToClient, serverVars, istVars, calleeVars
<1>10. CASE Give200Up
  BY <1>10 DEF Give200Up, SendToClient, istVars
<1>11. CASE CalleeByeDone
  BY <1>11 DEF CalleeByeDone, istVars, links
<1>12. CASE CalleeDialogTerminated
  BY <1>12 DEF CalleeDialogTerminated, istVars, links
<1>13. CASE ServerChannelFails
  BY <1>13, BrokenFacts DEF ServerChannelFails, calleeVars
<1>14. CASE ServerChannelError
  BY <1>14 DEF ServerChannelError, TerminateServer, calleeVars, links
<1> QED BY <1>1, <1>2, <1>3, <1>4, <1>5, <1>6, <1>7, <1>8, <1>9, <1>10, <1>11, <1>12, <1>13, <1>14 DEF ServerStep

\* No client transaction that lives is without a timer or a channel event,
\* whatever failed.
THEOREM ClientNeverStuck == Spec => []NoStuckClient
<1>1. Init => NoStuckClient
  BY DEF Init, ClientInit, NoStuckClient, ClientLive
<1>2. NoStuckClient /\ [Next]_vars => NoStuckClient'
  <2>1. NoStuckClient /\ ClientStep => NoStuckClient'
    BY ClientKeepsTimers
  <2>2. NoStuckClient /\ (ServerStep \/ Lose \/ UNCHANGED vars) => NoStuckClient'
    BY DEF ServerStep, Lose, vars, clientVars, ictVars, NoStuckClient, ClientLive
  <2> QED BY <2>1, <2>2 DEF Next
<1> QED BY <1>1, <1>2, PTL DEF Spec

\* No server transaction that answered, or lost its channel, is without one.
THEOREM ServerNeverStuck == Spec => []NoStuckServer
<1>1. Init => NoStuckServer
  BY DEF Init, ServerInit, NoStuckServer
<1>2. NoStuckServer /\ [Next]_vars => NoStuckServer'
  <2>1. NoStuckServer /\ ServerStep => NoStuckServer'
    BY ServerKeepsTimers
  <2>2. NoStuckServer /\ (ClientStep \/ Lose \/ UNCHANGED vars) => NoStuckServer'
    BY DEF ClientStep, Lose, vars, serverVars, istVars, NoStuckServer
  <2> QED BY <2>1, <2>2 DEF Next
<1> QED BY <1>1, <1>2, PTL DEF Spec

\* No dialog waits for its ACK without repeating the 200 or being hung up.
THEOREM AckIsAwaited == Spec => []AckAwaited
<1>1. Init => AckAwaited
  BY DEF Init, ServerInit, AckAwaited
<1>2. TypeOK /\ AckAwaited /\ [Next]_vars => AckAwaited'
  <2>1. TypeOK /\ AckAwaited /\ ServerStep => AckAwaited'
    BY ServerKeepsAwaiting DEF TypeOK
  <2>2. AckAwaited /\ (ClientStep \/ Lose \/ UNCHANGED vars) => AckAwaited'
    BY DEF ClientStep, Lose, vars, serverVars, calleeVars, AckAwaited
  <2> QED BY <2>1, <2>2 DEF Next
<1> QED BY <1>1, <1>2, TypeCorrect, PTL DEF Spec

-----------------------------------------------------------------------------
(***************************************************************************)
(* The caller's op and its dialog.                                         *)
(***************************************************************************)

\* Everything the caller's side does keeps CallerInv, and an op that ended
\* stays ended.
LEMMA ClientKeepsCaller ==
    ASSUME ClientTypeOK, LinksTypeOK, CallerInv, ClientStep
    PROVE  CallerInv' /\ (Ended => Ended')
<1> USE LinksCarry, LinksTyped
    DEF CallerInv, Ended, LinksTypeOK, ToServerMsg, Requests, ClientTypeOK, UacDialog
<1>1. CASE Call
  BY <1>1 DEF Call, IctSendRequest, SendToServer, ictVars, callerVars
<1>2. CASE ClientChannelReady
  BY <1>2 DEF ClientChannelReady, IctSendRequest, SendToServer, callerVars
<1>3. CASE ClientChannelFails
  BY <1>3, BrokenFacts DEF ClientChannelFails, callerVars
<1>4. CASE ClientChannelErrorTransient
  BY <1>4 DEF ClientChannelErrorTransient, Release, CancelAbandoned, Transient, links
<1>5. CASE ClientChannelErrorFinal
  BY <1>5 DEF ClientChannelErrorFinal, TerminateClient, EndTransaction, Release, CancelAbandoned, Transient, links
<1>6. CASE TimerA
  BY <1>6 DEF TimerA, SendToServer, callerVars
<1>7. CASE TimerB
  BY <1>7 DEF TimerB, EndTransaction, Release, links
<1>8. CASE \E timer \in {"D", "M", "repair"} : TimerEnds(timer)
  BY <1>8 DEF TimerEnds, TerminateClient, EndTransaction, Release, links
<1>9. CASE CancelTimeout
  BY <1>9 DEF CancelTimeout, Release, ictVars, links
<1>10. CASE HangUp
  BY <1>10 DEF HangUp, SendToServer
<1>11. CASE CallerByeDone
  BY <1>11 DEF CallerByeDone, ictVars, links
<1>12. CASE CallerDialogTerminated
  BY <1>12 DEF CallerDialogTerminated, Release, ictVars, links
<1>13. CASE ClientReceive
  <2>1. CASE RecvStateless
    BY <2>1 DEF RecvStateless, clientVars, ictVars, callerVars
  <2>2. CASE \E code \in Provisional : RecvProvisional(code)
    BY <2>2 DEF RecvProvisional, Response, Waiting, SendToServer, Reassociated
  <2>3. CASE \E code \in Failure : RecvReject(code)
    BY <2>3 DEF RecvReject, Response, Waiting, SendToServer, Reassociated, Release
  <2>4. CASE \E code \in Failure : RecvRejectAgain(code)
    BY <2>4 DEF RecvRejectAgain, Response, SendToServer, Reassociated, callerVars
  <2>5. CASE \E code \in Success : RecvAccept(code)
    <3>1. /\ ictState' = "ACCEPTED" /\ cancel' = cancel
          /\ ictState \in {"CALLING", "PROCEEDING"}
      BY <2>5 DEF RecvAccept, Waiting
    <3>2. CASE /\ callerOp = "Early" /\ callerOp' = "Active" /\ byeSent' = byeSent
               /\ linked' = TRUE
               /\ uac' = [state |-> "CONFIRMED", needsAck |-> FALSE, acked |-> TRUE]
               /\ Contents(toServer') \subseteq Contents(toServer) \cup {"ACK2xx"}
      BY <3>1, <3>2
    <3>3. CASE callerOp # "Early" /\ callerOp' = callerOp
      BY <3>1, <3>3 DEF OpStates
    <3>4. CASE callerOp = "Early"
      BY <2>5, <3>2, <3>4, ZenonT(40) DEF RecvAccept, SendToServer
    <3> QED BY <2>5, <3>3, <3>4 DEF RecvAccept
  <2>6. CASE \E code \in Success : RecvAcceptAgain(code)
    <3>1. UNCHANGED <<ictState, callerOp, cancel>> /\ ictState = "ACCEPTED"
      BY <2>6 DEF RecvAcceptAgain
    <3>2. CASE /\ UNCHANGED <<uac, linked, byeSent>>
               /\ \/ Contents(toServer') \subseteq Contents(toServer) \cup {"ACK2xx"}
                  \/ Ended
      BY <3>1, <3>2
    <3>3. CASE ~uac.acked /\ uac.state = "CONFIRMED"
      BY <2>6, <3>1, <3>3 DEF RecvAcceptAgain
    <3> QED BY <2>6, <3>2, <3>3 DEF RecvAcceptAgain, SendToServer
  <2>7. CASE \E code \in Codes : RecvIgnored(code)
    BY <2>7 DEF RecvIgnored, Response, Reassociated, callerVars
  <2>8. CASE RecvCancelAnswer
    BY <2>8 DEF RecvCancelAnswer, ictVars
  <2>9. CASE RecvByeFromCallee
    BY <2>9 DEF RecvByeFromCallee, ictVars
  <2> QED BY <1>13, <2>1, <2>2, <2>3, <2>4, <2>5, <2>6, <2>7, <2>8, <2>9 DEF ClientReceive
<1> QED BY <1>1, <1>2, <1>3, <1>4, <1>5, <1>6, <1>7, <1>8, <1>9, <1>10, <1>11, <1>12, <1>13 DEF ClientStep

-----------------------------------------------------------------------------
(***************************************************************************)
(* The callee acts on an INVITE that left.                                 *)
(***************************************************************************)

\* The INVITE leaves with the state that waits for its answer.
LEMMA ClientKeepsInvited ==
    ASSUME LinksTypeOK, InvitedInv, ClientStep
    PROVE  InvitedInv'
<1> UNCHANGED <<istState, istTimers, istChannel, calleeOp, uas>>
  BY DEF ClientStep, serverVars, istVars, calleeVars
<1> USE LinksCarry, LinksTyped
    DEF InvitedInv, Invited, LinksTypeOK, ToServerMsg, Requests
<1>1. CASE Call
  BY <1>1 DEF Call, IctSendRequest, SendToServer, ictVars, callerVars
<1>2. CASE ClientChannelReady
  BY <1>2 DEF ClientChannelReady, IctSendRequest, SendToServer, callerVars
<1>3. CASE ClientChannelFails
  BY <1>3, BrokenFacts DEF ClientChannelFails, callerVars
<1>4. CASE ClientChannelErrorTransient
  BY <1>4 DEF ClientChannelErrorTransient, Release, CancelAbandoned, Transient, links
<1>5. CASE ClientChannelErrorFinal
  BY <1>5 DEF ClientChannelErrorFinal, TerminateClient, EndTransaction, Release, CancelAbandoned, Transient, links
<1>6. CASE TimerA
  BY <1>6 DEF TimerA, SendToServer, callerVars
<1>7. CASE TimerB
  BY <1>7 DEF TimerB, EndTransaction, Release, links
<1>8. CASE \E timer \in {"D", "M", "repair"} : TimerEnds(timer)
  BY <1>8 DEF TimerEnds, TerminateClient, EndTransaction, Release, links
<1>9. CASE CancelTimeout
  BY <1>9 DEF CancelTimeout, Release, ictVars, links
<1>10. CASE HangUp
  BY <1>10 DEF HangUp, SendToServer
<1>11. CASE CallerByeDone
  BY <1>11 DEF CallerByeDone, ictVars, links
<1>12. CASE CallerDialogTerminated
  BY <1>12 DEF CallerDialogTerminated, Release, ictVars, links
<1>13. CASE ClientReceive
  <2>1. CASE RecvStateless
    BY <2>1 DEF RecvStateless, clientVars, ictVars, callerVars
  <2>2. CASE \E code \in Provisional : RecvProvisional(code)
    BY <2>2 DEF RecvProvisional, Response, Waiting, SendToServer, Reassociated
  <2>3. CASE \E code \in Failure : RecvReject(code)
    BY <2>3 DEF RecvReject, Response, Waiting, SendToServer, Reassociated, Release
  <2>4. CASE \E code \in Failure : RecvRejectAgain(code)
    BY <2>4 DEF RecvRejectAgain, Response, SendToServer, Reassociated, callerVars
  <2>5. CASE \E code \in Success : RecvAccept(code)
    BY <2>5 DEF RecvAccept, Response, Waiting, SendToServer, Reassociated, HangUpAccepted
  <2>6. CASE \E code \in Success : RecvAcceptAgain(code)
    BY <2>6 DEF RecvAcceptAgain, Response, SendToServer, Reassociated, HangUpAccepted
  <2>7. CASE \E code \in Codes : RecvIgnored(code)
    BY <2>7 DEF RecvIgnored, Response, Reassociated, callerVars
  <2>8. CASE RecvCancelAnswer
    BY <2>8 DEF RecvCancelAnswer, ictVars
  <2>9. CASE RecvByeFromCallee
    BY <2>9 DEF RecvByeFromCallee, ictVars
  <2> QED BY <1>13, <2>1, <2>2, <2>3, <2>4, <2>5, <2>6, <2>7, <2>8, <2>9 DEF ClientReceive
<1> QED BY <1>1, <1>2, <1>3, <1>4, <1>5, <1>6, <1>7, <1>8, <1>9, <1>10, <1>11, <1>12, <1>13 DEF ClientStep

\* The callee's first step takes it off the link.
LEMMA ServerKeepsInvited ==
    ASSUME LinksTypeOK, InvitedInv, ServerStep
    PROVE  InvitedInv'
<1> UNCHANGED ictState
  BY DEF ServerStep, clientVars, ictVars
<1> USE LinksCarry DEF InvitedInv, Invited, LinksTypeOK
<1>1. CASE ServerReceive
  <2>1. CASE RecvInvite
    BY <2>1 DEF RecvInvite, Request, SendToClient
  <2>2. CASE RecvInviteAsNew
    BY <2>2 DEF RecvInviteAsNew, Request, istVars
  <2>3. CASE RecvInviteAgain
    BY <2>3 DEF RecvInviteAgain, Request, SendToClient, istVars, calleeVars
  <2>4. CASE RecvAck
    BY <2>4 DEF RecvAck, Request, TerminateServer, calleeVars
  <2>5. CASE RecvAck2xx
    BY <2>5 DEF RecvAck2xx, Request, istVars
  <2>6. CASE RecvCancel
    BY <2>6 DEF RecvCancel, Request, SendToClient, istVars, SendResponse
  <2>7. CASE RecvByeFromCaller
    BY <2>7 DEF RecvByeFromCaller, Request, istVars
  <2> QED BY <1>1, <2>1, <2>2, <2>3, <2>4, <2>5, <2>6, <2>7 DEF ServerReceive
<1>2. CASE Ring
  BY <1>2 DEF Ring, SendResponse
<1>3. CASE Accept
  BY <1>3 DEF Accept, Answer, ServerLive, SendResponse
<1>4. CASE Decline
  BY <1>4 DEF Decline, Answer, ServerLive, SendResponse
<1>5. CASE CalleeHangUp
  BY <1>5 DEF CalleeHangUp, SendToClient, istVars
<1>6. CASE TimerG
  BY <1>6 DEF TimerG, SendToClient, calleeVars
<1>7. CASE \E timer \in {"H", "I", "L"} : InviteGone /\ ServerTimerEnds(timer)
  BY <1>7 DEF ServerTimerEnds, TerminateServer, calleeVars, links
<1>8. CASE ServerRepairTimer
  BY <1>8 DEF ServerRepairTimer, SendResponse
<1>9. CASE Retransmit200
  BY <1>9 DEF Retransmit200, SendToClient, serverVars, istVars, calleeVars
<1>10. CASE Give200Up
  BY <1>10 DEF Give200Up, SendToClient, istVars
<1>11. CASE CalleeByeDone
  BY <1>11 DEF CalleeByeDone, istVars, links
<1>12. CASE CalleeDialogTerminated
  BY <1>12 DEF CalleeDialogTerminated, istVars, links
<1>13. CASE ServerChannelFails
  BY <1>13, BrokenFacts DEF ServerChannelFails, calleeVars
<1>14. CASE ServerChannelError
  BY <1>14 DEF ServerChannelError, TerminateServer, calleeVars, links
<1> QED BY <1>1, <1>2, <1>3, <1>4, <1>5, <1>6, <1>7, <1>8, <1>9, <1>10, <1>11, <1>12, <1>13, <1>14 DEF ServerStep

-----------------------------------------------------------------------------
(***************************************************************************)
(* The callee's op and its dialog.                                         *)
(***************************************************************************)

\* Answering keeps the dialog with its op, whether the response is sent or
\* comes too late: belle_sip_dialog_update runs in both cases.
LEMMA ResponseKeepsCallee ==
    ASSUME ServerTypeOK, LinksTypeOK, UndecidedInv, RepeatedInv, CalleeInv,
           NEW code \in Codes, NEW timers, NEW link \in LinkOf(ToClientMsg),
           "BYE" \in Contents(link) => "BYE" \in Contents(toClient),
           SendResponse(code, timers, link),
           UNCHANGED <<calleeBye, callerOp>>,
           \/ calleeOp' = calleeOp /\ (code = "200" => calleeOp # "Early")
           \/ calleeOp = "Early" /\ calleeOp' = "Active" /\ code = "200"
           \/ code \in Failure /\ "200" \notin finalsSent
    PROVE  CalleeInv'
<1> USE DEF CalleeInv, HungUpBy, Ended, UndecidedInv, RepeatedInv
<1>1. CASE /\ istState = "PROCEEDING"
           /\ toClient' = Send(ResponseChannel, link, code)
           /\ istState' = IF code \in Success THEN "ACCEPTED"
                          ELSE IF code \in Failure THEN "COMPLETED"
                          ELSE "PROCEEDING"
           /\ istLast' = code
           /\ finalsSent' = finalsSent \cup ({code} \cap Final)
           /\ uas' = Updated(uas, code)
  <2>1. /\ finalsSent = {} /\ ~calleeBye
        /\ uas.state \in {"NULL", "EARLY"} /\ calleeOp = "Early"
    BY <1>1
  <2>2. "BYE" \notin Contents(toClient')
    <3>1. code \in ToClientMsg /\ code # "BYE"
      BY DEF ToClientMsg, Codes, Provisional, Final, Success, Failure
    <3>2. Contents(toClient') \subseteq Contents(link) \cup {code}
      BY <1>1, <3>1, SendFacts
    <3> QED BY <2>1, <3>1, <3>2
  <2>3. CASE code = "200"
    <3>1. uas'.state = "CONFIRMED" /\ finalsSent' = {"200"} /\ istState' = "ACCEPTED"
      BY <1>1, <2>1, <2>3 DEF Updated, Final, Success
    <3>2. calleeOp' = "Active"
      BY <2>1, <2>3 DEF Failure
    <3> QED BY <2>1, <2>2, <3>1, <3>2
  <2>4. CASE code # "200"
    <3>1. /\ "200" \notin finalsSent' /\ uas'.state # "CONFIRMED" /\ istState' # "NULL"
          /\ istState' = "PROCEEDING"
                => calleeOp' = "Early" /\ uas'.state \in {"NULL", "EARLY"}
      BY <1>1, <2>1, <2>4
         DEF Updated, Final, Success, Failure, ServerTypeOK, UasDialog
    <3> QED BY <2>1, <2>2, <3>1
  <2> QED BY <2>3, <2>4
<1>2. CASE /\ istState # "PROCEEDING"
           /\ uas' = Updated(uas, istLast)
           /\ toClient' = link
           /\ UNCHANGED <<istState, istLast, finalsSent>>
  <2>1. /\ uas'.state = "CONFIRMED" => uas.state = "CONFIRMED" \/ istLast = "200"
        /\ uas.state \in {"none", "CONFIRMED", "TERMINATED"} => uas'.state = uas.state
    BY <1>2 DEF Updated, ServerTypeOK, UasDialog, Success
  <2>2. istLast = "200" => "200" \in finalsSent
    BY DEF Final, Success
  <2>3. "200" \in finalsSent => calleeOp' = calleeOp
    OBVIOUS
  <2> QED BY <1>2, <2>1, <2>2, <2>3
<1> QED BY <1>1, <1>2 DEF SendResponse

\* Every step of the callee.
LEMMA ServerKeepsCallee ==
    ASSUME ServerTypeOK, LinksTypeOK, UndecidedInv, RepeatedInv, CalleeInv, ServerStep,
           "BYE" \in Contents(toServer) => Ended
    PROVE  CalleeInv'
<1> UNCHANGED callerOp
  BY DEF ServerStep, clientVars, callerVars
<1> USE LinksCarry, LinksTyped
    DEF CalleeInv, HungUpBy, Ended, UndecidedInv, RepeatedInv, LinksTypeOK,
        ToClientMsg, Codes, Provisional, Final, Success, Failure
<1>1. CASE ServerReceive
  <2>1. CASE RecvInvite
    BY <2>1 DEF RecvInvite, Request, SendToClient
  <2>2. CASE RecvInviteAsNew
    BY <2>2 DEF RecvInviteAsNew, Request, istVars
  <2>3. CASE RecvInviteAgain
    BY <2>3 DEF ServerTypeOK, RecvInviteAgain, Request, SendToClient, istVars, calleeVars
  <2>4. CASE RecvAck
    BY <2>4 DEF RecvAck, Request, TerminateServer, calleeVars
  <2>5. CASE RecvAck2xx
    <3>1. /\ UNCHANGED <<istState, finalsSent, calleeOp, calleeBye, toClient>>
          /\ uas'.state = uas.state
      BY <2>5, ZenonT(30) DEF RecvAck2xx, istVars, ServerTypeOK, UasDialog
    <3> QED BY <3>1
  <2>6. CASE RecvCancel
    BY <2>6, ResponseKeepsCallee DEF RecvCancel, Request, SendToClient, istVars
  <2>7. CASE RecvByeFromCaller
    BY <2>7 DEF RecvByeFromCaller, Request, istVars
  <2> QED BY <1>1, <2>1, <2>2, <2>3, <2>4, <2>5, <2>6, <2>7 DEF ServerReceive
<1>2. CASE Ring
  BY <1>2, ResponseKeepsCallee DEF Ring
<1>3. CASE Accept
  BY <1>3, ResponseKeepsCallee DEF Accept, Answer
<1>4. CASE Decline
  BY <1>4, ResponseKeepsCallee DEF Decline, Answer
<1>5. CASE CalleeHangUp
  BY <1>5 DEF CalleeHangUp, SendToClient, istVars
<1>6. CASE TimerG
  BY <1>6 DEF ServerTypeOK, TimerG, SendToClient, calleeVars
<1>7. CASE \E timer \in {"H", "I", "L"} : InviteGone /\ ServerTimerEnds(timer)
  BY <1>7 DEF ServerTimerEnds, TerminateServer, calleeVars, links
<1>8. CASE ServerRepairTimer
  BY <1>8, ResponseKeepsCallee DEF ServerRepairTimer
<1>9. CASE Retransmit200
  BY <1>9 DEF Retransmit200, SendToClient, serverVars, istVars, calleeVars
<1>10. CASE Give200Up
  BY <1>10 DEF Give200Up, SendToClient, istVars
<1>11. CASE CalleeByeDone
  BY <1>11 DEF CalleeByeDone, istVars, links
<1>12. CASE CalleeDialogTerminated
  BY <1>12 DEF CalleeDialogTerminated, istVars, links
<1>13. CASE ServerChannelFails
  BY <1>13, BrokenFacts DEF ServerChannelFails, calleeVars
<1>14. CASE ServerChannelError
  BY <1>14 DEF ServerChannelError, TerminateServer, calleeVars, links
<1> QED BY <1>1, <1>2, <1>3, <1>4, <1>5, <1>6, <1>7, <1>8, <1>9, <1>10, <1>11, <1>12, <1>13, <1>14 DEF ServerStep

-----------------------------------------------------------------------------
(***************************************************************************)
(* The invariant of the call.                                              *)
(***************************************************************************)

\* Whoever leaves a confirmed dialog sends a BYE.
LEMMA ClientHangsUp ==
    ASSUME ClientTypeOK, CallerInv, UnwantedCallHungUp, ClientStep
    PROVE  UnwantedCallHungUp'
<1> USE DEF CallerInv, Ended, UnwantedCallHungUp, ClientTypeOK, UacDialog
<1>1. CASE Call
  BY <1>1 DEF Call, IctSendRequest, SendToServer, ictVars, callerVars
<1>2. CASE ClientChannelReady
  BY <1>2 DEF ClientChannelReady, IctSendRequest, SendToServer, callerVars
<1>3. CASE ClientChannelFails
  BY <1>3 DEF ClientChannelFails, callerVars
<1>4. CASE ClientChannelErrorTransient
  BY <1>4 DEF ClientChannelErrorTransient, Release, CancelAbandoned, Transient, links
<1>5. CASE ClientChannelErrorFinal
  BY <1>5 DEF ClientChannelErrorFinal, TerminateClient, EndTransaction, Release, CancelAbandoned, Transient, links
<1>6. CASE TimerA
  BY <1>6 DEF TimerA, SendToServer, callerVars
<1>7. CASE TimerB
  BY <1>7 DEF TimerB, EndTransaction, Release, links
<1>8. CASE \E timer \in {"D", "M", "repair"} : TimerEnds(timer)
  BY <1>8 DEF TimerEnds, TerminateClient, EndTransaction, Release, links
<1>9. CASE CancelTimeout
  BY <1>9 DEF CancelTimeout, Release, ictVars, links
<1>10. CASE HangUp
  BY <1>10 DEF HangUp, SendToServer
<1>11. CASE CallerByeDone
  BY <1>11 DEF CallerByeDone, ictVars, links
<1>12. CASE CallerDialogTerminated
  BY <1>12 DEF CallerDialogTerminated, Release, ictVars, links
<1>13. CASE ClientReceive
  <2>1. CASE RecvStateless
    BY <2>1 DEF RecvStateless, clientVars, ictVars, callerVars
  <2>2. CASE \E code \in Provisional : RecvProvisional(code)
    BY <2>2 DEF RecvProvisional, Response, Waiting, SendToServer, Reassociated
  <2>3. CASE \E code \in Failure : RecvReject(code)
    BY <2>3 DEF RecvReject, Response, Waiting, SendToServer, Reassociated, Release
  <2>4. CASE \E code \in Failure : RecvRejectAgain(code)
    BY <2>4 DEF RecvRejectAgain, Response, SendToServer, Reassociated, callerVars
  <2>5. CASE \E code \in Success : RecvAccept(code)
    BY <2>5 DEF RecvAccept, Response, Waiting, SendToServer, Reassociated, HangUpAccepted
  <2>6. CASE \E code \in Success : RecvAcceptAgain(code)
    BY <2>6 DEF RecvAcceptAgain, Response, SendToServer, Reassociated, HangUpAccepted
  <2>7. CASE \E code \in Codes : RecvIgnored(code)
    BY <2>7 DEF RecvIgnored, Response, Reassociated, callerVars
  <2>8. CASE RecvCancelAnswer
    BY <2>8 DEF RecvCancelAnswer, ictVars
  <2>9. CASE RecvByeFromCallee
    <3>1. \/ UNCHANGED <<uac, callerOp, byeSent>>
          \/ uac'.state = "TERMINATED"
      BY <2>9 DEF RecvByeFromCallee
    <3> QED BY <3>1
  <2> QED BY <1>13, <2>1, <2>2, <2>3, <2>4, <2>5, <2>6, <2>7, <2>8, <2>9 DEF ClientReceive
<1> QED BY <1>1, <1>2, <1>3, <1>4, <1>5, <1>6, <1>7, <1>8, <1>9, <1>10, <1>11, <1>12, <1>13 DEF ClientStep

\* Before the call nothing is known.
LEMMA CallInit == Init => CallInv
<1> SUFFICES ASSUME Init PROVE CallInv
  OBVIOUS
<1>1. Contents(toServer) = {} /\ Contents(toClient) = {}
  BY EmptyLinkFacts DEF Init
<1> QED BY <1>1, OutcomeInit
        DEF CallInv, CallerInv, InvitedInv, Invited, CalleeInv, UnwantedCallHungUp, Init,
            ClientInit, ServerInit

\* Each side keeps the parts it can disturb; of the other side's it only
\* needs that reading and losing add nothing to a link.
LEMMA CallStep == CallInv /\ [Next]_vars => CallInv'
<1> SUFFICES ASSUME CallInv, [Next]_vars PROVE CallInv'
  OBVIOUS
<1>1. /\ OutcomeInv /\ CallerInv /\ InvitedInv /\ CalleeInv /\ UnwantedCallHungUp
      /\ ClientTypeOK /\ ServerTypeOK /\ LinksTypeOK
      /\ UndecidedInv /\ RepeatedInv
  BY DEF CallInv, OutcomeInv, TypeOK, LinksTypeOK
<1>2. OutcomeInv'
  BY <1>1, OutcomeStep
<1>3. CASE ClientStep
  <2>1. CallerInv' /\ UnwantedCallHungUp' /\ InvitedInv' /\ (Ended => Ended')
    BY <1>1, <1>3, ClientKeepsCaller, ClientHangsUp, ClientKeepsInvited
  <2>2. Contents(toClient') \subseteq Contents(toClient)
    BY <1>1, <1>3, ClientLearns
  <2>3. CalleeInv'
    BY <1>1, <1>3, <2>1, <2>2
       DEF ClientStep, serverVars, istVars, calleeVars, CalleeInv, HungUpBy
  <2> QED BY <1>2, <2>1, <2>3 DEF CallInv
<1>4. CASE ServerStep
  <2>1. Contents(toServer') \subseteq Contents(toServer)
    BY <1>1, <1>4, ServerConfirms
  <2>2. CallerInv' /\ UnwantedCallHungUp'
    BY <1>1, <1>4, <2>1
       DEF ServerStep, clientVars, ictVars, callerVars, CallerInv, Ended, UnwantedCallHungUp
  <2>3. InvitedInv'
    BY <1>1, <1>4, ServerKeepsInvited
  <2>4. CalleeInv'
    BY <1>1, <1>4, ServerKeepsCallee DEF CallerInv
  <2> QED BY <1>2, <2>2, <2>3, <2>4 DEF CallInv
<1>5. CASE Lose \/ UNCHANGED vars
  <2>1. /\ UNCHANGED <<clientVars, serverVars>>
        /\ Contents(toServer') \subseteq Contents(toServer)
        /\ Contents(toClient') \subseteq Contents(toClient)
    BY <1>1, <1>5, DroppedFacts DEF Lose, LinksTypeOK, vars, links
  <2>2. CallerInv' /\ UnwantedCallHungUp'
    BY <1>1, <2>1 DEF clientVars, ictVars, callerVars, CallerInv, Ended, UnwantedCallHungUp
  <2>3. InvitedInv' /\ CalleeInv'
    BY <1>1, <2>1
       DEF clientVars, ictVars, callerVars, serverVars, istVars, calleeVars, Ended,
           InvitedInv, Invited, CalleeInv, HungUpBy
  <2> QED BY <1>2, <2>2, <2>3 DEF CallInv
<1> QED BY <1>3, <1>4, <1>5 DEF Next

\* The inductive invariant holds of every call.
THEOREM CallInvariant == Spec => []CallInv
<1>1. Init => CallInv
  BY CallInit
<1>2. CallInv /\ [Next]_vars => CallInv'
  BY CallStep
<1> QED BY <1>1, <1>2, PTL DEF Spec

\* An acceptance that crosses a hang-up is hung up, whatever the network and
\* the channels do.
THEOREM UnwantedIsHungUp == Spec => []UnwantedCallHungUp
<1>1. CallInv => UnwantedCallHungUp
  BY DEF CallInv
<1> QED BY <1>1, CallInvariant, PTL

-----------------------------------------------------------------------------
(***************************************************************************)
(* One call is offered: over UDP as long as no channel of the callee       *)
(* fails, because a transaction that lost its channel ends at once.        *)
(***************************************************************************)

\* No channel of the callee failed.
UnbrokenInv ==
    /\ istChannel # "error"
    /\ "repair" \notin istTimers

LEMMA ServerUnbroken ==
    ASSUME ServerTypeOK, UnbrokenInv, MaxServerFailures = 0, ServerStep
    PROVE  UnbrokenInv'
<1> USE DEF UnbrokenInv
<1>0. ASSUME NEW code, NEW link, SendResponse(code, istTimers, link)
      PROVE  UnbrokenInv'
  BY <1>0 DEF SendResponse, ResponseChannel, ResponseTimers
<1>1. CASE ServerReceive
  <2>1. CASE RecvInvite
    BY <2>1 DEF RecvInvite, Request, SendToClient
  <2>2. CASE RecvInviteAsNew
    BY <2>2 DEF RecvInviteAsNew, Request, istVars
  <2>3. CASE RecvInviteAgain
    BY <2>3 DEF RecvInviteAgain, Request, SendToClient, istVars, calleeVars
  <2>4. CASE RecvAck
    BY <2>4 DEF RecvAck, Request, TerminateServer, calleeVars
  <2>5. CASE RecvAck2xx
    BY <2>5 DEF RecvAck2xx, Request, istVars
  <2>6. CASE RecvCancel
    BY <2>6, <1>0 DEF RecvCancel, Request, SendToClient, istVars
  <2>7. CASE RecvByeFromCaller
    BY <2>7 DEF RecvByeFromCaller, Request, istVars
  <2> QED BY <1>1, <2>1, <2>2, <2>3, <2>4, <2>5, <2>6, <2>7 DEF ServerReceive
<1>2. CASE Ring
  BY <1>2, <1>0 DEF Ring
<1>3. CASE Accept
  BY <1>3, <1>0 DEF Accept, Answer
<1>4. CASE Decline
  BY <1>4, <1>0 DEF Decline, Answer
<1>5. CASE CalleeHangUp
  BY <1>5 DEF CalleeHangUp, SendToClient, istVars
<1>6. CASE TimerG
  BY <1>6 DEF TimerG, SendToClient, calleeVars
<1>7. CASE \E timer \in {"H", "I", "L"} : InviteGone /\ ServerTimerEnds(timer)
  BY <1>7 DEF ServerTimerEnds, TerminateServer, calleeVars, links
<1>8. CASE ServerRepairTimer
  BY <1>8 DEF ServerRepairTimer
<1>9. CASE Retransmit200
  BY <1>9 DEF Retransmit200, SendToClient, serverVars, istVars, calleeVars
<1>10. CASE Give200Up
  BY <1>10 DEF Give200Up, SendToClient, istVars
<1>11. CASE CalleeByeDone
  BY <1>11 DEF CalleeByeDone, istVars, links
<1>12. CASE CalleeDialogTerminated
  BY <1>12 DEF CalleeDialogTerminated, istVars, links
<1>13. CASE ServerChannelFails
  BY <1>13 DEF ServerTypeOK, ServerChannelFails, calleeVars
<1>14. CASE ServerChannelError
  BY <1>14 DEF ServerChannelError, TerminateServer, calleeVars, links
<1> QED BY <1>1, <1>2, <1>3, <1>4, <1>5, <1>6, <1>7, <1>8, <1>9, <1>10, <1>11, <1>12, <1>13, <1>14 DEF ServerStep

LEMMA UnbrokenStep ==
    ASSUME MaxServerFailures = 0
    PROVE  CallInv /\ UnbrokenInv /\ [Next]_vars => UnbrokenInv'
<1>1. CallInv /\ UnbrokenInv /\ ServerStep => UnbrokenInv'
  BY ServerUnbroken DEF CallInv, OutcomeInv, TypeOK
<1>2. UnbrokenInv /\ (ClientStep \/ Lose \/ UNCHANGED vars) => UnbrokenInv'
  BY DEF ClientStep, Lose, vars, serverVars, istVars, UnbrokenInv
<1> QED BY <1>1, <1>2 DEF Next

\* Once the INVITE is gone no handler of the caller sends it again.
LEMMA ClientForgetsInvite ==
    ASSUME LinksTypeOK, Invited, InviteGone, ClientStep
    PROVE  InviteGone'
<1> USE LinksCarry, LinksTyped
    DEF Invited, InviteGone, LinksTypeOK, ToServerMsg, Requests
<1>1. CASE Call
  BY <1>1 DEF Call, IctSendRequest, SendToServer, ictVars, callerVars
<1>2. CASE ClientChannelReady
  BY <1>2 DEF ClientChannelReady, IctSendRequest, SendToServer, callerVars
<1>3. CASE ClientChannelFails
  BY <1>3, BrokenFacts DEF ClientChannelFails, callerVars
<1>4. CASE ClientChannelErrorTransient
  BY <1>4 DEF ClientChannelErrorTransient, Release, CancelAbandoned, Transient, links
<1>5. CASE ClientChannelErrorFinal
  BY <1>5 DEF ClientChannelErrorFinal, TerminateClient, EndTransaction, Release, CancelAbandoned, Transient, links
<1>6. CASE TimerA
  BY <1>6 DEF TimerA, SendToServer, callerVars
<1>7. CASE TimerB
  BY <1>7 DEF TimerB, EndTransaction, Release, links
<1>8. CASE \E timer \in {"D", "M", "repair"} : TimerEnds(timer)
  BY <1>8 DEF TimerEnds, TerminateClient, EndTransaction, Release, links
<1>9. CASE CancelTimeout
  BY <1>9 DEF CancelTimeout, Release, ictVars, links
<1>10. CASE HangUp
  BY <1>10 DEF HangUp, SendToServer
<1>11. CASE CallerByeDone
  BY <1>11 DEF CallerByeDone, ictVars, links
<1>12. CASE CallerDialogTerminated
  BY <1>12 DEF CallerDialogTerminated, Release, ictVars, links
<1>13. CASE ClientReceive
  <2>1. CASE RecvStateless
    BY <2>1 DEF RecvStateless, clientVars, ictVars, callerVars
  <2>2. CASE \E code \in Provisional : RecvProvisional(code)
    BY <2>2 DEF RecvProvisional, Response, Waiting, SendToServer, Reassociated
  <2>3. CASE \E code \in Failure : RecvReject(code)
    BY <2>3 DEF RecvReject, Response, Waiting, SendToServer, Reassociated, Release
  <2>4. CASE \E code \in Failure : RecvRejectAgain(code)
    BY <2>4 DEF RecvRejectAgain, Response, SendToServer, Reassociated, callerVars
  <2>5. CASE \E code \in Success : RecvAccept(code)
    BY <2>5 DEF RecvAccept, Response, Waiting, SendToServer, Reassociated, HangUpAccepted
  <2>6. CASE \E code \in Success : RecvAcceptAgain(code)
    BY <2>6 DEF RecvAcceptAgain, Response, SendToServer, Reassociated, HangUpAccepted
  <2>7. CASE \E code \in Codes : RecvIgnored(code)
    BY <2>7 DEF RecvIgnored, Response, Reassociated, callerVars
  <2>8. CASE RecvCancelAnswer
    BY <2>8 DEF RecvCancelAnswer, ictVars
  <2>9. CASE RecvByeFromCallee
    BY <2>9 DEF RecvByeFromCallee, ictVars
  <2> QED BY <1>13, <2>1, <2>2, <2>3, <2>4, <2>5, <2>6, <2>7, <2>8, <2>9 DEF ClientReceive
<1> QED BY <1>1, <1>2, <1>3, <1>4, <1>5, <1>6, <1>7, <1>8, <1>9, <1>10, <1>11, <1>12, <1>13 DEF ClientStep

\* On a connection a message that is there once is not doubled by sending
\* another, ...
LEMMA SendsOnce ==
    ASSUME NEW Msg, NEW channel, NEW link \in LinkOf(Msg), NEW m \in Msg, NEW n,
           Reliable, Once(link, n), m # n \/ n \notin Contents(link)
    PROVE  Once(Send(channel, link, m), n)
<1>1. CASE channel = "error"
  BY <1>1 DEF Send
<1>2. CASE channel # "error"
  <2>1. link \in Seq(Msg) /\ Send(channel, link, m) = Append(link, m)
    BY <1>2 DEF LinkOf, Send, Put
  <2>2. /\ Len(link) \in Nat /\ DOMAIN link = 1..Len(link)
        /\ DOMAIN Append(link, m) = 1..Len(link) + 1
        /\ \A i \in 1..Len(link) : Append(link, m)[i] = link[i]
        /\ Append(link, m)[Len(link) + 1] = m
    BY <2>1
  <2>3. CASE m # n
    BY <2>1, <2>2, <2>3 DEF Once
  <2>4. CASE n \notin Contents(link)
    BY <2>1, <2>2, <2>4 DEF Once, Contents
  <2> QED BY <2>3, <2>4
<1> QED BY <1>1, <1>2

\* ... and it is gone when it was read.
LEMMA ReadsOnce ==
    ASSUME NEW Msg, NEW link \in LinkOf(Msg), NEW m, NEW n,
           Reliable, Once(link, n), Arriving(link, m), NEW rest \in After(link, m)
    PROVE  Once(rest, n) /\ (m = n => n \notin Contents(rest))
<1>1. link \in Seq(Msg) /\ link # << >> /\ Head(link) = m /\ rest = Tail(link)
  BY DEF LinkOf, Arriving, After
<1>2. /\ Len(link) \in Nat \ {0} /\ DOMAIN link = 1..Len(link)
      /\ Len(rest) = Len(link) - 1 /\ DOMAIN rest = 1..Len(rest)
      /\ \A i \in 1..Len(rest) : rest[i] = link[i + 1]
      /\ link[1] = m
  BY <1>1, HeadTailProperties, EmptySeq
<1>3. \A i \in DOMAIN rest : i + 1 \in DOMAIN link /\ i \in Nat
  BY <1>2
<1>4. Once(rest, n)
  BY <1>2, <1>3 DEF Once
<1>5. m = n => n \notin Contents(rest)
  <2>1. ASSUME m = n, NEW i \in 1..Len(rest), rest[i] = n
        PROVE  FALSE
    <3>1. 1 \in DOMAIN link /\ i + 1 \in DOMAIN link /\ i \in Nat
      BY <1>2
    <3>2. link[1] = n /\ link[i + 1] = n
      BY <1>2, <2>1
    <3>3. 1 = i + 1
      BY <3>1, <3>2 DEF Once
    <3> QED BY <3>1, <3>3, <1>2
  <2> QED BY <2>1 DEF Contents
<1> QED BY <1>4, <1>5

\* A connection that breaks leaves everything or nothing.
LEMMA BreaksOnce ==
    ASSUME NEW link, NEW n, Once(link, n), NEW rest \in Broken(link)
    PROVE  Once(rest, n)
<1>1. Once(<< >>, n)
  BY DEF Once
<1> QED BY <1>1 DEF Broken

\* The INVITE of a call over TCP.
SentOnce ==
    /\ "A" \notin ictTimers
    /\ Once(toServer, "INVITE")
    /\ istState # "NULL" => "INVITE" \notin Contents(toServer)

\* The caller sends it with the call, or when its channel is ready.
LEMMA ClientSendsOnce ==
    ASSUME Reliable, LinksTypeOK, InvitedInv, SentOnce, ClientStep
    PROVE  SentOnce'
<1> UNCHANGED istState
  BY DEF ClientStep, serverVars, istVars
<1>0. ASSUME NEW link \in LinkOf(ToServerMsg), Once(link, "INVITE"),
             NEW channel, NEW m \in ToServerMsg,
             m # "INVITE" \/ "INVITE" \notin Contents(link)
      PROVE  Once(Send(channel, link, m), "INVITE")
  BY <1>0, SendsOnce
<1> USE <1>0, LinksCarry, LinksTyped
    DEF SentOnce, InvitedInv, Invited, LinksTypeOK, ToServerMsg, Requests
<1>1. CASE Call
  BY <1>1 DEF Call, IctSendRequest, SendToServer, ictVars, callerVars
<1>2. CASE ClientChannelReady
  BY <1>2 DEF ClientChannelReady, IctSendRequest, SendToServer, callerVars
<1>3. CASE ClientChannelFails
  <2>1. Once(toServer', "INVITE") /\ Contents(toServer') \subseteq Contents(toServer)
    BY <1>3, BrokenFacts, BreaksOnce DEF ClientChannelFails
  <2> QED BY <1>3, <2>1 DEF ClientChannelFails
<1>4. CASE ClientChannelErrorTransient
  BY <1>4 DEF ClientChannelErrorTransient, Release, CancelAbandoned, Transient, links
<1>5. CASE ClientChannelErrorFinal
  BY <1>5 DEF ClientChannelErrorFinal, TerminateClient, EndTransaction, Release, CancelAbandoned, Transient, links
<1>6. CASE TimerA
  BY <1>6 DEF TimerA, SendToServer, callerVars
<1>7. CASE TimerB
  BY <1>7 DEF TimerB, EndTransaction, Release, links
<1>8. CASE \E timer \in {"D", "M", "repair"} : TimerEnds(timer)
  BY <1>8 DEF TimerEnds, TerminateClient, EndTransaction, Release, links
<1>9. CASE CancelTimeout
  BY <1>9 DEF CancelTimeout, Release, ictVars, links
<1>10. CASE HangUp
  BY <1>10 DEF HangUp, SendToServer
<1>11. CASE CallerByeDone
  BY <1>11 DEF CallerByeDone, ictVars, links
<1>12. CASE CallerDialogTerminated
  BY <1>12 DEF CallerDialogTerminated, Release, ictVars, links
<1>13. CASE ClientReceive
  <2>1. CASE RecvStateless
    BY <2>1 DEF RecvStateless, clientVars, ictVars, callerVars
  <2>2. CASE \E code \in Provisional : RecvProvisional(code)
    BY <2>2 DEF RecvProvisional, Response, Waiting, SendToServer, Reassociated
  <2>3. CASE \E code \in Failure : RecvReject(code)
    BY <2>3 DEF RecvReject, Response, Waiting, SendToServer, Reassociated, Release
  <2>4. CASE \E code \in Failure : RecvRejectAgain(code)
    BY <2>4 DEF RecvRejectAgain, Response, SendToServer, Reassociated, callerVars
  <2>5. CASE \E code \in Success : RecvAccept(code)
    BY <2>5 DEF RecvAccept, Response, Waiting, SendToServer, Reassociated, HangUpAccepted
  <2>6. CASE \E code \in Success : RecvAcceptAgain(code)
    BY <2>6 DEF RecvAcceptAgain, Response, SendToServer, Reassociated, HangUpAccepted
  <2>7. CASE \E code \in Codes : RecvIgnored(code)
    BY <2>7 DEF RecvIgnored, Response, Reassociated, callerVars
  <2>8. CASE RecvCancelAnswer
    BY <2>8 DEF RecvCancelAnswer, ictVars
  <2>9. CASE RecvByeFromCallee
    BY <2>9 DEF RecvByeFromCallee, ictVars
  <2> QED BY <1>13, <2>1, <2>2, <2>3, <2>4, <2>5, <2>6, <2>7, <2>8, <2>9 DEF ClientReceive
<1> QED BY <1>1, <1>2, <1>3, <1>4, <1>5, <1>6, <1>7, <1>8, <1>9, <1>10, <1>11, <1>12, <1>13 DEF ClientStep

\* What the callee does to the INVITE: it reads it or loses it with the
\* connection, its first step reads it, an INVITE is offered as it is read, and
\* over UDP the transaction ends when no INVITE is left.
LEMMA ServerReads ==
    ASSUME InvitedInv, ServerStep, Reliable \/ istChannel # "error"
    PROVE  /\ toServer' = toServer \/ toServer' \in Broken(toServer) \/ \E m : Request(m)
           /\ istState' # "NULL" => istState # "NULL" \/ Request("INVITE")
           /\ \/ offered' = offered
              \/ offered' = 1
              \/ Request("INVITE") /\ istState = "TERMINATED"
           /\ ~Reliable /\ istState' = "TERMINATED" => istState = "TERMINATED" \/ InviteGone
<1> USE DEF InvitedInv
<1>1. CASE ServerReceive
  <2>1. CASE RecvInvite
    BY <2>1 DEF RecvInvite, SendToClient
  <2>2. CASE RecvInviteAsNew
    BY <2>2 DEF RecvInviteAsNew, istVars
  <2>3. CASE RecvInviteAgain
    BY <2>3 DEF RecvInviteAgain, SendToClient, istVars, calleeVars
  <2>4. CASE RecvAck
    BY <2>4 DEF RecvAck, TerminateServer, calleeVars
  <2>5. CASE RecvAck2xx
    BY <2>5 DEF RecvAck2xx, istVars
  <2>6. CASE RecvCancel
    BY <2>6 DEF RecvCancel, SendToClient, istVars, SendResponse
  <2>7. CASE RecvByeFromCaller
    BY <2>7 DEF RecvByeFromCaller, istVars
  <2> QED BY <1>1, <2>1, <2>2, <2>3, <2>4, <2>5, <2>6, <2>7 DEF ServerReceive
<1>2. CASE Ring
  BY <1>2 DEF Ring, SendResponse
<1>3. CASE Accept
  BY <1>3 DEF Accept, Answer, SendResponse
<1>4. CASE Decline
  BY <1>4 DEF Decline, Answer, SendResponse
<1>5. CASE CalleeHangUp
  BY <1>5 DEF CalleeHangUp, SendToClient, istVars
<1>6. CASE TimerG
  BY <1>6 DEF TimerG, SendToClient, calleeVars
<1>7. CASE \E timer \in {"H", "I", "L"} : InviteGone /\ ServerTimerEnds(timer)
  BY <1>7 DEF ServerTimerEnds, TerminateServer, calleeVars, links
<1>8. CASE ServerRepairTimer
  BY <1>8 DEF ServerRepairTimer, SendResponse
<1>9. CASE Retransmit200
  BY <1>9 DEF Retransmit200, SendToClient, serverVars, istVars, calleeVars
<1>10. CASE Give200Up
  BY <1>10 DEF Give200Up, SendToClient, istVars
<1>11. CASE CalleeByeDone
  BY <1>11 DEF CalleeByeDone, istVars, links
<1>12. CASE CalleeDialogTerminated
  BY <1>12 DEF CalleeDialogTerminated, istVars, links
<1>13. CASE ServerChannelFails
  BY <1>13 DEF ServerChannelFails, calleeVars
<1>14. CASE ServerChannelError
  BY <1>14 DEF ServerChannelError, TerminateServer, calleeVars, links
<1> QED BY <1>1, <1>2, <1>3, <1>4, <1>5, <1>6, <1>7, <1>8, <1>9, <1>10, <1>11, <1>12, <1>13, <1>14 DEF ServerStep

\* The INVITE is offered once if it is sent once, or if a server transaction
\* ends only when it is gone, which a channel of the callee that fails over UDP
\* prevents.
LEMMA OfferedStep ==
    ASSUME CallInv, CallInv', OfferedInv, Reliable \/ UnbrokenInv, [Next]_vars
    PROVE  OfferedInv'
<1>1. LinksTypeOK /\ InvitedInv /\ Invited' = (ictState' \notin {"NULL", "INIT"})
  BY DEF CallInv, OutcomeInv, TypeOK, LinksTypeOK, Invited
<1>2. CASE ClientStep
  <2>1. UNCHANGED <<istState, offered>>
    BY <1>2 DEF ClientStep, serverVars, istVars, calleeVars
  <2>2. ~Reliable /\ istState = "TERMINATED" => InviteGone'
    BY <1>1, <1>2, ClientForgetsInvite DEF OfferedInv, InvitedInv
  <2>3. Reliable => SentOnce'
    BY <1>1, <1>2, ClientSendsOnce DEF OfferedInv, SentOnce
  <2> QED BY <2>1, <2>2, <2>3 DEF OfferedInv, SentOnce
<1>3. CASE ServerStep
  <2>1. UNCHANGED clientVars
    BY <1>3 DEF ServerStep
  <2>2. Contents(toServer') \subseteq Contents(toServer)
    BY <1>1, <1>3, ServerConfirms
  <2>3. Request("INVITE") => "INVITE" \in Contents(toServer)
    BY <1>1, AfterFacts DEF Request, LinksTypeOK
  <2>4. offered' <= 1
    BY <1>1, <1>3, <2>3, ServerReads DEF OfferedInv, UnbrokenInv, InviteGone
  <2>5. ~Reliable /\ istState' = "TERMINATED" => InviteGone'
    BY <1>1, <1>3, <2>1, <2>2, ServerReads
       DEF OfferedInv, UnbrokenInv, InviteGone, clientVars, ictVars
  <2>6. Reliable => SentOnce'
    <3> SUFFICES ASSUME Reliable PROVE SentOnce'
      OBVIOUS
    <3>1. "A" \notin ictTimers'
      BY <2>1 DEF clientVars, ictVars, OfferedInv
    <3>2. Once(toServer', "INVITE") /\ (Request("INVITE") => "INVITE" \notin Contents(toServer'))
      <4>1. \A m : Request(m) =>
              Once(toServer', "INVITE") /\ (m = "INVITE" => "INVITE" \notin Contents(toServer'))
        BY <1>1, ReadsOnce DEF Request, LinksTypeOK, OfferedInv
      <4>2. toServer' \in Broken(toServer) => Once(toServer', "INVITE")
        BY BreaksOnce DEF OfferedInv
      <4> QED BY <1>1, <1>3, <4>1, <4>2, ServerReads DEF OfferedInv
    <3>3. istState' # "NULL" => "INVITE" \notin Contents(toServer')
      BY <1>1, <1>3, <2>2, <3>2, ServerReads DEF OfferedInv
    <3> QED BY <3>1, <3>2, <3>3 DEF SentOnce
  <2> QED BY <2>4, <2>5, <2>6 DEF OfferedInv, SentOnce
<1>4. CASE Lose \/ UNCHANGED vars
  <2>1. /\ UNCHANGED <<clientVars, serverVars>>
        /\ Contents(toServer') \subseteq Contents(toServer)
        /\ Reliable => toServer' = toServer
    BY <1>1, <1>4, DroppedFacts DEF Lose, LinksTypeOK, vars, links
  <2> QED BY <2>1 DEF OfferedInv, InviteGone, clientVars, ictVars, serverVars, istVars, calleeVars
<1> QED BY <1>2, <1>3, <1>4 DEF Next

\* The callee's application is offered one call, over a connection whatever
\* fails, over UDP as long as the callee's channels do not fail.
THEOREM OneCallOffered ==
    ASSUME Reliable \/ MaxServerFailures = 0
    PROVE  Spec => []NoGhostCall
<1> DEFINE Unbroken == Reliable \/ UnbrokenInv
<1>1. Init => Unbroken /\ OfferedInv
  <2>1. Init => Once(toServer, "INVITE") \/ ~Reliable
    BY DEF Init, EmptyLink, Once
  <2>2. Init => "INVITE" \notin Contents(toServer)
    BY EmptyLinkFacts DEF Init
  <2> QED BY <2>1, <2>2 DEF Init, ClientInit, ServerInit, UnbrokenInv, OfferedInv
<1>2. CallInv /\ Unbroken /\ [Next]_vars => Unbroken'
  BY UnbrokenStep
<1>3. CallInv /\ CallInv' /\ Unbroken /\ OfferedInv /\ [Next]_vars => OfferedInv'
  BY OfferedStep
<1>4. OfferedInv => NoGhostCall
  BY DEF OfferedInv, NoGhostCall
<1> HIDE DEF Unbroken
<1> QED BY <1>1, <1>2, <1>3, <1>4, CallInvariant, PTL DEF Spec

-----------------------------------------------------------------------------
(***************************************************************************)
(* A call over connections that do not fail: whatever order the answer and *)
(* the hang-ups of the two sides take, no side keeps a call the other gave *)
(* up once nothing is in flight any more.                                  *)
(***************************************************************************)

-----------------------------------------------------------------------------
(***************************************************************************)
(* Connections: nothing is lost and nothing overtakes.                     *)
(***************************************************************************)

\* What is sent over a working channel arrives behind what was sent before.
LEMMA SendDelivers ==
    ASSUME NEW Msg, NEW channel, NEW link \in LinkOf(Msg), NEW m \in Msg,
           Reliable, channel # "error"
    PROVE  /\ Contents(Send(channel, link, m)) = Contents(link) \cup {m}
           /\ \A x, y : Follows(link, x, y) => Follows(Send(channel, link, m), x, y)
           /\ \A x \in Contents(link) : Follows(Send(channel, link, m), x, m)
<1>1. link \in Seq(Msg) /\ Send(channel, link, m) = Append(link, m)
  BY DEF LinkOf, Send, Put
<1>2. /\ Len(link) \in Nat /\ DOMAIN link = 1..Len(link)
      /\ Len(Append(link, m)) = Len(link) + 1
      /\ DOMAIN Append(link, m) = 1..Len(link) + 1
      /\ \A i \in 1..Len(link) : Append(link, m)[i] = link[i]
      /\ Append(link, m)[Len(link) + 1] = m
  BY <1>1
<1>3. Contents(Append(link, m)) = Contents(link) \cup {m}
  <2>1. Contents(link) \subseteq Contents(Append(link, m))
    BY <1>2 DEF Contents
  <2>2. m \in Contents(Append(link, m))
    BY <1>2 DEF Contents
  <2>3. Contents(Append(link, m)) \subseteq Contents(link) \cup {m}
    BY <1>1, SendFacts
  <2> QED BY <2>1, <2>2, <2>3
<1>4. ASSUME NEW x, NEW y, Follows(link, x, y)
      PROVE  Follows(Append(link, m), x, y)
  <2>1. PICK i \in DOMAIN link, j \in DOMAIN link : i < j /\ link[i] = x /\ link[j] = y
    BY <1>4 DEF Follows
  <2>2. /\ i \in DOMAIN Append(link, m) /\ j \in DOMAIN Append(link, m)
        /\ Append(link, m)[i] = x /\ Append(link, m)[j] = y
    BY <1>2, <2>1
  <2> QED BY <2>1, <2>2 DEF Follows
<1>5. ASSUME NEW x \in Contents(link)
      PROVE  Follows(Append(link, m), x, m)
  <2>1. PICK i \in 1..Len(link) : link[i] = x
    BY DEF Contents
  <2>2. /\ i \in DOMAIN Append(link, m) /\ Len(link) + 1 \in DOMAIN Append(link, m)
        /\ i < Len(link) + 1
        /\ Append(link, m)[i] = x /\ Append(link, m)[Len(link) + 1] = m
    BY <1>2, <2>1
  <2> QED BY <2>2 DEF Follows
<1> QED BY <1>1, <1>3, <1>4, <1>5

\* Reading takes the first message and keeps the order of the others.
LEMMA ReadInOrder ==
    ASSUME NEW Msg, NEW link \in LinkOf(Msg), NEW m, Reliable, Arriving(link, m),
           NEW rest \in After(link, m)
    PROVE  /\ \A x \in Contents(link) : x # m => x \in Contents(rest)
           /\ \A x, y : x # m /\ Follows(link, x, y) => Follows(rest, x, y)
           /\ \A x, y : Follows(link, x, y) => y \in Contents(rest)
<1>1. link \in Seq(Msg) /\ link # << >> /\ Head(link) = m /\ rest = Tail(link)
  BY DEF LinkOf, Arriving, After
<1>2. /\ Len(link) \in Nat \ {0} /\ DOMAIN link = 1..Len(link)
      /\ Len(rest) = Len(link) - 1 /\ DOMAIN rest = 1..Len(rest)
      /\ \A i \in 1..Len(rest) : rest[i] = link[i + 1]
      /\ link[1] = m
  BY <1>1, HeadTailProperties, EmptySeq
<1>3. ASSUME NEW i \in DOMAIN link, i # 1
      PROVE  i - 1 \in DOMAIN rest /\ rest[i - 1] = link[i]
  <2>1. i - 1 \in 1..Len(rest)
    BY <1>2, <1>3
  <2> QED BY <1>2, <2>1
<1>4. ASSUME NEW x \in Contents(link), x # m
      PROVE  x \in Contents(rest)
  <2>1. PICK i \in 1..Len(link) : link[i] = x
    BY DEF Contents
  <2> QED BY <1>2, <1>3, <1>4, <2>1 DEF Contents
<1>5. ASSUME NEW x, NEW y, Follows(link, x, y)
      PROVE  y \in Contents(rest) /\ (x # m => Follows(rest, x, y))
  <2>1. PICK i \in DOMAIN link, j \in DOMAIN link : i < j /\ link[i] = x /\ link[j] = y
    BY <1>5 DEF Follows
  <2>2. j - 1 \in DOMAIN rest /\ rest[j - 1] = y
    BY <1>2, <1>3, <2>1
  <2>3. y \in Contents(rest)
    BY <1>2, <2>2 DEF Contents
  <2>4. ASSUME x # m PROVE Follows(rest, x, y)
    <3>1. i # 1
      BY <1>2, <2>1, <2>4
    <3>2. i - 1 \in DOMAIN rest /\ rest[i - 1] = x /\ i - 1 < j - 1
      BY <1>2, <1>3, <2>1, <3>1
    <3> QED BY <2>2, <3>2 DEF Follows
  <2> QED BY <2>3, <2>4
<1> QED BY <1>4, <1>5

\* The two lemmas on the links of the call.
LEMMA ServerLinkInOrder ==
    ASSUME Reliable, LinksTypeOK
    PROVE  /\ \A channel, m :
                 channel # "error" /\ m \in ToServerMsg
                     => Contents(Send(channel, toServer, m)) = Contents(toServer) \cup {m}
           /\ \A m, rest :
                 Arriving(toServer, m) /\ rest \in After(toServer, m)
                     => \A x \in Contents(toServer) : x # m => x \in Contents(rest)
<1>1. toServer \in LinkOf(ToServerMsg)
  BY DEF LinksTypeOK
<1> QED BY <1>1, SendDelivers, ReadInOrder

LEMMA ClientLinkInOrder ==
    ASSUME Reliable, LinksTypeOK
    PROVE  /\ \A channel, link, m :
                 channel # "error" /\ link \in LinkOf(ToClientMsg) /\ m \in ToClientMsg
                     => /\ Contents(Send(channel, link, m)) = Contents(link) \cup {m}
                        /\ Follows(link, "200", "BYE")
                              => Follows(Send(channel, link, m), "200", "BYE")
                        /\ "200" \in Contents(link) /\ m = "BYE"
                              => Follows(Send(channel, link, m), "200", "BYE")
           /\ \A m, rest :
                 Arriving(toClient, m) /\ rest \in After(toClient, m)
                     => /\ \A x \in Contents(toClient) : x # m => x \in Contents(rest)
                        /\ m # "200" /\ Follows(toClient, "200", "BYE")
                              => Follows(rest, "200", "BYE")
                        /\ Follows(toClient, "200", "BYE") => "BYE" \in Contents(rest)
<1>1. toClient \in LinkOf(ToClientMsg)
  BY DEF LinksTypeOK
<1>2. ASSUME NEW channel, NEW link, NEW m,
             channel # "error", link \in LinkOf(ToClientMsg), m \in ToClientMsg
      PROVE  /\ Contents(Send(channel, link, m)) = Contents(link) \cup {m}
             /\ Follows(link, "200", "BYE") => Follows(Send(channel, link, m), "200", "BYE")
             /\ "200" \in Contents(link) /\ m = "BYE"
                   => Follows(Send(channel, link, m), "200", "BYE")
  <2>1. /\ Contents(Send(channel, link, m)) = Contents(link) \cup {m}
        /\ \A x, y : Follows(link, x, y) => Follows(Send(channel, link, m), x, y)
        /\ \A x \in Contents(link) : Follows(Send(channel, link, m), x, m)
    BY <1>2, SendDelivers
  <2> QED BY <2>1
<1>3. ASSUME NEW m, NEW rest, Arriving(toClient, m), rest \in After(toClient, m)
      PROVE  /\ \A x \in Contents(toClient) : x # m => x \in Contents(rest)
             /\ m # "200" /\ Follows(toClient, "200", "BYE") => Follows(rest, "200", "BYE")
             /\ Follows(toClient, "200", "BYE") => "BYE" \in Contents(rest)
  BY <1>1, <1>3, ReadInOrder
<1> QED BY <1>2, <1>3

-----------------------------------------------------------------------------
(***************************************************************************)
(* Each side keeps the invariant.                                          *)
(***************************************************************************)

\* What the channels of a run without failures are.
Working == Reliable /\ MaxClientFailures = 0 /\ MaxServerFailures = 0

\* The caller: an acceptance it reads makes the op active with the callee's
\* BYE still behind it, and an active op that ends sends a BYE or was sent one.
LEMMA ClientKeepsInFlight ==
    ASSUME Working, ClientTypeOK, LinksTypeOK, UndecidedInv, CallerInv, InvitedInv,
           CalleeInv, InFlightInv, ClientStep
    PROVE  InFlightInv'
<1> UNCHANGED <<istState, istChannel, finalsSent, calleeBye, calleeOp>>
  BY DEF ClientStep, serverVars, istVars, calleeVars
<1>0. finalsSent = {} \/ Invited
  BY DEF InvitedInv, UndecidedInv
<1> USE <1>0, ServerLinkInOrder, ClientLinkInOrder, AfterFacts
    DEF Working, InFlightInv, CallerInv, CalleeInv, Invited, Ended, Waiting, ToServerMsg,
        Requests, ClientTypeOK, UacDialog, Codes, Provisional, Final, Success, Failure, LinksTypeOK
<1>1. CASE Call
  BY <1>1 DEF Call, IctSendRequest, SendToServer, ictVars, callerVars
<1>2. CASE ClientChannelReady
  BY <1>2 DEF ClientChannelReady, IctSendRequest, SendToServer, callerVars
<1>3. CASE ClientChannelFails
  BY <1>3 DEF ClientChannelFails, callerVars
<1>4. CASE ClientChannelErrorTransient
  BY <1>4 DEF ClientChannelErrorTransient, Release, CancelAbandoned, Transient, links
<1>5. CASE ClientChannelErrorFinal
  BY <1>5 DEF ClientChannelErrorFinal, TerminateClient, EndTransaction, Release, CancelAbandoned, Transient, links
<1>6. CASE TimerA
  BY <1>6 DEF TimerA, SendToServer, callerVars
<1>7. CASE TimerB
  BY <1>7 DEF TimerB, EndTransaction, Release, links
<1>8. CASE \E timer \in {"D", "M", "repair"} : TimerEnds(timer)
  BY <1>8 DEF TimerEnds, TerminateClient, EndTransaction, Release, links
<1>9. CASE CancelTimeout
  BY <1>9 DEF CancelTimeout, Release, ictVars, links
<1>10. CASE HangUp
  BY <1>10 DEF HangUp, SendToServer
<1>11. CASE CallerByeDone
  BY <1>11 DEF CallerByeDone, ictVars, links
<1>12. CASE CallerDialogTerminated
  BY <1>12 DEF CallerDialogTerminated, Release, ictVars, links
<1>13. CASE ClientReceive
  <2>1. CASE RecvStateless
    BY <2>1 DEF RecvStateless, ClientLive, clientVars, ictVars, callerVars
  <2>2. CASE \E code \in Provisional : RecvProvisional(code)
    BY <2>2 DEF RecvProvisional, Response, SendToServer, Reassociated
  <2>3. CASE \E code \in Failure : RecvReject(code)
    BY <2>3 DEF RecvReject, Response, SendToServer, Reassociated, Release
  <2>4. CASE \E code \in Failure : RecvRejectAgain(code)
    BY <2>4 DEF RecvRejectAgain, Response, SendToServer, Reassociated, callerVars
  <2>5. CASE \E code \in Success : RecvAccept(code)
    BY <2>5 DEF RecvAccept, Response, SendToServer, Reassociated, HangUpAccepted
  <2>6. CASE \E code \in Success : RecvAcceptAgain(code)
    BY <2>6 DEF RecvAcceptAgain, Response, SendToServer, Reassociated, HangUpAccepted
  <2>7. CASE \E code \in Codes : RecvIgnored(code)
    BY <2>7 DEF RecvIgnored, Response, Reassociated, callerVars
  <2>8. CASE RecvCancelAnswer
    BY <2>8 DEF RecvCancelAnswer, ictVars
  <2>9. CASE RecvByeFromCallee
    BY <2>9 DEF RecvByeFromCallee, ictVars
  <2> QED BY <1>13, <2>1, <2>2, <2>3, <2>4, <2>5, <2>6, <2>7, <2>8, <2>9 DEF ClientReceive
<1> QED BY <1>1, <1>2, <1>3, <1>4, <1>5, <1>6, <1>7, <1>8, <1>9, <1>10, <1>11, <1>12, <1>13 DEF ClientStep

\* Answering puts the 200 on the link as it decides for it.
LEMMA ResponseInFlight ==
    ASSUME Working, LinksTypeOK, InFlightInv, NEW code \in Codes, NEW timers,
           NEW link \in LinkOf(ToClientMsg),
           Contents(toClient) \subseteq Contents(link),
           Follows(toClient, "200", "BYE") => Follows(link, "200", "BYE"),
           SendResponse(code, timers, link)
    PROVE  /\ istChannel' # "error"
           /\ Contents(toClient) \subseteq Contents(toClient')
           /\ Follows(toClient, "200", "BYE") => Follows(toClient', "200", "BYE")
           /\ "200" \in finalsSent' => "200" \in finalsSent \cup Contents(toClient')
<1>1. ResponseChannel # "error" /\ istChannel' = ResponseChannel
  BY DEF InFlightInv, SendResponse, ResponseChannel
<1>2. code \in ToClientMsg
  BY DEF ToClientMsg
<1>3. CASE toClient' = Send(ResponseChannel, link, code) /\ finalsSent' = finalsSent \cup ({code} \cap Final)
  BY <1>1, <1>2, <1>3, ClientLinkInOrder DEF Working
<1>4. CASE toClient' = link /\ finalsSent' = finalsSent
  BY <1>1, <1>4
<1> QED BY <1>3, <1>4 DEF SendResponse

\* The callee: its BYE goes out behind its 200, and the caller's BYE ends the
\* op unless the callee hung up itself.
LEMMA ServerKeepsInFlight ==
    ASSUME Working, ServerTypeOK, LinksTypeOK, CalleeInv, InFlightInv, ServerStep,
           uas.retrans => "200" \in finalsSent,
           uac.acked => "200" \in finalsSent
    PROVE  InFlightInv'
<1> UNCHANGED <<ictState, ictChannel, uac, callerOp>>
  BY DEF ServerStep, clientVars, ictVars, callerVars
<1> USE ServerLinkInOrder, ClientLinkInOrder
    DEF Working, InFlightInv, CalleeInv, HungUpBy, Waiting, LinksTypeOK, ServerTypeOK,
        UasDialog, ToClientMsg, Codes, Provisional, Final, Success, Failure
<1>1. CASE ServerReceive
  <2>1. CASE RecvInvite
    BY <2>1 DEF RecvInvite, Request, SendToClient
  <2>2. CASE RecvInviteAsNew
    BY <2>2 DEF RecvInviteAsNew, Request, istVars
  <2>3. CASE RecvInviteAgain
    BY <2>3 DEF RecvInviteAgain, Request, SendToClient, istVars, calleeVars
  <2>4. CASE RecvAck
    BY <2>4 DEF RecvAck, Request, TerminateServer, calleeVars
  <2>5. CASE RecvAck2xx
    BY <2>5 DEF RecvAck2xx, Request, istVars
  <2>6. CASE RecvCancel
    <3> DEFINE answered == Send(ResponseChannel, toClient, "CancelAnswer")
    <3>1. /\ answered \in LinkOf(ToClientMsg)
          /\ Contents(toClient) \subseteq Contents(answered)
          /\ Follows(toClient, "200", "BYE") => Follows(answered, "200", "BYE")
      <4>1. ResponseChannel # "error" /\ "CancelAnswer" \in ToClientMsg
        BY DEF ResponseChannel
      <4> QED BY <4>1, LinksTyped
    <3>2. /\ UNCHANGED calleeBye
          /\ \A x \in Contents(toServer) : x # "CANCEL" => x \in Contents(toServer')
      BY <2>6 DEF RecvCancel, Request
    <3> HIDE DEF answered
    <3>3. CASE SendResponse("487", istTimers, answered) /\ calleeOp' = "Terminating"
      BY <3>1, <3>2, <3>3, ResponseInFlight
    <3>4. CASE UNCHANGED <<istVars, uas, calleeOp>> /\ toClient' \in {toClient, answered}
      BY <3>1, <3>2, <3>4 DEF istVars
    <3> QED BY <2>6, <3>3, <3>4 DEF RecvCancel, SendToClient, answered
  <2>7. CASE RecvByeFromCaller
    BY <2>7 DEF RecvByeFromCaller, Request, istVars
  <2> QED BY <1>1, <2>1, <2>2, <2>3, <2>4, <2>5, <2>6, <2>7 DEF ServerReceive
<1>2. CASE Ring
  BY <1>2, ResponseInFlight DEF Ring
<1>3. CASE Accept
  BY <1>3, ResponseInFlight DEF Accept, Answer
<1>4. CASE Decline
  BY <1>4, ResponseInFlight DEF Decline, Answer
<1>5. CASE CalleeHangUp
  BY <1>5 DEF CalleeHangUp, SendToClient, istVars
<1>6. CASE TimerG
  BY <1>6 DEF TimerG, SendToClient, calleeVars
<1>7. CASE \E timer \in {"H", "I", "L"} : InviteGone /\ ServerTimerEnds(timer)
  BY <1>7 DEF ServerTimerEnds, TerminateServer, calleeVars, links
<1>8. CASE ServerRepairTimer
  BY <1>8, ResponseInFlight DEF ServerRepairTimer
<1>9. CASE Retransmit200
  BY <1>9 DEF Retransmit200, SendToClient, serverVars, istVars, calleeVars
<1>10. CASE Give200Up
  BY <1>10 DEF Give200Up, SendToClient, istVars
<1>11. CASE CalleeByeDone
  BY <1>11 DEF CalleeByeDone, istVars, links
<1>12. CASE CalleeDialogTerminated
  BY <1>12 DEF CalleeDialogTerminated, istVars, links
<1>13. CASE ServerChannelFails
  BY <1>13 DEF ServerChannelFails, calleeVars
<1>14. CASE ServerChannelError
  BY <1>14 DEF ServerChannelError, TerminateServer, calleeVars, links
<1> QED BY <1>1, <1>2, <1>3, <1>4, <1>5, <1>6, <1>7, <1>8, <1>9, <1>10, <1>11, <1>12, <1>13, <1>14 DEF ServerStep
-----------------------------------------------------------------------------
(***************************************************************************)
(* The theorem.                                                            *)
(***************************************************************************)

\* Before the call nothing is in flight and nothing failed.
LEMMA InFlightInit == Init => InFlightInv
BY EmptyLinkFacts DEF Init, ClientInit, ServerInit, InFlightInv, Waiting

\* Every step keeps what is in flight.
LEMMA InFlightStep ==
    ASSUME Working, CallInv, InFlightInv, [Next]_vars
    PROVE  InFlightInv'
<1>1. /\ ClientTypeOK /\ ServerTypeOK /\ LinksTypeOK
      /\ UndecidedInv /\ RepeatedInv /\ CallerInv /\ InvitedInv /\ CalleeInv
  BY DEF CallInv, OutcomeInv, TypeOK, LinksTypeOK
<1>2. uac.acked => "200" \in finalsSent
  BY DEF CallInv, OutcomeInv, AckInv, OutcomeAgreement
<1>3. uas.retrans => "200" \in finalsSent
  BY <1>1 DEF RepeatedInv
<1>4. CASE ClientStep
  BY <1>1, <1>4, ClientKeepsInFlight
<1>5. CASE ServerStep
  BY <1>1, <1>2, <1>3, <1>5, ServerKeepsInFlight
<1>6. CASE Lose
  BY <1>6 DEF Lose, Working
<1>7. CASE UNCHANGED vars
  BY <1>7 DEF vars, links, clientVars, ictVars, callerVars, serverVars, istVars, calleeVars,
              InFlightInv, Waiting
<1> QED BY <1>4, <1>5, <1>6, <1>7 DEF Next

\* What is in flight over working connections is all that one side does not
\* know of the other.
THEOREM NothingIsLost ==
    ASSUME Working
    PROVE  Spec => []InFlightInv
<1>1. Init => InFlightInv
  BY InFlightInit
<1>2. CallInv /\ InFlightInv /\ [Next]_vars => InFlightInv'
  BY InFlightStep
<1> QED BY <1>1, <1>2, CallInvariant, PTL DEF Spec

\* Once nothing is in flight neither op holds a call the other gave up.
THEOREM CallHeldByBoth ==
    ASSUME Working
    PROVE  Spec => []NoHalfOpenCall
<1>1. CallInv /\ InFlightInv => NoHalfOpenCall
  <2> SUFFICES ASSUME CallInv, InFlightInv, toServer = EmptyLink, toClient = EmptyLink
               PROVE  /\ callerOp = "Active" => calleeOp = "Active"
                      /\ calleeOp = "Active" /\ calleeAcked /\ ~calleeBye => callerOp = "Active"
    BY DEF NoHalfOpenCall
  <2>1. Contents(toServer) = {} /\ Contents(toClient) = {}
    BY EmptyLinkFacts
  <2>2. callerOp = "Active" => uac.acked /\ ~Ended
    BY DEF CallInv, CallerInv, Ended
  <2>3. (calleeAcked => uac.acked) /\ (uac.acked => "200" \in finalsSent)
    BY DEF CallInv, OutcomeInv, AckInv, OutcomeAgreement
  <2>4. "200" \in finalsSent /\ calleeOp # "Active" => calleeBye \/ Ended
    BY DEF CallInv, CalleeInv, HungUpBy
  <2> QED BY <2>1, <2>2, <2>3, <2>4 DEF InFlightInv
<1> QED BY <1>1, CallInvariant, NothingIsLost, PTL
=============================================================================
