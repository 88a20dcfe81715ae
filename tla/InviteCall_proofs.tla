------------------------- MODULE InviteCall_proofs --------------------------
(***************************************************************************)
(* What a call keeps for every transport, every bound on the retransmitted *)
(* messages and every number of channel failures.                          *)
(***************************************************************************)
EXTENDS InviteCall, SequenceTheorems, TLAPS

-----------------------------------------------------------------------------
(***************************************************************************)
(* Links: what each operation keeps of their type and of their contents.   *)
(***************************************************************************)

\* A link nothing was sent over is empty.
LEMMA EmptyLinkFacts ==
    ASSUME NEW Msg
    PROVE  EmptyLink \in LinkOf(Msg) /\ Contents(EmptyLink) = {}
<1>1. CASE Reliable
  BY <1>1, EmptySeq DEF EmptyLink, LinkOf, Contents
<1>2. CASE ~Reliable
  BY <1>2 DEF EmptyLink, LinkOf, Contents
<1> QED BY <1>1, <1>2

\* Sending adds the message or, over a channel in error, nothing
\* (belle_sip_channel_queue_message).
LEMMA SendFacts ==
    ASSUME NEW Msg, NEW channel, NEW link \in LinkOf(Msg), NEW m \in Msg
    PROVE  /\ Send(channel, link, m) \in LinkOf(Msg)
           /\ Contents(Send(channel, link, m)) \subseteq Contents(link) \cup {m}
<1>1. CASE channel = "error"
  BY <1>1 DEF Send
<1>2. CASE channel # "error" /\ Reliable
  <2>1. link \in Seq(Msg)
    BY <1>2 DEF LinkOf
  <2>2. Send(channel, link, m) = Append(link, m)
    BY <1>2 DEF Send, Put
  <2>3. /\ Append(link, m) \in Seq(Msg)
        /\ Len(link) \in Nat
        /\ Len(Append(link, m)) = Len(link) + 1
        /\ \A i \in 1..Len(link) : Append(link, m)[i] = link[i]
        /\ Append(link, m)[Len(link) + 1] = m
    BY <2>1
  <2>4. ASSUME NEW i \in 1..Len(Append(link, m))
        PROVE  Append(link, m)[i] \in {link[j] : j \in 1..Len(link)} \cup {m}
    <3>1. CASE i \in 1..Len(link)
      BY <3>1, <2>3
    <3>2. CASE i = Len(link) + 1
      BY <3>2, <2>3
    <3> QED BY <3>1, <3>2, <2>3
  <2> QED BY <1>2, <2>2, <2>3, <2>4 DEF LinkOf, Contents
<1>3. CASE channel # "error" /\ ~Reliable
  BY <1>3 DEF Send, Put, LinkOf, Contents
<1> QED BY <1>1, <1>2, <1>3

\* Reading takes nothing but the message away.
LEMMA AfterFacts ==
    ASSUME NEW Msg, NEW link \in LinkOf(Msg), NEW m, Arriving(link, m),
           NEW rest \in After(link, m)
    PROVE  /\ rest \in LinkOf(Msg)
           /\ Contents(rest) \subseteq Contents(link)
           /\ m \in Contents(link)
<1>1. CASE Reliable
  <2>1. link \in Seq(Msg) /\ link # << >> /\ Head(link) = m /\ rest = Tail(link)
    BY <1>1 DEF LinkOf, Arriving, After
  <2>2. /\ rest \in Seq(Msg)
        /\ Len(link) \in Nat \ {0}
        /\ Len(rest) = Len(link) - 1
        /\ \A i \in 1..Len(rest) : rest[i] = link[i + 1]
    BY <2>1, HeadTailProperties, EmptySeq
  <2>3. m = link[1]
    BY <2>1
  <2>4. \A i \in 1..Len(rest) : rest[i] \in {link[j] : j \in 1..Len(link)}
    BY <2>2
  <2> QED BY <1>1, <2>2, <2>3, <2>4 DEF LinkOf, Contents
<1>2. CASE ~Reliable
  BY <1>2 DEF After, Arriving, LinkOf, Contents
<1> QED BY <1>1, <1>2

\* Neither does losing a datagram ...
LEMMA DroppedFacts ==
    ASSUME NEW Msg, NEW link \in LinkOf(Msg), NEW m, ~Reliable
    PROVE  /\ Dropped(link, m) \in LinkOf(Msg)
           /\ Contents(Dropped(link, m)) \subseteq Contents(link)
BY DEF Dropped, LinkOf, Contents

\* ... nor a connection that breaks.
LEMMA BrokenFacts ==
    ASSUME NEW Msg, NEW link \in LinkOf(Msg), NEW rest \in Broken(link)
    PROVE  /\ rest \in LinkOf(Msg)
           /\ Contents(rest) \subseteq Contents(link)
<1>1. CASE rest = link
  BY <1>1
<1>2. CASE rest = << >> /\ Reliable
  BY <1>2, EmptyLinkFacts DEF EmptyLink
<1> QED BY <1>1, <1>2 DEF Broken

-----------------------------------------------------------------------------
(***************************************************************************)
(* Type correctness.                                                       *)
(***************************************************************************)

\* The two links have the types their readers expect.
LinksTypeOK ==
    /\ toServer \in LinkOf(ToServerMsg)
    /\ toClient \in LinkOf(ToClientMsg)

\* Whatever is sent keeps the types of the links, and so does whatever is
\* received, over any channel.
LEMMA LinksTyped ==
    ASSUME LinksTypeOK
    PROVE  /\ \A channel, link, m :
                 /\ link \in LinkOf(ToServerMsg) /\ m \in ToServerMsg
                       => Send(channel, link, m) \in LinkOf(ToServerMsg)
                 /\ link \in LinkOf(ToClientMsg) /\ m \in ToClientMsg
                       => Send(channel, link, m) \in LinkOf(ToClientMsg)
           /\ \A m, rest :
                 /\ Arriving(toServer, m) /\ rest \in After(toServer, m)
                       => rest \in LinkOf(ToServerMsg)
                 /\ Arriving(toClient, m) /\ rest \in After(toClient, m)
                       => rest \in LinkOf(ToClientMsg)
           /\ \A rest : /\ rest \in Broken(toServer) => rest \in LinkOf(ToServerMsg)
                        /\ rest \in Broken(toClient) => rest \in LinkOf(ToClientMsg)
BY SendFacts, AfterFacts, BrokenFacts DEF LinksTypeOK

\* The caller's handlers keep the types of its transaction, dialog and op ...
LEMMA ClientTyped ==
    ASSUME ClientTypeOK, ClientStep
    PROVE  ClientTypeOK'
<1> USE MaxClientFailuresAssumption
    DEF ClientTypeOK, UacDialog, ClientStates, ClientTimers, Channels, OpStates,
        DialogStates, NoResponse, Codes, Provisional, Final, Success, Failure
<1>1. CASE Call
  <2>1. (ictState \in ClientStates /\ ictTimers \subseteq ClientTimers)'
    BY <1>1 DEF Call, IctSendRequest, SendToServer, ictVars, callerVars
  <2>2. (ictChannel \in Channels /\ ictLast \in Codes \cup {NoResponse})'
    BY <1>1 DEF Call, IctSendRequest, SendToServer, ictVars, callerVars
  <2>3. (uac \in UacDialog)'
    BY <1>1 DEF Call, IctSendRequest, SendToServer, ictVars, callerVars
  <2>4. (callerOp \in OpStates /\ linked \in BOOLEAN)'
    BY <1>1 DEF Call, IctSendRequest, SendToServer, ictVars, callerVars
  <2>5. (cancel \in {"none", "sent", "done"} /\ byeSent \in BOOLEAN)'
    BY <1>1 DEF Call, IctSendRequest, SendToServer, ictVars, callerVars
  <2>6. (callerFinals \subseteq Final /\ clientFailures \in 0..MaxClientFailures)'
    BY <1>1 DEF Call, IctSendRequest, SendToServer, ictVars, callerVars
  <2> QED BY <2>1, <2>2, <2>3, <2>4, <2>5, <2>6
<1>2. CASE ClientChannelReady
  BY <1>2 DEF ClientChannelReady, IctSendRequest, SendToServer, callerVars
<1>3. CASE ClientChannelFails
  BY <1>3 DEF ClientChannelFails, callerVars
<1>4. CASE ClientChannelErrorTransient
  <2>1. (ictState \in ClientStates /\ ictTimers \subseteq ClientTimers)'
    BY <1>4 DEF ClientChannelErrorTransient
  <2>2. (ictChannel \in Channels /\ ictLast \in Codes \cup {NoResponse})'
    BY <1>4 DEF ClientChannelErrorTransient
  <2>3. (uac \in UacDialog)'
    BY <1>4 DEF ClientChannelErrorTransient
  <2>4. (callerOp \in OpStates /\ linked \in BOOLEAN)'
    BY <1>4 DEF ClientChannelErrorTransient, Release
  <2>5. (cancel \in {"none", "sent", "done"} /\ byeSent \in BOOLEAN)'
    BY <1>4 DEF ClientChannelErrorTransient, CancelAbandoned
  <2>6. (callerFinals \subseteq Final /\ clientFailures \in 0..MaxClientFailures)'
    BY <1>4 DEF ClientChannelErrorTransient
  <2> QED BY <2>1, <2>2, <2>3, <2>4, <2>5, <2>6
<1>5. CASE ClientChannelErrorFinal
  BY <1>5 DEF ClientChannelErrorFinal, TerminateClient, EndTransaction, Release, CancelAbandoned, Transient, links
<1>6. CASE TimerA
  <2>1. (ictState \in ClientStates /\ ictTimers \subseteq ClientTimers)'
    BY <1>6 DEF TimerA, SendToServer, callerVars
  <2>2. (ictChannel \in Channels /\ ictLast \in Codes \cup {NoResponse})'
    BY <1>6 DEF TimerA, SendToServer, callerVars
  <2>3. (uac \in UacDialog)'
    BY <1>6 DEF TimerA, SendToServer, callerVars
  <2>4. (callerOp \in OpStates /\ linked \in BOOLEAN)'
    BY <1>6 DEF TimerA, SendToServer, callerVars
  <2>5. (cancel \in {"none", "sent", "done"} /\ byeSent \in BOOLEAN)'
    BY <1>6 DEF TimerA, SendToServer, callerVars
  <2>6. (callerFinals \subseteq Final /\ clientFailures \in 0..MaxClientFailures)'
    BY <1>6 DEF TimerA, SendToServer, callerVars
  <2> QED BY <2>1, <2>2, <2>3, <2>4, <2>5, <2>6
<1>7. CASE TimerB
  <2>1. (ictState \in ClientStates /\ ictTimers \subseteq ClientTimers)'
    BY <1>7 DEF TimerB, EndTransaction
  <2>2. (ictChannel \in Channels /\ ictLast \in Codes \cup {NoResponse})'
    BY <1>7 DEF TimerB
  <2>3. (uac \in UacDialog)'
    BY <1>7 DEF TimerB, EndTransaction
  <2>4. (callerOp \in OpStates /\ linked \in BOOLEAN)'
    BY <1>7 DEF TimerB, Release
  <2> QED
    BY <2>1, <2>2, <2>3, <2>4, <1>7 DEF TimerB
<1>8. CASE \E timer \in {"D", "M", "repair"} : TimerEnds(timer)
  <2>1. (ictState \in ClientStates /\ ictTimers \subseteq ClientTimers)'
    BY <1>8 DEF TimerEnds, TerminateClient, EndTransaction
  <2>2. (ictChannel \in Channels /\ ictLast \in Codes \cup {NoResponse})'
    BY <1>8 DEF TimerEnds, TerminateClient, EndTransaction
  <2>3. (uac \in UacDialog)'
    BY <1>8 DEF TimerEnds, TerminateClient, EndTransaction
  <2>4. (callerOp \in OpStates /\ linked \in BOOLEAN)'
    BY <1>8 DEF TimerEnds, TerminateClient, Release
  <2>5. (cancel \in {"none", "sent", "done"} /\ byeSent \in BOOLEAN)'
    BY <1>8 DEF TimerEnds
  <2>6. (callerFinals \subseteq Final /\ clientFailures \in 0..MaxClientFailures)'
    BY <1>8 DEF TimerEnds
  <2> QED BY <2>1, <2>2, <2>3, <2>4, <2>5, <2>6
<1>9. CASE CancelTimeout
  <2>1. (ictState \in ClientStates /\ ictTimers \subseteq ClientTimers)'
    BY <1>9 DEF CancelTimeout, Release, ictVars, links
  <2>2. (ictChannel \in Channels /\ ictLast \in Codes \cup {NoResponse})'
    BY <1>9 DEF CancelTimeout, Release, ictVars, links
  <2>3. (uac \in UacDialog)'
    BY <1>9 DEF CancelTimeout, Release, ictVars, links
  <2>4. (callerOp \in OpStates /\ linked \in BOOLEAN)'
    BY <1>9 DEF CancelTimeout, Release, ictVars, links
  <2>5. (cancel \in {"none", "sent", "done"} /\ byeSent \in BOOLEAN)'
    BY <1>9 DEF CancelTimeout, Release, ictVars, links
  <2>6. (callerFinals \subseteq Final /\ clientFailures \in 0..MaxClientFailures)'
    BY <1>9 DEF CancelTimeout, Release, ictVars, links
  <2> QED BY <2>1, <2>2, <2>3, <2>4, <2>5, <2>6
<1>10. CASE HangUp
  <2>1. (ictState \in ClientStates /\ ictTimers \subseteq ClientTimers)'
    BY <1>10 DEF HangUp, SendToServer
  <2>2. (ictChannel \in Channels /\ ictLast \in Codes \cup {NoResponse})'
    BY <1>10 DEF HangUp, SendToServer
  <2>3. (uac \in UacDialog)'
    BY <1>10 DEF HangUp, SendToServer
  <2>4. (callerOp \in OpStates /\ linked \in BOOLEAN)'
    BY <1>10 DEF HangUp, SendToServer
  <2>5. (cancel \in {"none", "sent", "done"} /\ byeSent \in BOOLEAN)'
    BY <1>10 DEF HangUp, SendToServer
  <2>6. (callerFinals \subseteq Final /\ clientFailures \in 0..MaxClientFailures)'
    BY <1>10 DEF HangUp, SendToServer
  <2> QED BY <2>1, <2>2, <2>3, <2>4, <2>5, <2>6
<1>11. CASE CallerByeDone
  <2>1. (ictState \in ClientStates /\ ictTimers \subseteq ClientTimers)'
    BY <1>11 DEF CallerByeDone, ictVars
  <2>2. (ictChannel \in Channels /\ ictLast \in Codes \cup {NoResponse})'
    BY <1>11 DEF CallerByeDone, ictVars
  <2>3. (uac \in UacDialog)'
    BY <1>11 DEF CallerByeDone, ictVars
  <2>4. (callerOp \in OpStates /\ linked \in BOOLEAN)'
    BY <1>11 DEF CallerByeDone, ictVars
  <2>5. (cancel \in {"none", "sent", "done"} /\ byeSent \in BOOLEAN)'
    BY <1>11 DEF CallerByeDone, ictVars
  <2>6. (callerFinals \subseteq Final /\ clientFailures \in 0..MaxClientFailures)'
    BY <1>11 DEF CallerByeDone, ictVars
  <2> QED BY <2>1, <2>2, <2>3, <2>4, <2>5, <2>6
<1>12. CASE CallerDialogTerminated
  <2>1. (ictState \in ClientStates /\ ictTimers \subseteq ClientTimers)'
    BY <1>12 DEF CallerDialogTerminated, ictVars
  <2>2. (ictChannel \in Channels /\ ictLast \in Codes \cup {NoResponse})'
    BY <1>12 DEF CallerDialogTerminated, ictVars
  <2>3. (uac \in UacDialog)'
    BY <1>12 DEF CallerDialogTerminated, ictVars
  <2>4. (callerOp \in OpStates /\ linked \in BOOLEAN)'
    BY <1>12 DEF CallerDialogTerminated, Release
  <2>5. (cancel \in {"none", "sent", "done"} /\ byeSent \in BOOLEAN)'
    BY <1>12 DEF CallerDialogTerminated, ictVars
  <2>6. (callerFinals \subseteq Final /\ clientFailures \in 0..MaxClientFailures)'
    BY <1>12 DEF CallerDialogTerminated, ictVars
  <2> QED BY <2>1, <2>2, <2>3, <2>4, <2>5, <2>6
<1>13. CASE ClientReceive
  <2>1. CASE RecvStateless
    BY <2>1 DEF RecvStateless, clientVars, ictVars, callerVars
  <2>2. CASE \E code \in Provisional : RecvProvisional(code)
    BY <2>2 DEF RecvProvisional, Response, SendToServer, Reassociated
  <2>3. CASE \E code \in Failure : RecvReject(code)
    <3>1. (ictState \in ClientStates /\ ictTimers \subseteq ClientTimers)'
      BY <2>3 DEF RecvReject
    <3>2. (ictChannel \in Channels /\ ictLast \in Codes \cup {NoResponse})'
      BY <2>3 DEF RecvReject, Reassociated
    <3>3. (uac \in UacDialog)'
      BY <2>3 DEF RecvReject
    <3>4. (callerOp \in OpStates /\ linked \in BOOLEAN)'
      BY <2>3 DEF RecvReject, Release
    <3>5. (cancel \in {"none", "sent", "done"} /\ byeSent \in BOOLEAN)'
      BY <2>3 DEF RecvReject
    <3>6. (callerFinals \subseteq Final /\ clientFailures \in 0..MaxClientFailures)'
      BY <2>3 DEF RecvReject
    <3> QED BY <3>1, <3>2, <3>3, <3>4, <3>5, <3>6
  <2>4. CASE \E code \in Failure : RecvRejectAgain(code)
    BY <2>4 DEF RecvRejectAgain, Response, SendToServer, Reassociated, callerVars
  <2>5. CASE \E code \in Success : RecvAccept(code)
    <3>1. (ictState \in ClientStates /\ ictTimers \subseteq ClientTimers)'
      BY <2>5 DEF RecvAccept, Response, SendToServer, Reassociated, HangUpAccepted
    <3>2. (ictChannel \in Channels /\ ictLast \in Codes \cup {NoResponse})'
      BY <2>5 DEF RecvAccept, Response, SendToServer, Reassociated, HangUpAccepted
    <3>3. (uac \in UacDialog)'
      <4>1. \/ uac' = [state |-> "CONFIRMED", needsAck |-> FALSE, acked |-> TRUE]
            \/ uac' = [state |-> "CONFIRMED", needsAck |-> TRUE, acked |-> FALSE]
        BY <2>5 DEF RecvAccept
      <4>2. /\ [state |-> "CONFIRMED", needsAck |-> FALSE, acked |-> TRUE] \in UacDialog
            /\ [state |-> "CONFIRMED", needsAck |-> TRUE, acked |-> FALSE] \in UacDialog
        OBVIOUS
      <4> HIDE DEF UacDialog
      <4> QED BY <4>1, <4>2
    <3>4. (callerOp \in OpStates /\ linked \in BOOLEAN)'
      BY <2>5 DEF RecvAccept, Response, SendToServer, Reassociated, HangUpAccepted
    <3>5. (cancel \in {"none", "sent", "done"} /\ byeSent \in BOOLEAN)'
      BY <2>5 DEF RecvAccept, Response, SendToServer, Reassociated, HangUpAccepted
    <3>6. (callerFinals \subseteq Final /\ clientFailures \in 0..MaxClientFailures)'
      BY <2>5 DEF RecvAccept, Response, SendToServer, Reassociated, HangUpAccepted
    <3> QED BY <3>1, <3>2, <3>3, <3>4, <3>5, <3>6
  <2>6. CASE \E code \in Success : RecvAcceptAgain(code)
    BY <2>6 DEF RecvAcceptAgain, Response, SendToServer, Reassociated, HangUpAccepted
  <2>7. CASE \E code \in Codes : RecvIgnored(code)
    BY <2>7 DEF RecvIgnored, Response, Reassociated, callerVars
  <2>8. CASE RecvCancelAnswer
    BY <2>8 DEF RecvCancelAnswer, ictVars
  <2>9. CASE RecvByeFromCallee
    <3>1. (ictState \in ClientStates /\ ictTimers \subseteq ClientTimers)'
      BY <2>9 DEF RecvByeFromCallee, ictVars
    <3>2. (ictChannel \in Channels /\ ictLast \in Codes \cup {NoResponse})'
      BY <2>9 DEF RecvByeFromCallee, ictVars
    <3>3. (uac \in UacDialog)'
      BY <2>9 DEF RecvByeFromCallee, ictVars
    <3>4. (callerOp \in OpStates /\ linked \in BOOLEAN)'
      BY <2>9 DEF RecvByeFromCallee, ictVars
    <3>5. (cancel \in {"none", "sent", "done"} /\ byeSent \in BOOLEAN)'
      BY <2>9 DEF RecvByeFromCallee, ictVars
    <3>6. (callerFinals \subseteq Final /\ clientFailures \in 0..MaxClientFailures)'
      BY <2>9 DEF RecvByeFromCallee, ictVars
    <3> QED BY <3>1, <3>2, <3>3, <3>4, <3>5, <3>6
  <2> QED BY <1>13, <2>1, <2>2, <2>3, <2>4, <2>5, <2>6, <2>7, <2>8, <2>9 DEF ClientReceive
<1> QED BY <1>1, <1>2, <1>3, <1>4, <1>5, <1>6, <1>7, <1>8, <1>9, <1>10, <1>11, <1>12, <1>13 DEF ClientStep

\* ... and send nothing the callee does not know.
LEMMA ClientLinksTyped ==
    ASSUME LinksTypeOK, ClientStep
    PROVE  LinksTypeOK'
<1> USE LinksTyped DEF LinksTypeOK, ToServerMsg, Requests
<1>1. CASE Call
  BY <1>1 DEF Call, IctSendRequest, SendToServer, ictVars, callerVars
<1>2. CASE ClientChannelReady
  BY <1>2 DEF ClientChannelReady, IctSendRequest, SendToServer, callerVars
<1>3. CASE ClientChannelFails
  BY BrokenFacts, <1>3 DEF ClientChannelFails, callerVars
<1>4. CASE ClientChannelErrorTransient
  BY <1>4 DEF ClientChannelErrorTransient, Release, CancelAbandoned, Transient, links
<1>5. CASE ClientChannelErrorFinal
  BY <1>5 DEF ClientChannelErrorFinal, TerminateClient, EndTransaction, Release, CancelAbandoned, Transient, links
<1>6. CASE TimerA
  BY <1>6 DEF TimerA, SendToServer, callerVars
<1>7. CASE TimerB
  BY <1>7 DEF TimerB, EndTransaction, Release, links
<1>8. CASE \E timer \in {"D", "M", "repair"} : TimerEnds(timer)
  BY <1>8 DEF TimerEnds, TerminateClient, EndTransaction, Release, links
<1>9. CASE CancelTimeout
  BY <1>9 DEF CancelTimeout, Release, ictVars, links
<1>10. CASE HangUp
  BY <1>10 DEF HangUp, SendToServer
<1>11. CASE CallerByeDone
  BY <1>11 DEF CallerByeDone, ictVars, links
<1>12. CASE CallerDialogTerminated
  BY <1>12 DEF CallerDialogTerminated, Release, ictVars, links
<1>13. CASE ClientReceive
  <2>1. CASE RecvStateless
    BY <2>1 DEF RecvStateless, clientVars, ictVars, callerVars
  <2>2. CASE \E code \in Provisional : RecvProvisional(code)
    BY <2>2 DEF RecvProvisional, Response, SendToServer, Reassociated
  <2>3. CASE \E code \in Failure : RecvReject(code)
    BY <2>3 DEF RecvReject, Response, SendToServer, Reassociated, Release
  <2>4. CASE \E code \in Failure : RecvRejectAgain(code)
    BY <2>4 DEF RecvRejectAgain, Response, SendToServer, Reassociated, callerVars
  <2>5. CASE \E code \in Success : RecvAccept(code)
    BY <2>5 DEF RecvAccept, Response, SendToServer, Reassociated, HangUpAccepted
  <2>6. CASE \E code \in Success : RecvAcceptAgain(code)
    BY <2>6 DEF RecvAcceptAgain, Response, SendToServer, Reassociated, HangUpAccepted
  <2>7. CASE \E code \in Codes : RecvIgnored(code)
    BY <2>7 DEF RecvIgnored, Response, Reassociated, callerVars
  <2>8. CASE RecvCancelAnswer
    BY <2>8 DEF RecvCancelAnswer, ictVars
  <2>9. CASE RecvByeFromCallee
    BY <2>9 DEF RecvByeFromCallee, ictVars
  <2> QED BY <1>13, <2>1, <2>2, <2>3, <2>4, <2>5, <2>6, <2>7, <2>8, <2>9 DEF ClientReceive
<1> QED BY <1>1, <1>2, <1>3, <1>4, <1>5, <1>6, <1>7, <1>8, <1>9, <1>10, <1>11, <1>12, <1>13 DEF ClientStep

\* belle_sip_dialog_update leaves a dialog in one of its states.
LEMMA UpdatedTyped ==
    ASSUME NEW dialog \in UasDialog, NEW code
    PROVE  Updated(dialog, code) \in UasDialog
BY DEF Updated, UasDialog

\* Answering keeps the types of the transaction and of the dialog ...
LEMMA ResponseTyped ==
    ASSUME ServerTypeOK, NEW code \in Codes, NEW timers \in SUBSET ServerTimers,
           NEW link, SendResponse(code, timers, link)
    PROVE  /\ istState' \in ServerStates
           /\ istTimers' \subseteq ServerTimers
           /\ istChannel' \in ServerChannels
           /\ istLast' \in Codes \cup {NoAnswer}
           /\ istState' \in {"PROCEEDING", "COMPLETED"} => istLast' \in Codes
           /\ uas' \in UasDialog
           /\ finalsSent' \subseteq Final
<1>1. uas' \in UasDialog
  BY UpdatedTyped DEF SendResponse, ServerTypeOK
<1>2. istChannel' \in ServerChannels
  BY DEF SendResponse, ResponseChannel, ServerTypeOK, ServerChannels
<1>3. istState' \in ServerStates /\ istTimers' \subseteq ServerTimers
  BY DEF SendResponse, ServerTypeOK, ServerStates, ResponseTimers, ServerTimers
<1>4. istLast' \in Codes \cup {NoAnswer} /\ finalsSent' \subseteq Final
  BY DEF SendResponse, ServerTypeOK
<1>5. istState' \in {"PROCEEDING", "COMPLETED"} => istLast' \in Codes
  BY DEF SendResponse, ServerTypeOK
<1> QED BY <1>1, <1>2, <1>3, <1>4, <1>5

\* ... and sends a response.
LEMMA ResponseLinkTyped ==
    ASSUME NEW code \in Codes, NEW timers, NEW link \in LinkOf(ToClientMsg),
           SendResponse(code, timers, link)
    PROVE  toClient' \in LinkOf(ToClientMsg)
BY SendFacts DEF SendResponse, ToClientMsg

\* The callee's handlers keep the types of its transaction, dialog and op ...
LEMMA ServerTyped ==
    ASSUME ServerTypeOK, ServerStep
    PROVE  ServerTypeOK'
<1> USE MaxServerFailuresAssumption
    DEF ServerTypeOK, UasDialog, ServerStates, ServerTimers, ServerChannels,
        NoAnswer, Codes, Provisional, Final, Success, Failure
<1>1. CASE ServerReceive
  <2>1. CASE RecvInvite
    BY <2>1 DEF RecvInvite, Request, SendToClient
  <2>2. CASE RecvInviteAsNew
    BY <2>2 DEF RecvInviteAsNew, Request, istVars
  <2>3. CASE RecvInviteAgain
    <3>1. (istState \in ServerStates /\ istTimers \subseteq ServerTimers)'
      BY <2>3 DEF RecvInviteAgain, Request, SendToClient, istVars, calleeVars
    <3>2. (istChannel \in ServerChannels)'
      BY <2>3 DEF RecvInviteAgain, Request, SendToClient, istVars, calleeVars
    <3>3. (istLast \in Codes \cup {NoAnswer} /\ (istState \in {"PROCEEDING", "COMPLETED"} => istLast \in Codes))'
      BY <2>3 DEF RecvInviteAgain, Request, SendToClient, istVars, calleeVars
    <3>4. (uas \in UasDialog)'
      BY <2>3 DEF RecvInviteAgain, Request, SendToClient, istVars, calleeVars
    <3>5. (calleeOp \in {"none", "Early", "Active", "Terminating", "Terminated"})'
      BY <2>3 DEF RecvInviteAgain, Request, SendToClient, istVars, calleeVars
    <3>6. (calleeBye \in BOOLEAN /\ calleeAcked \in BOOLEAN)'
      BY <2>3 DEF RecvInviteAgain, Request, SendToClient, istVars, calleeVars
    <3>7. (finalsSent \subseteq Final /\ offered \in 0..2)'
      BY <2>3 DEF RecvInviteAgain, Request, SendToClient, istVars, calleeVars
    <3>8. (serverFailures \in 0..MaxServerFailures /\ calleeAlive \in BOOLEAN)'
      BY <2>3 DEF RecvInviteAgain, Request, SendToClient, istVars, calleeVars
    <3> QED BY <3>1, <3>2, <3>3, <3>4, <3>5, <3>6, <3>7, <3>8
  <2>4. CASE RecvAck
    <3>1. (istState \in ServerStates /\ istTimers \subseteq ServerTimers)'
      BY <2>4 DEF RecvAck, Request, TerminateServer, calleeVars
    <3>2. (istChannel \in ServerChannels)'
      BY <2>4 DEF RecvAck, Request, TerminateServer, calleeVars
    <3>3. (istLast \in Codes \cup {NoAnswer} /\ (istState \in {"PROCEEDING", "COMPLETED"} => istLast \in Codes))'
      BY <2>4 DEF RecvAck, Request, TerminateServer, calleeVars
    <3>4. (uas \in UasDialog)'
      BY <2>4 DEF RecvAck, Request, TerminateServer, calleeVars
    <3>5. (calleeOp \in {"none", "Early", "Active", "Terminating", "Terminated"})'
      BY <2>4 DEF RecvAck, Request, TerminateServer, calleeVars
    <3>6. (calleeBye \in BOOLEAN /\ calleeAcked \in BOOLEAN)'
      BY <2>4 DEF RecvAck, Request, TerminateServer, calleeVars
    <3>7. (finalsSent \subseteq Final /\ offered \in 0..2)'
      BY <2>4 DEF RecvAck, Request, TerminateServer, calleeVars
    <3>8. (serverFailures \in 0..MaxServerFailures /\ calleeAlive \in BOOLEAN)'
      BY <2>4 DEF RecvAck, Request, TerminateServer, calleeVars
    <3> QED BY <3>1, <3>2, <3>3, <3>4, <3>5, <3>6, <3>7, <3>8
  <2>5. CASE RecvAck2xx
    <3>1. (istState \in ServerStates /\ istTimers \subseteq ServerTimers)'
      BY <2>5 DEF RecvAck2xx, Request, istVars
    <3>2. (istChannel \in ServerChannels)'
      BY <2>5 DEF RecvAck2xx, Request, istVars
    <3>3. (istLast \in Codes \cup {NoAnswer} /\ (istState \in {"PROCEEDING", "COMPLETED"} => istLast \in Codes))'
      BY <2>5 DEF RecvAck2xx, Request, istVars
    <3>4. (uas \in UasDialog)'
      BY <2>5 DEF RecvAck2xx, Request, istVars
    <3>5. (calleeOp \in {"none", "Early", "Active", "Terminating", "Terminated"})'
      BY <2>5 DEF RecvAck2xx, Request, istVars
    <3>6. (calleeBye \in BOOLEAN /\ calleeAcked \in BOOLEAN)'
      BY <2>5 DEF RecvAck2xx, Request, istVars
    <3>7. (finalsSent \subseteq Final /\ offered \in 0..2)'
      BY <2>5 DEF RecvAck2xx, Request, istVars
    <3>8. (serverFailures \in 0..MaxServerFailures /\ calleeAlive \in BOOLEAN)'
      BY <2>5 DEF RecvAck2xx, Request, istVars
    <3> QED BY <3>1, <3>2, <3>3, <3>4, <3>5, <3>6, <3>7, <3>8
  <2>6. CASE RecvCancel
    <3>1. (istState \in ServerStates /\ istTimers \subseteq ServerTimers)'
      BY <2>6, ResponseTyped DEF RecvCancel, istVars
    <3>2. (istChannel \in ServerChannels)'
      BY <2>6, ResponseTyped DEF RecvCancel, istVars
    <3>3. (istLast \in Codes \cup {NoAnswer} /\ (istState \in {"PROCEEDING", "COMPLETED"} => istLast \in Codes))'
      BY <2>6, ResponseTyped DEF RecvCancel, istVars
    <3>4. (uas \in UasDialog)'
      BY <2>6, ResponseTyped DEF RecvCancel, istVars
    <3>5. (calleeOp \in {"none", "Early", "Active", "Terminating", "Terminated"})'
      BY <2>6 DEF RecvCancel
    <3>6. (calleeBye \in BOOLEAN /\ calleeAcked \in BOOLEAN)'
      BY <2>6 DEF RecvCancel
    <3>7. (finalsSent \subseteq Final /\ offered \in 0..2)'
      BY <2>6, ResponseTyped DEF RecvCancel, istVars
    <3>8. (serverFailures \in 0..MaxServerFailures /\ calleeAlive \in BOOLEAN)'
      BY <2>6 DEF RecvCancel
    <3> QED BY <3>1, <3>2, <3>3, <3>4, <3>5, <3>6, <3>7, <3>8
  <2>7. CASE RecvByeFromCaller
    <3>1. (istState \in ServerStates /\ istTimers \subseteq ServerTimers)'
      BY <2>7 DEF RecvByeFromCaller, Request, istVars
    <3>2. (istChannel \in ServerChannels)'
      BY <2>7 DEF RecvByeFromCaller, Request, istVars
    <3>3. (istLast \in Codes \cup {NoAnswer} /\ (istState \in {"PROCEEDING", "COMPLETED"} => istLast \in Codes))'
      BY <2>7 DEF RecvByeFromCaller, Request, istVars
    <3>4. (uas \in UasDialog)'
      <4>1. \/ uas' = uas
            \/ uas' = [state |-> "TERMINATED", needsAck |-> FALSE, retrans |-> FALSE]
        BY <2>7 DEF RecvByeFromCaller
      <4>2. [state |-> "TERMINATED", needsAck |-> FALSE, retrans |-> FALSE] \in UasDialog
        OBVIOUS
      <4> HIDE DEF UasDialog
      <4> QED BY <4>1, <4>2
    <3>5. (calleeOp \in {"none", "Early", "Active", "Terminating", "Terminated"})'
      BY <2>7 DEF RecvByeFromCaller, Request, istVars
    <3>6. (calleeBye \in BOOLEAN /\ calleeAcked \in BOOLEAN)'
      BY <2>7 DEF RecvByeFromCaller, Request, istVars
    <3>7. (finalsSent \subseteq Final /\ offered \in 0..2)'
      BY <2>7 DEF RecvByeFromCaller, Request, istVars
    <3>8. (serverFailures \in 0..MaxServerFailures /\ calleeAlive \in BOOLEAN)'
      BY <2>7 DEF RecvByeFromCaller, Request, istVars
    <3> QED BY <3>1, <3>2, <3>3, <3>4, <3>5, <3>6, <3>7, <3>8
  <2> QED BY <1>1, <2>1, <2>2, <2>3, <2>4, <2>5, <2>6, <2>7 DEF ServerReceive
<1>2. CASE Ring
  BY <1>2, ResponseTyped DEF Ring
<1>3. CASE Accept
  BY <1>3, ResponseTyped DEF Accept, Answer
<1>4. CASE Decline
  BY <1>4, ResponseTyped DEF Decline, Answer
<1>5. CASE CalleeHangUp
  BY <1>5 DEF CalleeHangUp, SendToClient, istVars
<1>6. CASE TimerG
  <2>1. (istState \in ServerStates /\ istTimers \subseteq ServerTimers)'
    BY <1>6 DEF TimerG, SendToClient, calleeVars
  <2>2. (istChannel \in ServerChannels)'
    BY <1>6 DEF TimerG, SendToClient, calleeVars
  <2>3. (istLast \in Codes \cup {NoAnswer} /\ (istState \in {"PROCEEDING", "COMPLETED"} => istLast \in Codes))'
    BY <1>6 DEF TimerG, SendToClient, calleeVars
  <2>4. (uas \in UasDialog)'
    BY <1>6 DEF TimerG, SendToClient, calleeVars
  <2>5. (calleeOp \in {"none", "Early", "Active", "Terminating", "Terminated"})'
    BY <1>6 DEF TimerG, SendToClient, calleeVars
  <2>6. (calleeBye \in BOOLEAN /\ calleeAcked \in BOOLEAN)'
    BY <1>6 DEF TimerG, SendToClient, calleeVars
  <2>7. (finalsSent \subseteq Final /\ offered \in 0..2)'
    BY <1>6 DEF TimerG, SendToClient, calleeVars
  <2>8. (serverFailures \in 0..MaxServerFailures /\ calleeAlive \in BOOLEAN)'
    BY <1>6 DEF TimerG, SendToClient, calleeVars
  <2> QED BY <2>1, <2>2, <2>3, <2>4, <2>5, <2>6, <2>7, <2>8
<1>7. CASE \E timer \in {"H", "I", "L"} : InviteGone /\ ServerTimerEnds(timer)
  <2>1. (istState \in ServerStates /\ istTimers \subseteq ServerTimers)'
    BY <1>7 DEF ServerTimerEnds, TerminateServer, calleeVars, links
  <2>2. (istChannel \in ServerChannels)'
    BY <1>7 DEF ServerTimerEnds, TerminateServer, calleeVars, links
  <2>3. (istLast \in Codes \cup {NoAnswer} /\ (istState \in {"PROCEEDING", "COMPLETED"} => istLast \in Codes))'
    BY <1>7 DEF ServerTimerEnds, TerminateServer, calleeVars, links
  <2>4. (uas \in UasDialog)'
    BY <1>7 DEF ServerTimerEnds, TerminateServer, calleeVars, links
  <2>5. (calleeOp \in {"none", "Early", "Active", "Terminating", "Terminated"})'
    BY <1>7 DEF ServerTimerEnds, TerminateServer, calleeVars, links
  <2>6. (calleeBye \in BOOLEAN /\ calleeAcked \in BOOLEAN)'
    BY <1>7 DEF ServerTimerEnds, TerminateServer, calleeVars, links
  <2>7. (finalsSent \subseteq Final /\ offered \in 0..2)'
    BY <1>7 DEF ServerTimerEnds, TerminateServer, calleeVars, links
  <2>8. (serverFailures \in 0..MaxServerFailures /\ calleeAlive \in BOOLEAN)'
    BY <1>7 DEF ServerTimerEnds, TerminateServer, calleeVars, links
  <2> QED BY <2>1, <2>2, <2>3, <2>4, <2>5, <2>6, <2>7, <2>8
<1>8. CASE ServerRepairTimer
  BY <1>8, ResponseTyped DEF ServerRepairTimer
<1>9. CASE Retransmit200
  BY <1>9 DEF Retransmit200, SendToClient, serverVars, istVars, calleeVars
<1>10. CASE Give200Up
  <2>1. (istState \in ServerStates /\ istTimers \subseteq ServerTimers)'
    BY <1>10 DEF Give200Up, istVars
  <2>2. (istChannel \in ServerChannels)'
    BY <1>10 DEF Give200Up, istVars
  <2>3. (istLast \in Codes \cup {NoAnswer} /\ (istState \in {"PROCEEDING", "COMPLETED"} => istLast \in Codes))'
    BY <1>10 DEF Give200Up, istVars
  <2>4. (uas \in UasDialog)'
    BY <1>10 DEF Give200Up, istVars
  <2>5. (calleeOp \in {"none", "Early", "Active", "Terminating", "Terminated"})'
    BY <1>10 DEF Give200Up, istVars
  <2>6. (calleeBye \in BOOLEAN /\ calleeAcked \in BOOLEAN)'
    BY <1>10 DEF Give200Up, istVars
  <2>7. (finalsSent \subseteq Final /\ offered \in 0..2)'
    BY <1>10 DEF Give200Up, istVars
  <2>8. (serverFailures \in 0..MaxServerFailures /\ calleeAlive \in BOOLEAN)'
    BY <1>10 DEF Give200Up, istVars
  <2> QED BY <2>1, <2>2, <2>3, <2>4, <2>5, <2>6, <2>7, <2>8
<1>11. CASE CalleeByeDone
  BY <1>11 DEF CalleeByeDone, istVars, links
<1>12. CASE CalleeDialogTerminated
  BY <1>12 DEF CalleeDialogTerminated, istVars, links
<1>13. CASE ServerChannelFails
  BY <1>13 DEF ServerChannelFails, calleeVars
<1>14. CASE ServerChannelError
  <2>1. (istState \in ServerStates /\ istTimers \subseteq ServerTimers)'
    BY <1>14 DEF ServerChannelError, TerminateServer, calleeVars, links
  <2>2. (istChannel \in ServerChannels)'
    BY <1>14 DEF ServerChannelError, TerminateServer, calleeVars, links
  <2>3. (istLast \in Codes \cup {NoAnswer} /\ (istState \in {"PROCEEDING", "COMPLETED"} => istLast \in Codes))'
    BY <1>14 DEF ServerChannelError, TerminateServer, calleeVars, links
  <2>4. (uas \in UasDialog)'
    BY <1>14 DEF ServerChannelError, TerminateServer, calleeVars, links
  <2>5. (calleeOp \in {"none", "Early", "Active", "Terminating", "Terminated"})'
    BY <1>14 DEF ServerChannelError, TerminateServer, calleeVars, links
  <2>6. (calleeBye \in BOOLEAN /\ calleeAcked \in BOOLEAN)'
    BY <1>14 DEF ServerChannelError, TerminateServer, calleeVars, links
  <2>7. (finalsSent \subseteq Final /\ offered \in 0..2)'
    BY <1>14 DEF ServerChannelError, TerminateServer, calleeVars, links
  <2>8. (serverFailures \in 0..MaxServerFailures /\ calleeAlive \in BOOLEAN)'
    BY <1>14 DEF ServerChannelError, TerminateServer, calleeVars, links
  <2> QED BY <2>1, <2>2, <2>3, <2>4, <2>5, <2>6, <2>7, <2>8
<1> QED BY <1>1, <1>2, <1>3, <1>4, <1>5, <1>6, <1>7, <1>8, <1>9, <1>10, <1>11, <1>12, <1>13, <1>14 DEF ServerStep

\* ... and send nothing the caller does not know.
LEMMA ServerLinksTyped ==
    ASSUME ServerTypeOK, LinksTypeOK, ServerStep
    PROVE  LinksTypeOK'
<1> USE LinksTyped DEF LinksTypeOK, ToClientMsg, Codes, Provisional, Final, Success,
        Failure
<1>1. CASE ServerReceive
  <2>1. CASE RecvInvite
    BY <2>1 DEF RecvInvite, Request, SendToClient
  <2>2. CASE RecvInviteAsNew
    BY <2>2 DEF RecvInviteAsNew, Request, istVars
  <2>3. CASE RecvInviteAgain
    BY <2>3 DEF RecvInviteAgain, Request, SendToClient, ServerTypeOK, ServerLive
  <2>4. CASE RecvAck
    BY <2>4 DEF RecvAck, Request, TerminateServer, calleeVars
  <2>5. CASE RecvAck2xx
    BY <2>5 DEF RecvAck2xx, Request, istVars
  <2>6. CASE RecvCancel
    BY <2>6, ResponseLinkTyped DEF RecvCancel, Request, SendToClient, istVars
  <2>7. CASE RecvByeFromCaller
    BY <2>7 DEF RecvByeFromCaller, Request, istVars
  <2> QED BY <1>1, <2>1, <2>2, <2>3, <2>4, <2>5, <2>6, <2>7 DEF ServerReceive
<1>2. CASE Ring
  BY <1>2, ResponseLinkTyped DEF Ring
<1>3. CASE Accept
  BY <1>3, ResponseLinkTyped DEF Accept, Answer
<1>4. CASE Decline
  BY <1>4, ResponseLinkTyped DEF Decline, Answer
<1>5. CASE CalleeHangUp
  BY <1>5 DEF CalleeHangUp, SendToClient, istVars
<1>6. CASE TimerG
  BY <1>6 DEF TimerG, SendToClient, ServerTypeOK
<1>7. CASE \E timer \in {"H", "I", "L"} : InviteGone /\ ServerTimerEnds(timer)
  BY <1>7 DEF ServerTimerEnds, TerminateServer, calleeVars, links
<1>8. CASE ServerRepairTimer
  BY <1>8, ResponseLinkTyped DEF ServerRepairTimer
<1>9. CASE Retransmit200
  BY <1>9 DEF Retransmit200, SendToClient, serverVars, istVars, calleeVars
<1>10. CASE Give200Up
  BY <1>10 DEF Give200Up, SendToClient, istVars
<1>11. CASE CalleeByeDone
  BY <1>11 DEF CalleeByeDone, istVars, links
<1>12. CASE CalleeDialogTerminated
  BY <1>12 DEF CalleeDialogTerminated, istVars, links
<1>13. CASE ServerChannelFails
  BY <1>13, BrokenFacts DEF ServerChannelFails, calleeVars
<1>14. CASE ServerChannelError
  BY <1>14 DEF ServerChannelError, TerminateServer, calleeVars, links
<1> QED BY <1>1, <1>2, <1>3, <1>4, <1>5, <1>6, <1>7, <1>8, <1>9, <1>10, <1>11, <1>12, <1>13, <1>14 DEF ServerStep

\* Init establishes the types.
LEMMA InitTyped == Init => TypeOK
<1> SUFFICES ASSUME Init PROVE TypeOK
  OBVIOUS
<1>1. ClientTypeOK
  <2>1. uac \in UacDialog
    BY DEF Init, ClientInit, UacDialog, DialogStates
  <2>2. clientFailures \in 0..MaxClientFailures
    BY MaxClientFailuresAssumption DEF Init, ClientInit
  <2>3. linked \in BOOLEAN /\ byeSent \in BOOLEAN
    BY DEF Init, ClientInit
  <2>4. ictTimers \subseteq ClientTimers /\ callerFinals \subseteq Final
    BY DEF Init, ClientInit
  <2> QED BY <2>1, <2>2, <2>3, <2>4
          DEF Init, ClientInit, ClientTypeOK, ClientStates, Channels, OpStates
<1>2. ServerTypeOK
  <2>1. uas \in UasDialog
    BY DEF Init, ServerInit, UasDialog
  <2>2. serverFailures \in 0..MaxServerFailures /\ offered \in 0..2
    BY MaxServerFailuresAssumption DEF Init, ServerInit
  <2>3. calleeBye \in BOOLEAN /\ calleeAcked \in BOOLEAN /\ calleeAlive \in BOOLEAN
    BY DEF Init, ServerInit
  <2>4. istTimers \subseteq ServerTimers /\ finalsSent \subseteq Final
    BY DEF Init, ServerInit
  <2> QED BY <2>1, <2>2, <2>3, <2>4
          DEF Init, ServerInit, ServerTypeOK, ServerStates, ServerChannels
<1>3. LinksTypeOK
  BY EmptyLinkFacts DEF Init, LinksTypeOK
<1> QED BY <1>1, <1>2, <1>3 DEF TypeOK, LinksTypeOK

\* Every step keeps them.
LEMMA StepTyped == TypeOK /\ [Next]_vars => TypeOK'
<1> SUFFICES ASSUME TypeOK, [Next]_vars PROVE TypeOK'
  OBVIOUS
<1>1. ClientTypeOK /\ ServerTypeOK /\ LinksTypeOK
  BY DEF TypeOK, LinksTypeOK
<1>2. ClientTypeOK' /\ ServerTypeOK' /\ LinksTypeOK'
  <2>1. CASE ClientStep
    <3>1. ClientTypeOK' /\ LinksTypeOK'
      BY <1>1, <2>1, ClientTyped, ClientLinksTyped
    <3>2. ServerTypeOK'
      BY <1>1, <2>1 DEF ClientStep, serverVars, istVars, calleeVars, ServerTypeOK
    <3> QED BY <3>1, <3>2
  <2>2. CASE ServerStep
    <3>1. ServerTypeOK' /\ LinksTypeOK'
      BY <1>1, <2>2, ServerTyped, ServerLinksTyped
    <3>2. ClientTypeOK'
      BY <1>1, <2>2 DEF ServerStep, clientVars, ictVars, callerVars, ClientTypeOK
    <3> QED BY <3>1, <3>2
  <2>3. CASE Lose
    <3>1. LinksTypeOK'
      BY <1>1, <2>3, DroppedFacts DEF Lose, LinksTypeOK
    <3>2. ClientTypeOK'
      BY <1>1, <2>3 DEF Lose, clientVars, ictVars, callerVars, ClientTypeOK
    <3>3. ServerTypeOK'
      BY <1>1, <2>3 DEF Lose, serverVars, istVars, calleeVars, ServerTypeOK
    <3> QED BY <3>1, <3>2, <3>3
  <2>4. CASE UNCHANGED vars
    <3>1. LinksTypeOK'
      BY <1>1, <2>4 DEF vars, links, LinksTypeOK
    <3>2. ClientTypeOK'
      BY <1>1, <2>4 DEF vars, clientVars, ictVars, callerVars, ClientTypeOK
    <3>3. ServerTypeOK'
      BY <1>1, <2>4 DEF vars, serverVars, istVars, calleeVars, ServerTypeOK
    <3> QED BY <3>1, <3>2, <3>3
  <2> QED BY <2>1, <2>2, <2>3, <2>4 DEF Next
<1> QED BY <1>2 DEF TypeOK, LinksTypeOK

\* Every state of a call has the types its modules state, for every transport,
\* every bound and every number of failures.
THEOREM TypeCorrect == Spec => []TypeOK
<1>1. Init => TypeOK
  BY InitTyped
<1>2. TypeOK /\ [Next]_vars => TypeOK'
  BY StepTyped
<1> QED BY <1>1, <1>2, PTL DEF Spec

-----------------------------------------------------------------------------
(***************************************************************************)
(* What each side does to the outcome of the call.                         *)
(***************************************************************************)

\* What is sent is all that is added to a link, what is read was on it.
LEMMA LinksCarry ==
    ASSUME LinksTypeOK
    PROVE  /\ \A channel, link, m :
                 /\ link \in LinkOf(ToServerMsg) /\ m \in ToServerMsg
                       => Contents(Send(channel, link, m)) \subseteq Contents(link) \cup {m}
                 /\ link \in LinkOf(ToClientMsg) /\ m \in ToClientMsg
                       => Contents(Send(channel, link, m)) \subseteq Contents(link) \cup {m}
           /\ \A m, rest :
                 /\ Arriving(toServer, m) /\ rest \in After(toServer, m)
                       => Contents(rest) \subseteq Contents(toServer) /\ m \in Contents(toServer)
                 /\ Arriving(toClient, m) /\ rest \in After(toClient, m)
                       => Contents(rest) \subseteq Contents(toClient) /\ m \in Contents(toClient)
BY SendFacts, AfterFacts DEF LinksTypeOK

\* The caller's op is told of final responses that arrived, one at a time.
LEMMA ClientLearns ==
    ASSUME LinksTypeOK, ClientStep
    PROVE  /\ \/ callerFinals' = callerFinals
              \/ \E code \in Contents(toClient) \cap Final :
                    callerFinals' = callerFinals \cup {code}
           /\ Contents(toClient') \subseteq Contents(toClient)
<1> USE LinksCarry DEF Final
<1>1. CASE Call
  BY <1>1 DEF Call, IctSendRequest, SendToServer, ictVars, callerVars
<1>2. CASE ClientChannelReady
  BY <1>2 DEF ClientChannelReady, IctSendRequest, SendToServer, callerVars
<1>3. CASE ClientChannelFails
  BY <1>3, BrokenFacts DEF ClientChannelFails, callerVars, LinksTypeOK
<1>4. CASE ClientChannelErrorTransient
  BY <1>4 DEF ClientChannelErrorTransient, Release, CancelAbandoned, Transient, links
<1>5. CASE ClientChannelErrorFinal
  BY <1>5 DEF ClientChannelErrorFinal, TerminateClient, EndTransaction, Release, CancelAbandoned, Transient, links
<1>6. CASE TimerA
  BY <1>6 DEF TimerA, SendToServer, callerVars
<1>7. CASE TimerB
  BY <1>7 DEF TimerB, EndTransaction, Release, links
<1>8. CASE \E timer \in {"D", "M", "repair"} : TimerEnds(timer)
  BY <1>8 DEF TimerEnds, TerminateClient, EndTransaction, Release, links
<1>9. CASE CancelTimeout
  BY <1>9 DEF CancelTimeout, Release, ictVars, links
<1>10. CASE HangUp
  BY <1>10 DEF HangUp, SendToServer
<1>11. CASE CallerByeDone
  BY <1>11 DEF CallerByeDone, ictVars, links
<1>12. CASE CallerDialogTerminated
  BY <1>12 DEF CallerDialogTerminated, Release, ictVars, links
<1>13. CASE ClientReceive
  <2>1. CASE RecvStateless
    BY <2>1 DEF RecvStateless, clientVars, ictVars, callerVars
  <2>2. CASE \E code \in Provisional : RecvProvisional(code)
    BY <2>2 DEF RecvProvisional, Response, SendToServer, Reassociated
  <2>3. CASE \E code \in Failure : RecvReject(code)
    BY <2>3 DEF RecvReject, Response, SendToServer, Reassociated, Release
  <2>4. CASE \E code \in Failure : RecvRejectAgain(code)
    BY <2>4 DEF RecvRejectAgain, Response, SendToServer, Reassociated, callerVars
  <2>5. CASE \E code \in Success : RecvAccept(code)
    BY <2>5 DEF RecvAccept, Response, SendToServer, Reassociated, HangUpAccepted
  <2>6. CASE \E code \in Success : RecvAcceptAgain(code)
    BY <2>6 DEF RecvAcceptAgain, Response, SendToServer, Reassociated, HangUpAccepted
  <2>7. CASE \E code \in Codes : RecvIgnored(code)
    BY <2>7 DEF RecvIgnored, Response, Reassociated, callerVars
  <2>8. CASE RecvCancelAnswer
    BY <2>8 DEF RecvCancelAnswer, ictVars
  <2>9. CASE RecvByeFromCallee
    BY <2>9 DEF RecvByeFromCallee, ictVars
  <2> QED BY <1>13, <2>1, <2>2, <2>3, <2>4, <2>5, <2>6, <2>7, <2>8, <2>9 DEF ClientReceive
<1> QED BY <1>1, <1>2, <1>3, <1>4, <1>5, <1>6, <1>7, <1>8, <1>9, <1>10, <1>11, <1>12, <1>13 DEF ClientStep

\* The caller acknowledges a 2xx only from a dialog that was told of it, and
\* that dialog stays the acknowledged one.
LEMMA ClientAcks ==
    ASSUME ClientTypeOK, LinksTypeOK, AckInv, ClientStep
    PROVE  AckInv'
<1> calleeAcked' = calleeAcked
  BY DEF ClientStep, serverVars, calleeVars
<1> USE LinksCarry, LinksTyped
    DEF AckInv, LinksTypeOK, ToServerMsg, Requests, ClientTypeOK, UacDialog
<1>1. CASE Call
  BY <1>1 DEF Call, IctSendRequest, SendToServer, ictVars, callerVars
<1>2. CASE ClientChannelReady
  BY <1>2 DEF ClientChannelReady, IctSendRequest, SendToServer, callerVars
<1>3. CASE ClientChannelFails
  BY <1>3, BrokenFacts DEF ClientChannelFails, callerVars
<1>4. CASE ClientChannelErrorTransient
  BY <1>4 DEF ClientChannelErrorTransient, Release, CancelAbandoned, Transient, links
<1>5. CASE ClientChannelErrorFinal
  BY <1>5 DEF ClientChannelErrorFinal, TerminateClient, EndTransaction, Release, CancelAbandoned, Transient, links
<1>6. CASE TimerA
  BY <1>6 DEF TimerA, SendToServer, callerVars
<1>7. CASE TimerB
  BY <1>7 DEF TimerB, EndTransaction, Release, links
<1>8. CASE \E timer \in {"D", "M", "repair"} : TimerEnds(timer)
  BY <1>8 DEF TimerEnds, TerminateClient, EndTransaction, Release, links
<1>9. CASE CancelTimeout
  BY <1>9 DEF CancelTimeout, Release, ictVars, links
<1>10. CASE HangUp
  BY <1>10 DEF HangUp, SendToServer
<1>11. CASE CallerByeDone
  BY <1>11 DEF CallerByeDone, ictVars, links
<1>12. CASE CallerDialogTerminated
  BY <1>12 DEF CallerDialogTerminated, Release, ictVars, links
<1>13. CASE ClientReceive
  <2>1. CASE RecvStateless
    BY <2>1 DEF RecvStateless, clientVars, ictVars, callerVars
  <2>2. CASE \E code \in Provisional : RecvProvisional(code)
    <3>1. "ACK2xx" \in Contents(toServer') => uac'.acked
      BY <2>2 DEF RecvProvisional, Waiting, Response, SendToServer, Reassociated
    <3>2. calleeAcked => uac'.acked
      BY <2>2 DEF RecvProvisional, Waiting, Response, SendToServer, Reassociated
    <3>3. uac'.acked => /\ ictState' \in {"ACCEPTED", "TERMINATED"}
                        /\ "200" \in callerFinals'
      BY <2>2 DEF RecvProvisional, Waiting, Response, SendToServer, Reassociated
    <3> QED BY <3>1, <3>2, <3>3
  <2>3. CASE \E code \in Failure : RecvReject(code)
    <3>1. "ACK2xx" \in Contents(toServer') => uac'.acked
      BY <2>3 DEF RecvReject, Waiting, Response, SendToServer, Reassociated, Release
    <3>2. calleeAcked => uac'.acked
      BY <2>3 DEF RecvReject, Waiting, Response, SendToServer, Reassociated, Release
    <3>3. uac'.acked => /\ ictState' \in {"ACCEPTED", "TERMINATED"}
                        /\ "200" \in callerFinals'
      BY <2>3 DEF RecvReject, Waiting, Response, SendToServer, Reassociated, Release
    <3> QED BY <3>1, <3>2, <3>3
  <2>4. CASE \E code \in Failure : RecvRejectAgain(code)
    BY <2>4 DEF RecvRejectAgain, Response, SendToServer, Reassociated, callerVars
  <2>5. CASE \E code \in Success : RecvAccept(code)
    <3>1. "ACK2xx" \in Contents(toServer') => uac'.acked
      BY <2>5 DEF RecvAccept, Waiting, Success, Response, SendToServer, Reassociated, HangUpAccepted
    <3>2. calleeAcked => uac'.acked
      BY <2>5 DEF RecvAccept, Waiting, Success, Response, SendToServer, Reassociated, HangUpAccepted
    <3>3. uac'.acked => /\ ictState' \in {"ACCEPTED", "TERMINATED"}
                        /\ "200" \in callerFinals'
      BY <2>5 DEF RecvAccept, Waiting, Success, Response, SendToServer, Reassociated, HangUpAccepted
    <3> QED BY <3>1, <3>2, <3>3
  <2>6. CASE \E code \in Success : RecvAcceptAgain(code)
    BY <2>6 DEF RecvAcceptAgain, Response, SendToServer, Reassociated, HangUpAccepted
  <2>7. CASE \E code \in Codes : RecvIgnored(code)
    BY <2>7 DEF RecvIgnored, Response, Reassociated, callerVars
  <2>8. CASE RecvCancelAnswer
    BY <2>8 DEF RecvCancelAnswer, ictVars
  <2>9. CASE RecvByeFromCallee
    BY <2>9 DEF RecvByeFromCallee, ictVars
  <2> QED BY <1>13, <2>1, <2>2, <2>3, <2>4, <2>5, <2>6, <2>7, <2>8, <2>9 DEF ClientReceive
<1> QED BY <1>1, <1>2, <1>3, <1>4, <1>5, <1>6, <1>7, <1>8, <1>9, <1>10, <1>11, <1>12, <1>13 DEF ClientStep

\* The callee's steps decide an outcome once, and only then put another final
\* response than the decided one on the link.
Decides ==
    /\ \/ finalsSent' = finalsSent
       \/ finalsSent = {} /\ \E code \in Final : finalsSent' = {code}
    /\ Contents(toClient') \cap Final \subseteq Contents(toClient) \cup finalsSent'

\* Answering does so (ist_send_new_response), from whatever state.
LEMMA ResponseDecides ==
    ASSUME ServerTypeOK, UndecidedInv, RepeatedInv, LinksTypeOK,
           NEW code \in Codes, NEW timers, NEW link \in LinkOf(ToClientMsg),
           Contents(link) \cap Final \subseteq Contents(toClient),
           SendResponse(code, timers, link)
    PROVE  Decides /\ UndecidedInv' /\ RepeatedInv'
<1>1. CASE /\ istState = "PROCEEDING"
           /\ toClient' = Send(ResponseChannel, link, code)
           /\ istState' = IF code \in Success THEN "ACCEPTED"
                          ELSE IF code \in Failure THEN "COMPLETED"
                          ELSE "PROCEEDING"
           /\ istLast' = code
           /\ finalsSent' = finalsSent \cup ({code} \cap Final)
           /\ uas' = Updated(uas, code)
  <2>1. finalsSent = {} /\ ~uas.retrans
    BY <1>1 DEF UndecidedInv, RepeatedInv
  <2>2. code \in ToClientMsg
    BY DEF ToClientMsg
  <2>3. Contents(toClient') \subseteq Contents(link) \cup {code}
    BY <1>1, <2>2, SendFacts
  <2>4. Decides
    BY <1>1, <2>1, <2>3 DEF Decides
  <2>5. UndecidedInv'
    BY <1>1, <2>1 DEF UndecidedInv, Final
  <2>6. uas'.retrans => code \in Success
    BY <1>1, <2>1 DEF Updated, ServerTypeOK, UasDialog
  <2>7. RepeatedInv'
    BY <1>1, <2>6 DEF RepeatedInv, Final, Success
  <2> QED BY <2>4, <2>5, <2>7
<1>2. CASE /\ istState # "PROCEEDING"
           /\ uas' = Updated(uas, istLast)
           /\ toClient' = link
           /\ UNCHANGED <<istState, istLast, finalsSent>>
  <2>1. Decides /\ UndecidedInv'
    BY <1>2 DEF Decides, UndecidedInv
  <2>2. uas'.retrans => uas.retrans \/ istLast \in Success
    BY <1>2 DEF Updated, ServerTypeOK, UasDialog
  <2>3. RepeatedInv'
    BY <1>2, <2>2 DEF RepeatedInv, Final, Success
  <2> QED BY <2>1, <2>3
<1> QED BY <1>1, <1>2 DEF SendResponse

\* Every step of the callee is such a step.
LEMMA ServerDecides ==
    ASSUME ServerTypeOK, UndecidedInv, RepeatedInv, LinksTypeOK, ServerStep
    PROVE  Decides /\ UndecidedInv' /\ RepeatedInv'
<1> USE LinksCarry, LinksTyped
    DEF Decides, UndecidedInv, RepeatedInv, LinksTypeOK, ServerTypeOK, UasDialog,
        ToClientMsg, Codes, Provisional, Final, Success, Failure
<1>1. CASE ServerReceive
  <2>1. CASE RecvInvite
    BY <2>1 DEF RecvInvite, Request, SendToClient
  <2>2. CASE RecvInviteAsNew
    BY <2>2 DEF RecvInviteAsNew, Request, istVars
  <2>3. CASE RecvInviteAgain
    BY <2>3 DEF RecvInviteAgain, Request, SendToClient, istVars, calleeVars, ServerLive
  <2>4. CASE RecvAck
    BY <2>4 DEF RecvAck, Request, TerminateServer, calleeVars
  <2>5. CASE RecvAck2xx
    BY <2>5 DEF RecvAck2xx, Request, istVars
  <2>6. CASE RecvCancel
    <3> DEFINE answered == Send(ResponseChannel, toClient, "CancelAnswer")
    <3>1. /\ answered \in LinkOf(ToClientMsg)
          /\ Contents(answered) \cap Final \subseteq Contents(toClient)
      OBVIOUS
    <3> HIDE DEF answered
    <3>2. CASE SendResponse("487", istTimers, answered)
      BY <3>1, <3>2, ResponseDecides
    <3>3. CASE UNCHANGED <<istVars, uas>> /\ toClient' \in {toClient, answered}
      BY <3>1, <3>3 DEF istVars
    <3> QED BY <2>6, <3>2, <3>3 DEF RecvCancel, SendToClient, answered
  <2>7. CASE RecvByeFromCaller
    BY <2>7 DEF RecvByeFromCaller, Request, istVars
  <2> QED BY <1>1, <2>1, <2>2, <2>3, <2>4, <2>5, <2>6, <2>7 DEF ServerReceive
<1>2. CASE Ring
  BY <1>2, ResponseDecides DEF Ring
<1>3. CASE Accept
  BY <1>3, ResponseDecides DEF Accept, Answer
<1>4. CASE Decline
  BY <1>4, ResponseDecides DEF Decline, Answer
<1>5. CASE CalleeHangUp
  BY <1>5 DEF CalleeHangUp, SendToClient, istVars
<1>6. CASE TimerG
  BY <1>6 DEF TimerG, SendToClient, calleeVars
<1>7. CASE \E timer \in {"H", "I", "L"} : InviteGone /\ ServerTimerEnds(timer)
  BY <1>7 DEF ServerTimerEnds, TerminateServer, calleeVars, links
<1>8. CASE ServerRepairTimer
  BY <1>8, ResponseDecides DEF ServerRepairTimer
<1>9. CASE Retransmit200
  BY <1>9 DEF Retransmit200, SendToClient, serverVars, istVars, calleeVars
<1>10. CASE Give200Up
  BY <1>10 DEF Give200Up, SendToClient, istVars
<1>11. CASE CalleeByeDone
  BY <1>11 DEF CalleeByeDone, istVars, links
<1>12. CASE CalleeDialogTerminated
  BY <1>12 DEF CalleeDialogTerminated, istVars, links
<1>13. CASE ServerChannelFails
  BY <1>13, BrokenFacts DEF ServerChannelFails, calleeVars
<1>14. CASE ServerChannelError
  BY <1>14 DEF ServerChannelError, TerminateServer, calleeVars, links
<1> QED BY <1>1, <1>2, <1>3, <1>4, <1>5, <1>6, <1>7, <1>8, <1>9, <1>10, <1>11, <1>12, <1>13, <1>14 DEF ServerStep

\* The callee's dialog is acknowledged by an ACK that arrived.
LEMMA ServerConfirms ==
    ASSUME LinksTypeOK, ServerStep
    PROVE  /\ Contents(toServer') \subseteq Contents(toServer)
           /\ \/ calleeAcked' = calleeAcked
              \/ /\ calleeAcked' = TRUE
                 /\ "ACK2xx" \in Contents(toServer)
                 /\ finalsSent' = finalsSent
<1> USE LinksCarry
<1>1. CASE ServerReceive
  <2>1. CASE RecvInvite
    BY <2>1 DEF RecvInvite, Request, SendToClient
  <2>2. CASE RecvInviteAsNew
    BY <2>2 DEF RecvInviteAsNew, Request, istVars
  <2>3. CASE RecvInviteAgain
    BY <2>3 DEF RecvInviteAgain, Request, SendToClient, istVars, calleeVars
  <2>4. CASE RecvAck
    BY <2>4 DEF RecvAck, Request, TerminateServer, calleeVars
  <2>5. CASE RecvAck2xx
    BY <2>5 DEF RecvAck2xx, Request, istVars
  <2>6. CASE RecvCancel
    BY <2>6 DEF RecvCancel, Request, SendToClient, istVars
  <2>7. CASE RecvByeFromCaller
    BY <2>7 DEF RecvByeFromCaller, Request, istVars
  <2> QED BY <1>1, <2>1, <2>2, <2>3, <2>4, <2>5, <2>6, <2>7 DEF ServerReceive
<1>2. CASE Ring
  BY <1>2 DEF Ring
<1>3. CASE Accept
  BY <1>3 DEF Accept, Answer
<1>4. CASE Decline
  BY <1>4 DEF Decline, Answer
<1>5. CASE CalleeHangUp
  BY <1>5 DEF CalleeHangUp, SendToClient, istVars
<1>6. CASE TimerG
  BY <1>6 DEF TimerG, SendToClient, calleeVars
<1>7. CASE \E timer \in {"H", "I", "L"} : InviteGone /\ ServerTimerEnds(timer)
  BY <1>7 DEF ServerTimerEnds, TerminateServer, calleeVars, links
<1>8. CASE ServerRepairTimer
  BY <1>8 DEF ServerRepairTimer
<1>9. CASE Retransmit200
  BY <1>9 DEF Retransmit200, SendToClient, serverVars, istVars, calleeVars
<1>10. CASE Give200Up
  BY <1>10 DEF Give200Up, SendToClient, istVars
<1>11. CASE CalleeByeDone
  BY <1>11 DEF CalleeByeDone, istVars, links
<1>12. CASE CalleeDialogTerminated
  BY <1>12 DEF CalleeDialogTerminated, istVars, links
<1>13. CASE ServerChannelFails
  BY <1>13, BrokenFacts DEF ServerChannelFails, calleeVars, LinksTypeOK
<1>14. CASE ServerChannelError
  BY <1>14 DEF ServerChannelError, TerminateServer, calleeVars, links
<1> QED BY <1>1, <1>2, <1>3, <1>4, <1>5, <1>6, <1>7, <1>8, <1>9, <1>10, <1>11, <1>12, <1>13, <1>14 DEF ServerStep

-----------------------------------------------------------------------------
(***************************************************************************)
(* The invariant of the outcome.                                           *)
(***************************************************************************)

\* Nothing has happened before the call.
LEMMA OutcomeInit == Init => OutcomeInv
<1> SUFFICES ASSUME Init PROVE OutcomeInv
  OBVIOUS
<1>1. TypeOK
  BY InitTyped
<1>2. Contents(toServer) = {} /\ Contents(toClient) = {}
  BY EmptyLinkFacts DEF Init
<1> QED BY <1>1, <1>2
        DEF Init, ClientInit, ServerInit, OutcomeInv, SingleFinal, UndecidedInv,
            RepeatedInv, OutcomeAgreement, AckInv, NoAnswer, Final, Success, Failure

\* Every step keeps the invariant: of the caller it only needs ClientLearns
\* and ClientAcks, of the callee ServerDecides and ServerConfirms.
LEMMA OutcomeStep == OutcomeInv /\ [Next]_vars => OutcomeInv'
<1> SUFFICES ASSUME OutcomeInv, [Next]_vars PROVE OutcomeInv'
  OBVIOUS
<1> USE DEF OutcomeInv
<1>1. TypeOK'
  BY StepTyped
<1>2. ClientTypeOK /\ ServerTypeOK /\ LinksTypeOK
  BY DEF TypeOK, LinksTypeOK
<1>3. CASE ClientStep
  <2>1. UNCHANGED <<istState, istLast, uas, finalsSent, calleeAcked>>
    BY <1>3 DEF ClientStep, serverVars, istVars, calleeVars
  <2>2. OutcomeAgreement'
    BY <1>2, <1>3, <2>1, ClientLearns DEF OutcomeAgreement
  <2>3. AckInv'
    BY <1>2, <1>3, ClientAcks
  <2> QED BY <1>1, <2>1, <2>2, <2>3 DEF SingleFinal, UndecidedInv, RepeatedInv
<1>4. CASE ServerStep
  <2>1. UNCHANGED <<ictState, uac, callerFinals>>
    BY <1>4 DEF ServerStep, clientVars, ictVars, callerVars
  <2>2. Decides /\ UndecidedInv' /\ RepeatedInv'
    BY <1>2, <1>4, ServerDecides
  <2>3. SingleFinal' /\ finalsSent \subseteq finalsSent'
    BY <2>2 DEF Decides, SingleFinal
  <2>4. OutcomeAgreement'
    BY <2>1, <2>2, <2>3 DEF Decides, OutcomeAgreement
  <2>5. AckInv'
    <3>1. "ACK2xx" \in Contents(toServer') => uac'.acked
      BY <1>2, <1>4, <2>1, ServerConfirms DEF AckInv
    <3>2. calleeAcked' => uac'.acked
      <4>1. CASE calleeAcked' = calleeAcked
        BY <2>1, <4>1 DEF AckInv
      <4>2. CASE "ACK2xx" \in Contents(toServer)
        BY <2>1, <4>2 DEF AckInv
      <4> QED BY <1>2, <1>4, <4>1, <4>2, ServerConfirms
    <3>3. uac'.acked => /\ ictState' \in {"ACCEPTED", "TERMINATED"}
                        /\ "200" \in callerFinals'
      BY <2>1 DEF AckInv
    <3> QED BY <3>1, <3>2, <3>3 DEF AckInv
  <2> QED BY <1>1, <2>2, <2>3, <2>4, <2>5
<1>5. CASE Lose
  <2>1. /\ Contents(toServer') \subseteq Contents(toServer)
        /\ Contents(toClient') \subseteq Contents(toClient)
    BY <1>2, <1>5, DroppedFacts DEF Lose, LinksTypeOK
  <2> QED BY <1>1, <1>5, <2>1
          DEF Lose, clientVars, ictVars, callerVars, serverVars, istVars, calleeVars,
              SingleFinal, UndecidedInv, RepeatedInv, OutcomeAgreement, AckInv
<1>6. CASE UNCHANGED vars
  BY <1>1, <1>6
     DEF vars, links, clientVars, ictVars, callerVars, serverVars, istVars, calleeVars,
         SingleFinal, UndecidedInv, RepeatedInv, OutcomeAgreement, AckInv
<1> QED BY <1>3, <1>4, <1>5, <1>6 DEF Next

\* The inductive invariant holds of every call.
THEOREM OutcomeInvariant == Spec => []OutcomeInv
<1>1. Init => OutcomeInv
  BY OutcomeInit
<1>2. OutcomeInv /\ [Next]_vars => OutcomeInv'
  BY OutcomeStep
<1> QED BY <1>1, <1>2, PTL DEF Spec

\* However an answer, a decline, a CANCEL and the repair timer's 503 race, the
\* INVITE gets one final response.
THEOREM OneFinalResponse == Spec => []SingleFinal
<1>1. OutcomeInv => SingleFinal
  BY DEF OutcomeInv
<1> QED BY <1>1, OutcomeInvariant, PTL

\* The caller's op is told the outcome the callee gave, and no other.
THEOREM OutcomesAgree == Spec => []OutcomeAgreement
<1>1. OutcomeInv => OutcomeAgreement
  BY DEF OutcomeInv
<1> QED BY <1>1, OutcomeInvariant, PTL

\* A dialog the callee takes for acknowledged was acknowledged by the caller.
THEOREM AckIsCausal == Spec => []AckCausality
<1>1. OutcomeInv => AckCausality
  BY DEF OutcomeInv, AckInv, AckCausality
<1> QED BY <1>1, OutcomeInvariant, PTL

-----------------------------------------------------------------------------
(***************************************************************************)
(* The handshake.                                                          *)
(***************************************************************************)

\* A step of the call decides, learns or confirms the outcome, or none of
\* these.
LEMMA HandshakeStep ==
    ASSUME OutcomeInv, OutcomeInv', [Next]_vars
    PROVE  [Handshake!Next]_Handshake!agreementVars
<1> USE DEF Handshake!Next, Handshake!agreementVars
<1>1. ClientTypeOK /\ ServerTypeOK /\ LinksTypeOK
  BY DEF OutcomeInv, TypeOK, LinksTypeOK
<1>2. CASE ClientStep
  <2>1. UNCHANGED <<finalsSent, calleeAcked>>
    BY <1>2 DEF ClientStep, serverVars, istVars, calleeVars
  <2>2. CASE callerFinals' = callerFinals
    BY <2>1, <2>2
  <2>3. ASSUME NEW code \in Contents(toClient) \cap Final,
               callerFinals' = callerFinals \cup {code}
        PROVE  callerFinals' = callerFinals \/ Handshake!Learn
    <3>1. finalsSent = {code} /\ callerFinals \subseteq {code}
      BY DEF OutcomeInv, OutcomeAgreement, SingleFinal
    <3> QED BY <2>1, <2>3, <3>1 DEF Handshake!Learn
  <2> QED BY <1>1, <1>2, <2>1, <2>2, <2>3, ClientLearns
<1>3. CASE ServerStep
  <2>1. callerFinals' = callerFinals
    BY <1>3 DEF ServerStep, clientVars, ictVars, callerVars
  <2>2. CASE calleeAcked' = calleeAcked
    <3>1. Decides
      BY <1>1, <1>3, ServerDecides DEF OutcomeInv
    <3> QED BY <2>1, <2>2, <3>1 DEF Decides, Handshake!Decide
  <2>3. CASE /\ calleeAcked' = TRUE
             /\ "ACK2xx" \in Contents(toServer)
             /\ finalsSent' = finalsSent
    <3>1. "200" \in callerFinals
      BY <2>3 DEF OutcomeInv, AckInv
    <3> QED BY <2>1, <2>3, <3>1 DEF Handshake!Confirm, Success
  <2> QED BY <1>1, <1>3, <2>2, <2>3, ServerConfirms
<1>4. CASE Lose \/ UNCHANGED vars
  BY <1>4 DEF Lose, vars, clientVars, callerVars, serverVars, istVars, calleeVars
<1> QED BY <1>2, <1>3, <1>4 DEF Next

\* The call implements the handshake: the outcome is decided once, learned as
\* it was decided, and the call confirmed only after its acceptance was
\* learned, whatever the network and the channels do.
THEOREM CallImplementsHandshake == Spec => ImplementsHandshake
<1>1. Init => Handshake!Init
  BY DEF Init, ClientInit, ServerInit, Handshake!Init
<1>2. OutcomeInv /\ OutcomeInv' /\ [Next]_vars => [Handshake!Next]_Handshake!agreementVars
  BY HandshakeStep
<1> QED BY <1>1, <1>2, OutcomeInvariant, PTL DEF Spec, ImplementsHandshake, Handshake!Spec
=============================================================================
