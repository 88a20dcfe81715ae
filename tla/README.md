# Verification of GrooVe IP's call signalling

This directory holds a TLA+ model of the call signalling of GrooVe IP for iOS:
belle-sip's transactions, dialogs, channels and refreshers, linphone's call
operation, and the ZRTP key agreement of a call. The repository is a fork of
Linphone for iOS; `src/submodules` holds the Belledonne libraries, `src/Classes` the
application.

## The system

| Part | Source | State it keeps | Operations | Modelled |
|---|---|---|---|---|
| INVITE client transaction | `belle-sip/src/ict.c` | state, timers A, B, D, M, ACK | send, response, timers, stop retransmissions | `InviteClient` |
| INVITE server transaction | `belle-sip/src/ist.c` | state, timers G, H, I, L | new response, ACK, retransmitted request, timers | `InviteServer` |
| Transaction core | `belle-sip/src/transaction.c` | last response, channel, dialog, repair timer | send, channel state change, terminate, cancel, timeout | both, INVITE and CANCEL paths |
| Provider | `belle-sip/src/provider.c` | lists of transactions and dialogs | dispatch, find, re-associate, remove | both |
| Dialog | `belle-sip/src/dialog.c` | state, needs_ack, last ACK, 200Ok timers, queue | update, ACK, 200 retransmission, BYE, delete | both, one INVITE |
| Call operation | `linphone/src/sal/call-op.cpp` | state, dialog, pending transactions | call, accept, decline, cancel, terminate, callbacks | both |
| Channel | `belle-sip/src/channel.c`, `transports/stream_channel.c` | state, peer addresses, socket, outgoing queue, partly sent message | prepare, queue, resolve, connect, retry, write, read, parse, error, close | `Channel`, `ChannelInput`; the transactions see it as nondeterministic events |
| Listening point | `belle-sip/src/listeningpoint.c` | channels, keep alive timer | keep alive, find and close channels | its keep alive, in `Channel` |
| Non-INVITE transactions | `belle-sip/src/nict.c`, `nist.c` | state, timers E, F, K, J | send, response, timers, channel events | the client's, in `NonInviteClient` |
| Refresher | `belle-sip/src/refresher.c` | started, timer and its purpose, target expires, auth failures, current transaction | refresh, stop, answers, timeout, lost channel, timer | `Refresher`, REGISTER and PUBLISH |
| ZRTP | `bzrtp/src/stateMachine.c`, `bzrtp.c`, `zidCache.c` | protocol state, role, retransmission timer, s0, retained secrets | packets, timer, start, reset, SAS verified, destroy | `Zrtp`, first channel in DH mode |
| Call session | `linphone/src/conference/session` | call state | callbacks of the call operation | not modelled |
| ICE, RTP | `mediastreamer2`, `ortp` | checklists, jitter buffer | | not modelled |
| iOS managers, UI, codecs, parsers | `src/Classes`, other submodules | | | not modelled |

The parts interact by direct calls and listener callbacks on one main loop per
process: a transaction calls its channel to send; the channel calls the provider
with what it received, which finds the transaction or the dialog; the transaction
updates its dialog and then notifies the listener, which is the op; the op sends on
the dialog from within that callback. Three things are deferred to a later turn of
the main loop: the notification of a channel error, the notification that a dialog
terminated, and the release of an op after it. The two agents of a call share
nothing but the messages between them.

What is hard is therefore not data races but the order of events: messages that
cross, are lost, repeated or late; timers against messages; a channel that breaks
between any two of them; deferred callbacks that find another state than the one
that caused them; and three objects (transaction, dialog, op) with a life of their
own for what the user sees as one call. A refresher adds a fourth life: it outlives
its transactions, whose late events reach it, and its listener may stop it from
inside the event it is handling. Two ZRTP engines share nothing but packets, and
still must agree on who leads, on the secret of an earlier call, and on when media
may be encrypted.

## Modules

- `SipTransport` - the two links between the agents. Over TCP (`Reliable`) a link is
  a sequence, over UDP a set whose members may be lost, repeated and overtaken. What
  is sent over a channel in error is dropped with the channel's queue.
- `InviteClient` - the caller: `ictState`, `ictTimers`, `ictChannel`, `ictLast` are
  the fields of `belle_sip_ict_t` and its base; `uac` the dialog; `callerOp`,
  `linked`, `cancel`, `byeSent` the call operation. One action per operation
  (`Call`, `HangUp`), response (`Recv...`), timer and channel event. An action is a
  whole callback: for a response, the transaction's step, the dialog's update and
  what the op does in its listener.
- `InviteServer` - the callee, the same way: `istState` ... for `belle_sip_ist_t`,
  `uas` for its dialog with the retransmission of the 200, `calleeOp` for the op.
  `Accept` and `Decline` are enabled in every state of the op that still has its
  transaction, as `call-op.cpp` asks for no other.
  `finalsSent`, `offered`, `calleeAcked` are history.
- `InviteCall` - both, the links, the network's losses, fairness, the properties and
  the inductive invariants `OutcomeInv`, `CallInv`, `OfferedInv` and `InFlightInv`.
- `CallAgreement` - the abstract specification: the callee decides an outcome once,
  the caller learns the decided outcome, the call is confirmed once the caller
  learned of its acceptance. `InviteCall!Handshake` is the refinement mapping.
- `InviteCall_proofs` - the proofs about the outcome of a call; `InviteSafety_proofs`
  those about its ops, dialogs and timers, and about what is in flight over
  connections that do not fail.
- `Channel` - one outgoing TCP channel. `state`, `peers` (the addresses from
  `current_peer` on), `resolving`, `dnsTimer`, `outgoing`, `current`, `outState` and
  `blocked` (`ewouldblock_buffer` from its offset) are fields of
  `belle_sip_channel_t`; `socket` and `watchWrite` are what the main loop polls;
  `connectDue` and `errorDue` are the two callbacks the channel defers with
  `belle_sip_main_loop_do_later`; `notified` says that the listeners were told and
  dropped the channel. `wire` and `queued` are history. The actions of `Use` are
  what transactions, provider and listening point call; those of `Loop` what the
  main loop calls. `ProcessQueue` is `channel_process_queue`, with each write that
  it makes succeeding, blocking or failing: a message is two pieces, and any of them
  may be the first not written.
- `Channel_proofs` - the proofs about a channel.
- `NonInviteClient` - the non-INVITE client transactions of one owner and the
  channel they share, as functions from a world to a world (`w.transactions`,
  `w.channel`): `NictSend`, `Ended`, `SendRequest`, `ChannelError`,
  `ReportDeadChannel` are the pieces that the handlers of `transaction.c`, `nict.c`
  and `channel.c` are made of. They are operators, not actions, because the code
  runs the listener in the middle of a handler, and the listener sends or terminates
  again.
- `Refresher` - `refresher.c` above it, and the application above that. `refresher`
  is `belle_sip_refresher_t` (`timer` with `timer_purpose`, `expires` is
  `target_expires`, `challenged` is `auth_failures`, `ioError` is `on_io_error`,
  `pending` is `publish_pending`, `current` its transaction); `told` and `asked` are
  history: the last report of the listener and the last expiry asked for.
  `ProcessResponse` and its parts are `process_response_event` by class of answer.
  Each action is one turn of the main loop (an answer, timer F or K, the refresher's
  timer, a channel event) or one call of the application. `Reactions` is what the
  application does inside its listener.
- `Refresher_proofs` - the proofs about what it sends; `RefresherWatch_proofs` those
  about what keeps it going.
- `Zrtp` - two ends, `chan[p]` their channel contexts, `cache[p]` what each retained
  of the other, `link[p]` what each has sent and is under way. One action per packet
  (`RecvHello` ... `RecvConf2ACK`, each with the states that accept it),
  `Unexpected` for what a state drops, `Timer` for `bzrtp_iterate`, `NextSession`
  for the next call of the two. A packet may be lost, and one that is overtaken is
  refused, as `packetCheck` takes no older sequence number than the last it
  accepted.
- `Zrtp_proofs` - the proofs about its roles; `ZrtpAgreement_proofs` those about its
  secrets, its caches and its end.
- `ChannelInput` - the other direction: how the bytes of a connection are cut into
  messages. `input` is `input_stream` with the list `incoming_messages`; a turn of
  the loop of `belle_sip_channel_parse_stream` is `Turn`, and `ParseStream` repeats
  it until it changes nothing, which is where the loop breaks. `Read` and
  `ReadNothing` are `belle_sip_channel_process_read_data`, with as many pieces as
  `recv` may return. `stream` is a history of all that the peer sent, of which `got`
  pieces were read; where a message begins, whether it arrived and whether something
  stands before it that will be trashed is read from it. `wholeLines` remembers the
  messages whose first line came in one read. The module shares no state with
  `Channel`: the input stream neither reads nor changes what that module models,
  except that a read of nothing disconnects.
- `ChannelInput_proofs` - the proofs about the input stream.

Definitions that begin "Mutant:" in a comment are wrong variants of the definition
below them; no specification uses them. They document which mistake each property
catches.

### Abstractions

- The non-INVITE transactions of a call are not composed with it step by step. A BYE
  is one message; that its transaction was answered or timed out is `CallerByeDone`
  or `CalleeByeDone`, at any time. A CANCEL is a message and its answer, or a
  timeout.
- The deferred callbacks "dialog terminated" and "release the op" of `call-op.cpp`
  are one step; the deferred notification of a channel error is its own action.
- Response codes of a class the handlers treat alike are one code: 180 for the
  provisional ones that create a dialog, 200, 486, 487 and 503.
- The first INVITE and its copies only: no re-INVITE, UPDATE, authentication,
  redirection or forking, no session timers, one callee. A second call offered by a
  late copy of the INVITE is counted in `offered` and not followed.
- "connecting" stands for all channel states before READY; the callee's connecting
  channel accepts messages and so is "ready". A transaction that needs a channel
  gets a new one (`belle_sip_provider_get_channel`).
- The callee rings once per call; 405 answers to stray ACKs, 481 and 501 answers to
  stray BYEs are left out as nothing waits for them.
- Over a broken TCP connection what is in flight either still arrives as a whole or
  is lost as a whole.

- A refresher's request carries an expiry that is zero (`unregister`, `unpublish`)
  or not. Its channel is one for all its transactions, as the provider finds the
  same one for the same next hop. Timer E repeats a request over UDP and changes
  nothing: an answer may come at any time.
- Whether credentials, a usable contact or a Min-Expires exist is chosen at each
  answer. A listening point of the transport may be missing when a channel has to be
  made.
- In ZRTP the hash, MAC and key computations are replaced by what they compare: a
  retained secret is the number of the session it was derived in, `s0` the pair of
  `s1` and the initiator. A packet with a wrong MAC is refused. One copy of a packet
  is under way at a time, and who has the lower hvi is chosen once per session.

## Runs

| Run | Constants | Properties | What it shows |
|---|---|---|---|
| `InviteTcp` (pass) | Reliable=TRUE, MaxInFlight=3, MaxClientFailures=0, MaxServerFailures=0 | `NoHalfOpenCall`, `InFlightInv`, `ClientSettles`, `ServerSettles`, `UncancelledOpReleased`, `AcceptedCallShared` | A call over TCP without failures: every interleaving of answer, decline, hang-up, CANCEL, BYE, their timers and the 200 retransmission, over links that keep order, with an application that may answer again as long as its op has the transaction. When nothing is in flight both ops agree whether there is a call, because what only one of them knows is in flight (the inductive invariant of that proof); both transactions end, an op that hung up without a CANCEL is released, and an accepted call is shared or over. |
| `InviteUdp` (pass) | Reliable=FALSE, MaxInFlight=3, MaxClientFailures=0, MaxServerFailures=0 | `OutcomeAgreement`, `NoGhostCall`, `AckAwaited`, `ImplementsHandshake` | The same call over UDP, every datagram lost, repeated or overtaken: the outcome is decided once and learned as decided, the INVITE is offered once, no dialog waits for its ACK without repeating its 200. |
| `InviteTcpFailures` (pass) | Reliable=TRUE, MaxInFlight=3, MaxClientFailures=1, MaxServerFailures=1 | `CallInv`, `SingleFinal`, `UnwantedCallHungUp`, `NoStuckClient`, `NoStuckServer` | Each side's channel breaks once at any point, messages in flight delivered or lost, with the repair timers and the re-association to a new channel; an op that does not want the call that its dialog confirmed has hung up. The inductive invariant of the proofs is checked here. |
| `OpKeptAfterRepair` (violation) | Reliable=TRUE, MaxInFlight=3, MaxClientFailures=1, MaxServerFailures=0 | `OpReleased` | An op hung up before any response, whose channel then breaks, is never released: the repair timer ends its transaction and nothing else will tell the op. |
| `AckReopened` (violation) | Reliable=TRUE, MaxInFlight=3, MaxClientFailures=0, MaxServerFailures=1 | `AckIsFinal` | A callee's channel breaks before the call is answered: the repair timer survives the answer, fires after the ACK, and its 503 makes the confirmed dialog wait for an ACK again. |
| `Channel` (pass) | Messages={m1, m2}, Large={m2}, NoMessage=NoMessage, Addresses=2, MaxResolutions=2, MaxBlocks=2 | `TypeOK`, `InOrder`, `NoStuckChannel`, `NothingRepeated`, `BlockedIsWatched`, `QueuedSettles` | A channel with two addresses, a second resolution, a message of one buffer and one whose body is sent apart, and writes that block at any byte. What reaches the peer is in order, only a message of one buffer that blocked itself reaches it twice, and a channel that waits has something to wake it up; on the first connection a blocked message is continued, and a queued one is written or its channel given up unless another one's write blocked. |
| `ChannelDrops` (violation) | Messages={m1, m2, m3}, Large={m2}, NoMessage=NoMessage, Addresses=1, MaxResolutions=1, MaxBlocks=1 | `NoSilentLoss` | A message queued behind one whose write blocks is taken out of the queue and lost. |
| `ChannelInput` (pass) | Messages={m1, m2, m3, m4}, WithBody={m1, m3}, Malformed={m3}, NoMessage=NoMessage, BodyLength=2, Capacity=14, MaxKeepAlives=2 | `TypeOK`, `DeliveredAsSent`, `ArrivedIsDelivered`, `ClosedByPeerOnly` | Messages with and without a body, one that cannot be parsed, and keep alives, read in pieces of every size: what is delivered is what was sent, whole and in order, and only a message whose first line is cut behind bytes to be trashed is lost. |
| `Refresher` (pass) | MaxRequests=3, Alternates=1, Methods={"REGISTER", "PUBLISH"} | `TypeOK`, `NoSilentStop`, `RetryXorRequest`, `PromisedRetry`, `AskedExpiry`, `LostConnectionRetried`, `StoppedStaysQuiet`, `RequestSettles` | A refresher of a REGISTER or a PUBLISH over TCP or UDP, with every kind of answer, timeouts, lost channels, another address, and an application that refreshes, unregisters and stops, also inside the listener: no started refresher falls silent, a retry and a request exclude each other, a promised retry is scheduled, the last expiry asked for is the one sent, and every request ends. |
| `RegisterForgotten` (violation) | MaxRequests=3, Alternates=1, Methods={"REGISTER", "PUBLISH"} | `TimeoutReported` | A REGISTER that times out on a channel that is not ready, or that had traffic in the last minute, is never reported and never ends. |
| `UnpublishLost` (violation) | MaxRequests=3, Alternates=1, Methods={"REGISTER", "PUBLISH"} | `PublishedAsAsked` | An unpublish during a PUBLISH is delayed, and the answer to the running one restores its expiry: the publication is renewed instead of removed. |
| `Zrtp` (pass) | Peers={alice, bob}, MaxSessions=3, HelloMax=1, MessageMax=1, MaxLosses=2 | `TypeOK`, `RoleAgreement`, `SameS0`, `SenderNeedsReceiver`, `MismatchTakesTwo`, `NoStuckSession` | Three sessions between two ends with a cache each, every packet delayed, overtaken, repeated by its timer or lost, either end stopping anywhere: one initiator and one responder, the same s0, keys to send only when the other can receive, a cache mismatch only after updates were missed, and no rest before the session is secure unless retransmissions ran out. |

Bounds of a call: `MaxClientFailures` and `MaxServerFailures` are the channel
failures of each side: one is enough to put a failure, with its deferred
notification, its repair and the new channel, between any two steps; more failures
repeat that. `MaxInFlight = 3` stops the retransmission of the 200 over a TCP
connection that already carries three messages; retransmission is possible again
when one is read, so every position of a repeated 200 among the other messages of a
call occurs. In the same way it stops an application that answers again what it
answered before. It bounds nothing else, and over UDP nothing at all. Deadlock is
not checked: a call that is over stops.

Bounds of a channel: two messages, one that fits the send buffer and one whose body
does not, so that either can be partly written while the other waits, before or
behind it; two addresses, so that a retry and the end of the list both occur; two
resolutions, as every one after the first is alike; two blocked writes of each
message, as the second may block a buffer that is already partly written. One run
has them all together. `ChannelDrops` has a third message and one address: what
overtakes a blocked message is lost on the first connection already. `QueuedSettles`
excuses what the code does not promise: a message behind another one that blocked
(`ChannelDrops`), a second resolution and a second connection (see Observations). A
channel may always be disconnected or left without work: deadlock is not checked.

Bounds of the input: a message with a body, two without and one with a body that
cannot be parsed, in any order, with two keep alives among them, so that each may
come behind any other in the same read. Two pieces of body let it be cut.
`Capacity = 14` is less than the 18 pieces of the stream, so that the buffer has to
be rewound, and just enough for what the theorem `InputClosedByPeerOnly` asks for.
It matters: bytes that are skipped because they could not be parsed keep their room
until the next message is complete, and with 12 pieces `ClosedByPeerOnly` is
violated by a message that does not fit behind them. The code's buffer has 65535
bytes. A first line is cut in its start only behind the method; a request cut inside
its method and then trashed could be taken for one with a shorter method, which is
not modelled.

Bounds of a refresher: three requests, so that one may be old, one current and one
follow; one alternate address, so that a retry of the channel and the end of the
list both occur. `RequestSettles` excuses the request that is the last the bound
allows, as its end may have to send another. A refresher without a timer or a
transaction is at rest: deadlock is not checked.

Bounds of a key agreement: three sessions, so that two half-completed ones follow
each other or a completed one, which is what `MismatchTakesTwo` is about; two losses
per session, one in each direction or both of one packet; one firing after which the
next is the last, for both kinds of timer. The code's limits are 20 and 10, which
only puts more repetitions before the same end. A session whose ends are gone and
have no session left stops.

Timers carry no durations: a timer that runs may fire at any time. The one relation
that matters is assumed by `InviteGone`: timers H and L last 64*T1 and timer I lasts
T4, so that when they end the INVITE is no longer repeated (timer B) or in the
network. Without it `NoGhostCall` would be violated by a network no timer was
designed for; with it, `NoGhostCall` says that nothing else ends the transaction
while copies of its INVITE are left, and not that the durations are right.

Fairness: the main loop runs what is due, so timers that matter, deferred callbacks
and the reading of a message that arrived are weakly fair, each on its own. The
callee's application answers once: a call nobody picks up is declined after
`sip.inc_timeout` seconds (`src/submodules/linphone/coreapi/linphonecore.c:1365`,
`src/submodules/linphone/src/call/call.cpp:346`). The user hangs up, or not: no
fairness. For a channel, the resolver answers, an attempt to connect ends (the
transport timeout of `stream_channel_connect`), deferred callbacks run and a peer
that reads makes a socket writable. Liveness of a call is checked over reliable
links only, where a message that was sent arrives unless the connection breaks. For
a refresher one weak fairness on `Due` is enough: as long as a timer of a
transaction, a deferred error or an attempt to connect is pending the main loop
takes one of them. Answers and applications are not fair: a server may never answer.
`RequestSettles` follows because each of those steps uses up what it is due for.
`Zrtp` claims safety only: the retransmissions give up, and `NoStuckSession` says
that nothing else does.

## Findings

- **linphone/src/sal/call-op.cpp:552** (`OpReleased`, run `OpKeptAfterRepair`): SalCallOp::terminate (linphone/src/sal/call-op.cpp:1341) says "The Op must be kept for the time of the transaction in case a response is received later." When the channel of that transaction breaks, the repair timer terminates it without a timeout event (belle-sip/src/transaction.c:114) and processTransactionTerminatedCb releases an op only if it is Early, or Terminating with a BYE: the op of a hung-up INVITE stays Terminating for good.
- **belle-sip/src/transaction.c:365** (`AckIsFinal`, run `AckReopened`): belle-sip/src/dialog.c:567 says of a 2xx on a dialog that is CONFIRMED "REINVITE case, ack needed by both uas and uac". It is also reached without a re-INVITE: after a channel error in PROCEEDING, send_response takes a new channel for the 200 but leaves call_repair_timer running. When the timer fires on the acknowledged call (belle-sip/src/transaction.c:109), its 503 is too late for ist_send_new_response, but belle_sip_dialog_update runs all the same, with last_response still the 200: needs_ack is set and the 200 is retransmitted again, for an ACK that already came.
- **belle-sip/src/channel.c:1401** (`NoSilentLoss`, run `ChannelDrops`): belle-sip/src/channel.c:706 says of a writable socket "continue to send pending messages", and :1265 "Nothing to do, we'll be called later in order to retry". The loop of channel_process_queue pops the next message before it tests out_state: when a write blocks, and at every later attempt while it stays blocked, one more message of the queue is dropped, without error to its transaction.
- **belle-sip/src/transaction.c:292** (`TimeoutReported`, run `RegisterForgotten`): belle-sip/src/transaction.c:286 says of a timeout "report the channel as possibly dead. If an alternate IP can be tryied, the channel will notify us with the RETRY state." and :287 "Otherwise it will report the error." belle_sip_channel_notify_timeout does neither when the channel is not READY or received anything in the last 60 seconds (belle-sip/src/channel.c:1028, :1033). Timer F has fired and is not started again, so nobody is told and the REGISTER stays in TRYING until its channel breaks; the refresher has no timer either.
- **belle-sip/src/refresher.c:690** (`PublishedAsAsked`, run `UnpublishLost`): belle-sip/src/refresher.c:474 says "new publish is delayed to end of ongoing transaction". Only a flag is kept: the expiry of the delayed PUBLISH is in target_expires, which set_expires_from_trans overwrites with that of the request that was answered. An unpublish (expires 0) asked for while a PUBLISH runs goes out with the old expiry, the publication is renewed and the refresher goes on.

### Observations without a run of their own

The properties named here are stated in the modules; they are violated under the
constants given, or the code and its comments differ in a way no property depends
on.

- `SalCallOp::accept` and `decline` do not ask for the state of the op
  (`call-op.cpp:965`, `:1015`): an application that accepts a confirmed call again
  reopens its ACK in the same way as `AckReopened`. `AckIsFinal` leaves that to the
  application, and excludes it.
- `CalleeSurvives`, UDP with one failure of the callee's channel: a retransmitted
  INVITE finds the transaction without a channel, and the last response is queued on
  it (`ist.c:182`); `provider.c:249` handles that case for responses only.
- `ReadyIsPolled`, with two resolutions: data that comes while a connected channel
  resolves again takes its socket out of the main loop, and `channel_res_done` makes
  it ready all the same (`channel.c:1483`, `transports/stream_channel.c:241`).
- `EveryMessageDelivered`: the CRLF of a keep alive in front of the beginning of a
  request makes the parser conclude, and trash what there is of the request
  (`channel.c:563`).
- A message that fits the send buffer, with its body or without one
  (`channel.c:1284`), is marshalled again when its write blocked, as `out_state` is
  still OUTPUT_STREAM_SENDING_HEADERS (`channel.c:1272`): the peer gets it again
  behind its own beginning. `NothingRepeated` says that this is the only way to a
  repetition.
- A connection after the first does not ask for BELLE_SIP_EVENT_WRITE
  (`BlockedIsWatched` is about the first), a resolution hides an error
  (`ReadyIsPolled`), and an event of a broken socket between the error and its
  deferred notification moves the channel on to the next address without the error
  ever being reported. With two resolutions, a message queued in ERROR before the
  notification starts a new resolution, and one queued earlier may be lost. A keep
  alive, or a message after a hidden error, may land between the pieces of a blocked
  message.
- A message whose headers do not fit the send buffer is dropped without an error to
  its transaction (`channel.c:1276`); no message of the model is one.
- `refresher.h:52`: stopping starts a PUBLISH that was delayed, because its
  transaction is terminated before the refresher is stopped.
- `refresher.h:33`: `will_retry` is TRUE for a 401 without credentials and a 301
  without a contact, for which nothing is scheduled; `PromisedRetry` leaves them
  out. The failures that are retried (403, 412, 481, 491, 503) schedule the retry
  whether or not the refresher was stopped in the meantime.
- The result of a refresh is dropped in `process_transaction_terminated`, in
  `unpublish` and `unsubscribe` (`event-op.cpp:429`, `op.cpp:930`) and in
  `authenticate` (`register-op.h:37`): when no channel can be had the application
  hears nothing (`told = "lost"`), and `NoSilentStop` counts that as told.
- Over UDP a request in COMPLETED hides the loss of its channel from its refresher
  (`refresher.c:147` leaves it to the transaction, `transaction.c:142` ignores it):
  `LostConnectionRetried` is about reliable transports.
- ZRTP: `stateMachine.c:1303` and `:1468` go on at the "first SRTP message", for
  which there is no event; `:402` says that a Hello is answered in `sendingCommit`,
  and the code refuses it. The comment at `:498` that an end without a secret does
  not expect the other to have one is wrong after a first session which one end only
  completed: a cache mismatch is reported without an intruder. `MismatchTakesTwo`
  states exactly when.

## Proofs

Every invariant that a passing run checks is proved, and so are the action
properties and the refinement; only liveness is not. The proofs hold for every value
of the constants: every transport, `MaxInFlight` and number of failures of a call,
every set of messages, number of addresses and bound of a channel, every length of a
body and capacity of an input buffer, every number of requests and addresses of a
refresher, every number of sessions, losses and retransmissions of two ZRTP ends.
The assumptions that the modules name only give the constants their types. Five
theorems have a hypothesis besides, each because the code does not keep the property
without it:

- `OneCallOffered` is, over UDP, about a callee whose channel does not fail: one whose
  transaction ended with
  its channel takes the next copy of the INVITE for another call.
- `NothingIsLost` and `CallHeldByBoth` are about connections that do not fail
  (`Working`): a BYE that dies with its connection is not sent again, and the other
  side keeps the call.
- `InputArrivedIsDelivered` is about a buffer of more than one piece: one piece fills
  it, and the start of every message is then taken for a line and trashed.
- `InputClosedByPeerOnly` is about a buffer that is large enough (`RoomEnough`), for
  finitely many messages that cannot be parsed: what is skipped keeps its room until
  a message is complete, and a buffer full of it reads nothing, which looks like the
  end of the stream.

The runs that check these properties satisfy the hypotheses.

`InviteCall_proofs`:

- `TypeCorrect`: Transactions, dialogs, ops and links keep their types, and only messages their readers know travel.
- `OutcomeInvariant`: The inductive invariant of the outcome: what can be repeated was decided, and an ACK comes from a caller that learned of a 200.
- `OneFinalResponse` (`SingleFinal`): An INVITE gets one final response whatever races to answer it.
- `OutcomesAgree` (`OutcomeAgreement`): The caller's op learns only the outcome the callee gave.
- `AckIsCausal`: The callee takes a call for acknowledged only if the caller acknowledged it.
- `CallImplementsHandshake` (`ImplementsHandshake`): The call refines the abstract three-way handshake CallAgreement.

`InviteSafety_proofs`:

- `CallInvariant` (`CallInv`): The inductive invariant of a call: each op is tied to its dialog and to what the other end was sent, for every transport and every number of failures.
- `UnwantedIsHungUp` (`UnwantedCallHungUp`): An acceptance that crosses a hang-up or a CANCEL is answered with a BYE, whatever fails.
- `AckIsAwaited` (`AckAwaited`): A callee's dialog never waits for an ACK without repeating its 200 or hanging up.
- `ClientNeverStuck` (`NoStuckClient`): A client transaction never waits without a timer or a notification that will end it.
- `ServerNeverStuck` (`NoStuckServer`): A server transaction never waits without a timer, a notification or its application.
- `OneCallOffered` (`NoGhostCall`): Over TCP, and over UDP as long as the callee's channel does not fail, the INVITE and all its copies are one call to the callee's application.
- `NothingIsLost` (`InFlightInv`): Over connections that do not fail, what one side knows of the call and the other does not is in flight, and a BYE is behind the 200 that it takes back.
- `CallHeldByBoth` (`NoHalfOpenCall`): Over connections that do not fail, when nothing is in flight no op holds a call that the other has given up.

`Channel_proofs`:

- `ChannelNeverStuck` (`NoStuckChannel`): A channel that waits has a resolution, an attempt to connect or a deferred callback that will wake it up.
- `TypeCorrect` (`TypeOK`): The fields of a channel keep their types through every write, cut, retry and error, and a blocked buffer is one of the current message.
- `BlockedStaysWatched` (`BlockedIsWatched`): On the first connection of a channel, what a blocked write left is continued when the socket accepts data again.
- `WrittenInOrder` (`InOrder`): What reaches the peer is in the order in which it was queued, over every retry, partial write and error.
- `WrittenOnce` (`NothingRepeated`): A message reaches the peer twice only if it fits the send buffer and a write of its own blocked: one whose body is sent apart never, and none because of what happened to another, over every retry, partial write and error.

`ChannelInput_proofs`:

- `InputTypeCorrect` (`TypeOK`): The input stream keeps its types and its write_ptr stays in the buffer, for every capacity, length of body, set of messages and cut of the stream into reads.
- `InputDeliveredAsSent` (`DeliveredAsSent`): What the listeners are given are messages that arrived, each once and with its own whole body, in the order they were sent.
- `InputArrivedIsDelivered` (`ArrivedIsDelivered`): In a buffer of more than one piece, a message that arrived whole is delivered unless its first line was cut behind bytes to be trashed.
- `InputClosedByPeerOnly` (`ClosedByPeerOnly`): In a buffer with room for the rest of a message, the headers of the next and all that is trashed between them, the channel never takes its own full buffer for the end of the stream.

`Zrtp_proofs`:

- `TypeCorrect` (`TypeOK`): The two ends keep their types, and with them the bound on retransmissions: a timer that runs has not used up those of its state.
- `RolesAgree` (`RoleAgreement`): Two ends past the contention of their Commits have different roles, for every order and loss of packets.
- `SendersAreHeard` (`SenderNeedsReceiver`): An end that may send encrypted media has another that can decrypt it.

`ZrtpAgreement_proofs`:

- `NeverStuck` (`NoStuckSession`): A session that rests is secure at both ends, or an end has used up its retransmissions: for every loss, and whoever leads.
- `SecretsAgree` (`SameS0`): Both ends that computed s0 have the same, from whatever caches the earlier sessions left.
- `NoIdleWarning` (`MismatchTakesTwo`): A cache mismatch is reported only after an update of the cache was missed by one end; after a session that both completed, only after two.

`Refresher_proofs`:

- `TypeCorrect` (`TypeOK`): The refresher, its transactions and its channel keep their types through every handler, for every number of requests and addresses; with them the channel never runs below its last address.
- `RetryExcludesRequest` (`RetryXorRequest`): No retry or refresh is scheduled while a request is under way, whatever an answer, a timeout, an error or a listener that stops the refresher does.
- `AskedExpiryIsSent` (`AskedExpiry`): The current REGISTER carries the expiry the application asked for last, across challenges, redirections, retries, timeouts and lost channels.

`RefresherWatch_proofs`:

- `WatchInvariant`: The inductive invariant of what keeps a refresher going: while it is started it waits for an answer, a timer or an event it cannot miss, or it is excused by what the application did.
- `NeverSilent` (`NoSilentStop`): A started refresher has a request under way or a timer on, or the application heard of something else than success since: for every sequence of answers, errors and calls.
- `RetryIsKept` (`PromisedRetry`): A retry the listener was told of is scheduled, whatever happens between the answer and the retry.
- `LostConnectionIsRetried` (`LostConnectionRetried`): Over a reliable transport, when the channel of the last request is given up, a started refresher retries or has sent another request.
- `StoppedIsLeftAlone` (`StoppedStaysQuiet`): A refresher that was stopped and has nothing under way sends and schedules nothing, whatever an old transaction or a channel brings.

### The outcome of a call

`OutcomeAgreement` and `AckCausality` are not inductive: a retransmission sends what
was stored earlier. `OutcomeInv` adds what is stored: the last final response of the
transaction was given (`RepeatedInv`), a dialog repeats its 200 only if one was
given, nothing was given before the transaction left PROCEEDING (`UndecidedInv`),
and an ACK of the 2xx, on its way or arrived, comes from a caller that has learned
of a 200 and whose transaction cannot be answered again (`AckInv`). The proof goes
through four facts: `ClientLearns` (the op is told only responses that were in
flight), `ClientAcks`, `ServerDecides` (by `ResponseDecides`, the one operation that
answers) and `ServerConfirms`; the links contribute only what sending, reading,
losing and breaking do to their contents. `HandshakeStep` uses the same facts for
the refinement.

### Ops, dialogs and what is in flight

`NoStuckClient`, `NoStuckServer` and, with `TypeOK`, `AckAwaited` are inductive:
every handler that leaves a state waiting starts what ends it.
`UnwantedCallHungUp` does not. `CallInv` ties each op to its dialog, and each end to
what the other was sent, whatever fails: an active caller holds a dialog that it
acknowledged, one that cancelled or hung up never wants the call again
(`CallerInv`); the callee does nothing before an INVITE left (`InvitedInv`), and
once it accepted, a dialog that is over or an op that gave up was hung up by the
callee or is not wanted by the caller (`CalleeInv` with `HungUpBy`).

On it rest `OfferedInv` - over a connection the INVITE is sent and read once, over
UDP no copy is left when the server transaction ends, which is what its timers are
for - and `InFlightInv`. The latter says why no side keeps a call alone: what one
side knows and the other does not is in flight. The case that makes it hard is a
callee that hangs up right after it accepted. Its BYE reaches a caller that still
waits and would be ignored, were it not behind the 200 that it takes back
(`Follows`): the order of the link is part of the invariant.

### The channel

`NoStuckChannel` is inductive together with one fact about data: a channel in RETRY
has an address left (`ChannelInv`), for otherwise the attempt that fails at once
would neither go on to another nor be notified. `ProcessQueueEnds`,
`HandleErrorEnds` and `TryConnectEnds` say in which states the three operations
every callback is built from leave the channel.

What reaches the wire is proved from one description of queue processing. The plan
of a channel is the rest of its current message followed by the pieces of those in
its queue; whatever a write does - succeeds, blocks, is cut, fails - the wire grows
by a beginning of the plan, and at least the messages of that beginning leave the
queue (`WritesUpTo`). `TypeInv` says what the rest is: which buffer is blocked,
whether its body was taken, in which output state. `OrderInv` places everything that
was queued: what is on the wire before the current message, that before the queue,
the queue in its own order. `OnceInv` adds that a message still to be written has
not been written to its end, unless it is of one buffer and blocked before: it holds
for the messages that are written once by themselves (`Single`), whatever the others
do. `WatchInv` says that a write needs a connection before it and that, as long
as there was only one, what is left of a write is watched.

### The input stream

The loop that parses what was read is a recursive function, and what it returns for
every input would be an induction over the bytes. The proof needs less. `TurnFacts`
says what one turn of the loop may do, as a relation: trash everything, find a first
line, refuse, take or complete a message, feed or finish a body (`Turns`).
`TurnsTypes` gives each turn a weight that it lowers, `LoopExists` shows that the
function exists whatever the turn is: its value is where the turns lead, a state
that they do not change and that is in every set they do not leave. `LoopEnds` shows
that there is one, and that a set which every turn keeps is kept by the whole loop,
by the least weight of a counterexample. So `ParseKeeps` turns an invariant of the
turn into one of the read, and the properties of a read need only the lemmas about a
turn.

That invariant relates the parser to `stream`, which is well formed (`WellSent`):
messages do not overlap, and each piece has its place behind the beginning of its
message. `Aligned` says that the bytes in the buffer are those of the stream behind
what was consumed, that a message whose headers are awaited begins there, and that
the body being acquired is the beginning of that of the message whose headers were
just consumed. `Given` says that what was delivered is whole, in order, and ends
before what is still to be parsed. These two are enough for `InputTypeCorrect` and
`InputDeliveredAsSent`.

What is lost needs more. `Kept` says that a message which the parser has left behind
and did not deliver had its first line cut, with a keep alive or a refused message
before it. A turn that trashes bytes keeps it because of `Clean`: as long as nothing
bad was consumed, a parser that waits for a message stands between two messages, so
that what it trashes begins with one (`TrashIsBad`). `ArrivedIsSettled` adds that a
parser at rest has left behind everything that arrived whole.

For `InputClosedByPeerOnly` the room that consumed bytes still take is counted.
`Stretch` says what they are: since the buffer was last rewound no message was
begun but the one whose body is awaited, and the rest of an earlier message is among
them only if something bad came before the rewinding. `ConsumedIs` puts each
consumed piece into one of four sets, of keep alives, refused messages, the rest of
one message and the headers of another, and `OffsetAtMost` adds up their sizes.

### The refresher

A handler of the refresher is a chain of functions, between which the invariant need
not hold: a retry is scheduled before the request that failed is ended, and the
expiry is changed before it is sent. The lemmas are therefore about worlds:
`RefreshKeeps`, `TerminateKeeps`, `StopKeeps` and `TellKeeps` say what one function
keeps of any world, the `...Settles` lemmas what a whole answer or error does, and
one `...Keeps` lemma per action follows from them. `RetryXorRequest` and
`AskedExpiry` are not inductive. An application that asked to unregister when no
channel could be had leaves a refresher that is started with the expiry 0, and a
423, which takes a longer one, would register it again; `RefresherInv` adds that
such a refresher is `Unsent`: its transaction is over and off its channel, no timer
runs, and the last it was told is not a challenge, so that nothing can make it act
before the application asks again. In every other started registration there is
something to refresh (`Live`), which is what 423 (`TooBriefSettles`) and the retries
rely on.

`NoSilentStop` and `PromisedRetry` need more than the present step. In every world
that rests the refresher waits for the end of a request or a timer, or is `Excused`:
the last it told the application was a failure, and not one with a retry it did not
schedule (`Watched`). Two things could end a wait unseen, and `WatchInv` says why
they do not. Timer K, and an error that was reported already, only end a transaction
that is over (`Steady`). And a stopped PUBLISH whose end is delayed goes out when
the request under way is over or is challenged (`EndPending`), so that the answer to
that request, which nobody is told of, is not the last event.

### The key agreement

`RoleAgreement` is not inductive: a late Commit, or a DHPart1 under way, decides
what an end will become. `RoleInv` adds that a responder's peer has sent a Commit
and stays initiator, that a Commit under way is of an end past discovery, and is the
lower one's if that end gave in, and that a DHPart1 comes from a responder. `KeyInv`
adds for `SenderNeedsReceiver` that whoever sent Confirm2 or Conf2ACK can decrypt.
`CountInv` bounds the firings of a running timer by those of its state, without
which `TypeOK` would not be kept. Most of the proof (`DiscoveryKeeps` to
`LocalKeeps`) rests on two facts: `EndStep`, which says what a step of one end has
to establish, and `ReceptionStep`, what reading a packet leaves of the links.

`ZrtpAgreement_proofs` first reads every step but the beginning of a session as a
`Turn` of one end (`Steps`): from which state to which, what it sends and computes.
Each of its theorems then says what a turn keeps.

- `NeverStuck`: an end whose timer does not run has used up its firings, so two ends
  that rest have got past each other. `StuckInv` says which end is behind: a
  HelloACK under way means that its receiver's Hello was met, a Conf2ACK or a secure
  initiator that the responder is secure or gone.
- `SecretsAgree`: initiator and responder look for a common secret in an order of
  their own. `InitiatorFinds` and `ResponderFinds` show that both find `Common`, the
  newest of the initiator's that is one of the responder's, if no cache has an older
  secret without a newer one (`Newest`). `S0Inv` says that what an end computed is
  that of what both offered, although the caches may have been updated since.
- `NoIdleWarning`: as long as one update at most was missed since both ends trusted
  each other, some secret is known to both. `TrustInv` says where it is through
  sessions that both, one or none completed: both have it as their newest
  (`Knows`), or one has it as its older one and the other as its newest
  (`IsAhead`, `Keeps`), in the cache, under way or in the comparison; or neither has
  any (`Stranger`).

### Only model-checked

- Liveness: `ClientSettles`, `ServerSettles`, `UncancelledOpReleased`,
  `AcceptedCallShared`, `QueuedSettles` and `RequestSettles` rest on fairness, which
  the prover does not support.

## Not modelled

- **Most of the lines.** About seven eighths of the four million lines under `src`
  are vendored or generated: libxml2, ffmpeg, webrtc, the codecs and containers, the
  ANTLR parsers of belle-sip, tables. They compute on data and have no protocol
  between actors. Of the half million lines that remain (the Belledonne libraries
  and the application) most are views, media filters, test suites, wrappers and
  conversions of messages; the protocol state machines modelled here are a small
  part of them, and the part in which order matters.
- **nist.c, the dialog's queue, re-INVITE, SUBSCRIBE, session timers**: each needs a
  second transaction within a dialog beside the INVITE's; over UDP the product with
  the losses of a call is beyond exhaustive checking, and without the losses little
  is left to check.
- **Channel composed with its transactions**: `InviteCall` and `Refresher` take from
  a channel what `Channel` shows it does (connecting, ready, error notified later,
  dropped queue), except that messages behind a blocked one are lost without an
  error, which is reported as a finding.
- **Call session and iOS managers**: the states of a call for the user follow the
  op's callbacks; the managers wait on CallKit and PushKit, whose order of events is
  not in the repository.
- **ICE, RTP**: numeric work on candidates, clocks and timestamps.
- **ZRTP multistream and preshared modes, auxiliary and PBX secrets, GoClear**: the
  first two skip DHPart; the library itself does not support the last.

## Possible extensions

A dialog with two transactions over reliable links (the queue of `dialog.c:1121`)
and the refresher of a SUBSCRIBE.
