------------------------------ MODULE Channel ------------------------------
(***************************************************************************)
(* One outgoing TCP channel of belle-sip: name resolution, connection,     *)
(* retry on the next address, error notification, and the queue of         *)
(* messages to be written, any write of which may be partial or block.     *)
(*                                                                         *)
(* channel.c with stream_channel.c as its transport; a channel is used by  *)
(* the transactions that queue messages and by the provider that looks it  *)
(* up (and may have its name resolved again) and releases it.              *)
(*                                                                         *)
(* The bytes of a message are two pieces, its start and its end.  The      *)
(* body of a large message does not fit the send buffer with the headers   *)
(* and is a buffer of its own; any other message, with a body or without,  *)
(* is one buffer.  A message that cannot be marshalled (its headers do not *)
(* fit either) is dropped without an error, as if it had never been        *)
(* queued, and is not among these Messages.                                *)
(***************************************************************************)
EXTENDS Naturals, Sequences

CONSTANTS
    Messages,         \* what transactions send, each queued once
    Large,            \* those whose body does not fit the buffer of the headers
    NoMessage,        \* no cur_out_message
    Addresses,        \* the most addresses a resolution returns
    MaxResolutions,   \* bound: resolutions of the peer's name
    MaxBlocks         \* bound: writes of one message that would block

ASSUME ChannelAssumption ==
    /\ Large \subseteq Messages
    /\ NoMessage \notin Messages
    /\ Addresses \in Nat \ {0}
    /\ MaxResolutions \in Nat \ {0}
    /\ MaxBlocks \in Nat

VARIABLES
    state,        \* belle_sip_channel_state_t
    peers,        \* addresses from current_peer to the end of its list, 0 when
                  \* there is no current_peer
    resolving,    \* a resolution will call channel_res_done
    dnsTimer,     \* dns_ttl_timer runs or is over, dns_ttl_timedout not used up
    socket,       \* "connecting" and "connected" are in the main loop, "dropped"
                  \* is open and was removed from it
    watchWrite,   \* the socket is polled for BELLE_SIP_EVENT_WRITE
    connectDue,   \* channel_connect_next is deferred
    errorDue,     \* channel_notify_error_to_listeners is deferred
    notified,     \* the listeners know of the error or disconnection: nobody
                  \* holds the channel any more
    outgoing,     \* outgoing_messages
    current,      \* cur_out_message
    outState,     \* out_state
    bodyTaken,    \* the body handler of current has no more chunks
    blocked,      \* ewouldblock_buffer from ewouldblock_offset on
    wire,         \* history: what was written, and where connections began
    queued,       \* history: the messages that were queued
    resolutions,  \* history, bounded by MaxResolutions
    blocks        \* history: writes of each message that blocked

connection == <<state, peers, resolving, dnsTimer, socket, connectDue,
                errorDue, notified, resolutions>>
output     == <<outgoing, current, outState, bodyTaken, blocked, watchWrite,
                wire, blocks>>
vars       == <<connection, output, queued>>

States    == {"INIT", "RES_IN_PROGRESS", "CONNECTING", "RETRY", "READY",
              "ERROR", "DISCONNECTED"}
Sockets   == {"closed", "connecting", "connected", "dropped"}
OutStates == {"IDLE", "SENDING_HEADERS", "SENDING_BODY"}

Start(m) == <<m, "start">>
End(m)   == <<m, "end">>
Attempt  == <<NoMessage, "attempt">>
Crlf     == <<NoMessage, "crlf">>
Pieces   == {Start(m) : m \in Messages} \cup {End(m) : m \in Messages}

Init ==
    /\ state = "INIT"
    /\ peers = 0
    /\ resolving = FALSE
    /\ dnsTimer = FALSE
    /\ socket = "closed"
    /\ watchWrite = FALSE
    /\ connectDue = FALSE
    /\ errorDue = FALSE
    /\ notified = FALSE
    /\ outgoing = << >>
    /\ current = NoMessage
    /\ outState = "IDLE"
    /\ bodyTaken = FALSE
    /\ blocked = << >>
    /\ wire = << >>
    /\ queued = << >>
    /\ resolutions = 0
    /\ blocks = [m \in Messages |-> 0]

Polled == socket \in {"connecting", "connected"}

-----------------------------------------------------------------------------
(***************************************************************************)
(* Writing.                                                                *)
(***************************************************************************)

\* All the pieces of a sequence of messages.
PiecesOf(messages) ==
    [i \in 1..2 * Len(messages) |->
        IF i % 2 = 1 THEN Start(messages[(i + 1) \div 2])
                     ELSE End(messages[i \div 2])]

\* Mutant: a message is resumed whether or not one was being sent.
ResumedAlways == PiecesOf(<<current>>)

\* Mutant: a large message forgets that its headers were sent.
ResumedFromHeaders == IF outState = "IDLE" THEN << >> ELSE PiecesOf(<<current>>)

\* What _send_message writes of the current message after the blocked buffer:
\* with OUTPUT_STREAM_SENDING_HEADERS it marshals the message again.
Resumed ==
    CASE outState = "IDLE"            -> << >>
      [] outState = "SENDING_HEADERS" -> PiecesOf(<<current>>)
      [] outState = "SENDING_BODY"    -> IF bodyTaken THEN << >> ELSE <<End(current)>>

\* The buffer that a piece belongs to, from that piece on.
BufferFrom(piece) ==
    IF piece[2] = "start" /\ piece[1] \notin Large
        THEN PiecesOf(<<piece[1]>>)
        ELSE <<piece>>

\* channel_process_queue goes on to the next message until a write fails or
\* would block.
WriteAll(messages) ==
    /\ outState # "IDLE" \/ messages # << >>
    /\ socket' \in {"connected", "dropped"}
    /\ wire' = wire \o blocked \o Resumed \o PiecesOf(messages)
    /\ outgoing' = << >>
    /\ current' = NoMessage
    /\ outState' = "IDLE"
    /\ bodyTaken' = FALSE
    /\ blocked' = << >>
    /\ watchWrite' = FALSE
    /\ UNCHANGED blocks

\* What stays in the queue when the write of a piece stopped the loop: the
\* loop takes one more message out of the queue before it finds out.
LeftInQueue(messages, written) ==
    LET before == Len(blocked) + Len(Resumed)
        taken  == IF written < before THEN 1
                                      ELSE (written - before) \div 2 + 2
    IN  SubSeq(messages, taken + 1, Len(messages))

\* Mutant: a blocked write does not ask for BELLE_SIP_EVENT_WRITE.
BlockedUnwatched(messages, watch) ==
    LET plan == blocked \o Resumed \o PiecesOf(messages) IN
    /\ plan # << >>
    /\ socket' # "closed"
    /\ outgoing' = LeftInQueue(messages, 0)
    /\ current' = plan[1][1]
    /\ blocks[current'] < MaxBlocks
    /\ blocks' = [blocks EXCEPT ![current'] = @ + 1]
    /\ outState' = IF current' \in Large THEN "SENDING_BODY" ELSE "SENDING_HEADERS"
    /\ bodyTaken' = FALSE
    /\ blocked' = BufferFrom(plan[1])
    /\ watchWrite' = watch
    /\ UNCHANGED wire

WriteUntilBlocked(messages, watch) ==
    LET plan == blocked \o Resumed \o PiecesOf(messages) IN
    \E written \in 0..Len(plan) - 1 :
        LET piece == plan[written + 1]
            m     == piece[1]
            again == written < Len(blocked)
        IN
        /\ socket' # "closed"
        /\ socket' = "connecting" => written = 0
        /\ blocks[m] < MaxBlocks
        /\ blocks' = [blocks EXCEPT ![m] = @ + 1]
        /\ wire' = wire \o SubSeq(plan, 1, written)
        /\ outgoing' = LeftInQueue(messages, written)
        /\ current' = m
        /\ outState' = IF again THEN outState
                       ELSE IF m \in Large THEN "SENDING_BODY"
                       ELSE "SENDING_HEADERS"
        /\ bodyTaken' = IF again THEN bodyTaken
                                 ELSE m \in Large /\ piece = End(m)
        /\ blocked' = IF again
                          THEN SubSeq(blocked, written + 1, Len(blocked))
                          ELSE BufferFrom(piece)
        /\ watchWrite' = IF again THEN watch ELSE TRUE

WriteUntilError(messages) ==
    LET plan == blocked \o Resumed \o PiecesOf(messages) IN
    \E written \in 0..Len(plan) - 1 :
        /\ socket' \in {"closed", "connecting"} => written = 0
        /\ wire' = wire \o SubSeq(plan, 1, written)
        /\ outgoing' = LeftInQueue(messages, written)
        /\ current' = NoMessage
        /\ outState' = "IDLE"
        /\ bodyTaken' = FALSE
        /\ blocked' = << >>
        /\ watchWrite' = FALSE
        /\ UNCHANGED blocks

NothingToWrite(messages, watch) ==
    /\ outState = "IDLE"
    /\ messages = << >>
    /\ watchWrite' = watch
    /\ UNCHANGED <<outgoing, current, outState, bodyTaken, blocked, wire, blocks>>

\* channel_process_queue in state READY over the socket of the next state, with
\* these messages in the queue and the socket polled for writing or not.  A
\* failed write puts the channel in error and leaves the notification for later.
ProcessQueue(messages, watch) ==
    \/ /\ \/ NothingToWrite(messages, watch)
          \/ WriteAll(messages)
          \/ WriteUntilBlocked(messages, watch)
       /\ state' = "READY"
       /\ UNCHANGED errorDue
    \/ /\ WriteUntilError(messages)
       /\ state' = "ERROR"
       /\ errorDue' = TRUE

-----------------------------------------------------------------------------
(***************************************************************************)
(* Errors.  Before the channel was ever ready on this address, or when an  *)
(* upper layer complains (soft_error), the next address is tried.          *)
(***************************************************************************)
\* Mutant: a retry whose connection attempt is not deferred.
RetryForgotten(soft, socketLeft) ==
    LET retry == (state # "READY" \/ soft) /\ peers > 1 IN
    /\ state' = IF retry THEN "RETRY" ELSE "ERROR"
    /\ peers' = IF retry THEN peers - 1 ELSE peers
    /\ socket' = IF retry THEN "closed" ELSE socketLeft
    /\ errorDue' = (errorDue \/ ~retry)
    /\ UNCHANGED connectDue

HandleError(soft, socketLeft) ==
    LET retry == (state # "READY" \/ soft) /\ peers > 1 IN
    \/ /\ retry
       /\ state' = "RETRY"
       /\ peers' = peers - 1
       /\ socket' = "closed"
       /\ connectDue' = TRUE
       /\ UNCHANGED errorDue
    \/ /\ ~retry
       /\ state' = "ERROR"
       /\ errorDue' = TRUE
       /\ socket' = socketLeft
       /\ UNCHANGED <<peers, connectDue>>

\* belle_sip_channel_connect to the first of n addresses, which fails at once
\* or goes on in the background.
TryConnect(n) ==
    \/ /\ state' = "CONNECTING"
       /\ peers' = n
       /\ socket' = "connecting"
       /\ watchWrite' = TRUE
       /\ wire' = Append(wire, Attempt)
       /\ connectDue' = FALSE
       /\ UNCHANGED errorDue
    \/ /\ n > 1
       /\ state' = "RETRY"
       /\ peers' = n - 1
       /\ socket' = "closed"
       /\ connectDue' = TRUE
       /\ UNCHANGED <<errorDue, watchWrite, wire>>
    \/ /\ n = 1
       /\ state' = "ERROR"
       /\ peers' = n
       /\ socket' = "closed"
       /\ connectDue' = FALSE
       /\ errorDue' = TRUE
       /\ UNCHANGED <<watchWrite, wire>>

Resolve ==
    /\ resolutions < MaxResolutions
    /\ resolutions' = resolutions + 1
    /\ state' = "RES_IN_PROGRESS"
    /\ resolving' = TRUE

-----------------------------------------------------------------------------
(***************************************************************************)
(* The users of the channel.                                               *)
(***************************************************************************)

\* Mutant: a message is put before those that wait.
QueueFirst(m) ==
    /\ \A i \in 1..Len(queued) : queued[i] # m
    /\ queued' = Append(queued, m)
    /\ \/ /\ state = "INIT"
          /\ Resolve
          /\ outgoing' = <<m>>
          /\ UNCHANGED <<peers, dnsTimer, socket, connectDue, errorDue,
                         notified, current, outState, bodyTaken, blocked,
                         watchWrite, wire, blocks>>
       \/ /\ state # "INIT"
          /\ outgoing' = <<m>> \o outgoing
          /\ UNCHANGED <<connection, current, outState, bodyTaken, blocked,
                         watchWrite, wire, blocks>>

\* belle_sip_channel_queue_message: messages wait for the channel to be ready.
QueueMessage(m) ==
    /\ \A i \in 1..Len(queued) : queued[i] # m
    /\ queued' = Append(queued, m)
    /\ \/ /\ state = "READY"
          /\ UNCHANGED socket
          /\ ProcessQueue(Append(outgoing, m), watchWrite)
          /\ UNCHANGED <<peers, resolving, dnsTimer, connectDue, notified,
                         resolutions>>
       \/ /\ state = "INIT"
          /\ Resolve
          /\ outgoing' = Append(outgoing, m)
          /\ UNCHANGED <<peers, dnsTimer, socket, connectDue, errorDue,
                         notified, current, outState, bodyTaken, blocked,
                         watchWrite, wire, blocks>>
       \/ /\ state \notin {"READY", "INIT"}
          /\ outgoing' = Append(outgoing, m)
          /\ UNCHANGED <<connection, current, outState, bodyTaken, blocked,
                         watchWrite, wire, blocks>>

\* A client transaction that waits for the channel prepares it.
Prepare ==
    /\ state = "INIT"
    /\ Resolve
    /\ UNCHANGED <<peers, dnsTimer, socket, connectDue, errorDue, notified,
                   output, queued>>

\* The provider looks the channel up after the TTL of its address: whatever
\* the channel does, its name is resolved again.
CheckDnsReusability ==
    /\ dnsTimer
    /\ dnsTimer' = FALSE
    /\ Resolve
    /\ UNCHANGED <<peers, socket, connectDue, errorDue, notified, output, queued>>

\* A response 500 to a REGISTER, which was written before, sends the channel
\* to a fallback address, whatever the channel does meanwhile ...
NotifyServerError ==
    /\ \E i \in 1..Len(wire), m \in Messages : wire[i] = End(m)
    /\ HandleError(TRUE, socket)
    /\ UNCHANGED <<resolving, dnsTimer, notified, resolutions, output, queued>>

\* ... and one that timed out makes a channel silent for a minute suspect.
NotifyTimeout ==
    /\ state = "READY"
    /\ HandleError(FALSE, socket)
    /\ UNCHANGED <<resolving, dnsTimer, notified, resolutions, output, queued>>

\* The listening point writes a keep alive past the queue.  Between messages
\* it goes unnoticed.
KeepAlive ==
    /\ state = "READY"
    /\ \/ /\ socket \in {"connected", "dropped"}
          /\ wire # << >> /\ wire[Len(wire)] \in {Start(m) : m \in Messages}
          /\ wire' = Append(wire, Crlf)
          /\ UNCHANGED <<connection, outgoing, current, outState, bodyTaken,
                         blocked, watchWrite, blocks, queued>>
       \/ /\ HandleError(FALSE, "closed")
          /\ UNCHANGED <<resolving, dnsTimer, notified, resolutions, output,
                         queued>>

\* The remote end closed, nothing passed for long, or the listening point
\* closes its channels: the listeners are told at once.
Disconnect ==
    /\ state' = "DISCONNECTED"
    /\ socket' = "closed"
    /\ notified' = TRUE
    /\ UNCHANGED <<peers, resolving, dnsTimer, connectDue, errorDue,
                   resolutions, output, queued>>

-----------------------------------------------------------------------------
(***************************************************************************)
(* The main loop.                                                          *)
(***************************************************************************)

\* channel_res_done.  Another resolution than the first one either confirms
\* the address in use or moves the channel to new ones.
ResolutionSucceeds ==
    /\ resolving
    /\ resolving' = FALSE
    /\ dnsTimer' = TRUE
    /\ UNCHANGED <<notified, resolutions, queued>>
    /\ \/ /\ peers = 0
          /\ \E n \in 1..Addresses : TryConnect(n)
          /\ UNCHANGED <<outgoing, current, outState, bodyTaken, blocked, blocks>>
       \/ /\ peers > 0
          /\ UNCHANGED <<peers, socket, connectDue>>
          /\ ProcessQueue(outgoing, watchWrite)
       \/ /\ peers > 0
          /\ peers' \in 1..Addresses
          /\ socket' = "closed"
          /\ connectDue' = TRUE
          /\ state' = "RETRY"
          /\ UNCHANGED <<errorDue, output>>

ResolutionFails ==
    /\ resolving
    /\ resolving' = FALSE
    /\ HandleError(FALSE, socket)
    /\ UNCHANGED <<dnsTimer, notified, resolutions, output, queued>>

ConnectNext ==
    /\ connectDue
    /\ \/ /\ state = "RETRY"
          /\ TryConnect(peers)
       \/ /\ state # "RETRY"
          /\ connectDue' = FALSE
          /\ UNCHANGED <<state, peers, socket, errorDue, watchWrite, wire>>
    /\ UNCHANGED <<resolving, dnsTimer, notified, resolutions, outgoing, current,
                   outState, bodyTaken, blocked, blocks, queued>>

\* Mutant: a channel that becomes ready does not look at its queue.
ConnectedIdle ==
    /\ state = "CONNECTING"
    /\ socket' = "connected"
    /\ state' = "READY"
    /\ watchWrite' = FALSE
    /\ UNCHANGED <<peers, resolving, dnsTimer, connectDue, errorDue, notified,
                   resolutions, outgoing, current, outState, bodyTaken, blocked,
                   wire, blocks, queued>>

\* finalize_stream_connection and belle_sip_channel_set_ready.
Connected ==
    /\ state = "CONNECTING"
    /\ socket' = "connected"
    /\ ProcessQueue(outgoing, FALSE)
    /\ UNCHANGED <<peers, resolving, dnsTimer, connectDue, notified, resolutions,
                   queued>>

ConnectionFails ==
    /\ state = "CONNECTING"
    /\ HandleError(FALSE, "dropped")
    /\ UNCHANGED <<resolving, dnsTimer, notified, resolutions, output, queued>>

\* The socket of a ready channel accepts data again.
Writable ==
    /\ state = "READY"
    /\ Polled /\ watchWrite
    /\ socket' = "connected"
    /\ ProcessQueue(outgoing, TRUE)
    /\ UNCHANGED <<peers, resolving, dnsTimer, connectDue, notified, resolutions,
                   queued>>

ReadFails ==
    /\ state = "READY"
    /\ Polled
    /\ HandleError(FALSE, "dropped")
    /\ UNCHANGED <<resolving, dnsTimer, notified, resolutions, output, queued>>

\* Anything on the socket of a channel that is neither connecting nor ready.
UnexpectedEvent ==
    /\ state \notin {"CONNECTING", "READY"}
    /\ Polled
    /\ HandleError(FALSE, "dropped")
    /\ UNCHANGED <<resolving, dnsTimer, notified, resolutions, output, queued>>

NotifyErrorToListeners ==
    /\ errorDue
    /\ errorDue' = FALSE
    /\ notified' = (state = "ERROR")
    /\ socket' = IF state = "ERROR" THEN "closed" ELSE socket
    /\ UNCHANGED <<state, peers, resolving, dnsTimer, connectDue, resolutions,
                   output, queued>>

-----------------------------------------------------------------------------
Use ==
    \/ \E m \in Messages : QueueMessage(m)
    \/ Prepare
    \/ CheckDnsReusability
    \/ NotifyServerError
    \/ NotifyTimeout
    \/ KeepAlive
    \/ Disconnect

Loop ==
    \/ ResolutionSucceeds
    \/ ResolutionFails
    \/ ConnectNext
    \/ Connected
    \/ ConnectionFails
    \/ Writable
    \/ ReadFails
    \/ UnexpectedEvent
    \/ NotifyErrorToListeners

\* Once the listeners know, they drop the channel and it is destroyed.
Next == ~notified /\ (Use \/ Loop)

Spec == Init /\ [][Next]_vars

\* The resolver answers, an attempt to connect ends, the deferred callbacks
\* run, and a peer that reads makes room for what is blocked.
Fairness ==
    /\ WF_vars(~notified /\ (ResolutionSucceeds \/ ResolutionFails))
    /\ WF_vars(~notified /\ (Connected \/ ConnectionFails))
    /\ WF_vars(~notified /\ ConnectNext)
    /\ WF_vars(~notified /\ Writable)
    /\ WF_vars(~notified /\ NotifyErrorToListeners)

FairSpec == Spec /\ Fairness

-----------------------------------------------------------------------------
\* The variables have the types of the fields of belle_sip_channel_t.
TypeOK ==
    /\ state \in States
    /\ peers \in 0..Addresses
    /\ socket \in Sockets
    /\ {resolving, dnsTimer, watchWrite, connectDue, errorDue, notified,
        bodyTaken} \subseteq BOOLEAN
    /\ outgoing \in Seq(Messages)
    /\ current \in Messages \cup {NoMessage}
    /\ outState \in OutStates
    /\ blocked \in Seq(Pieces)
    /\ wire \in Seq(Pieces \cup {Attempt, Crlf})
    /\ queued \in Seq(Messages)
    /\ resolutions \in 0..MaxResolutions
    /\ blocks \in [Messages -> 0..MaxBlocks]

\* Where the peer has a whole message.
Completions ==
    {i \in 2..Len(wire) : \E m \in Messages : wire[i - 1] = Start(m) /\ wire[i] = End(m)}

Completed(m) == \E i \in Completions : wire[i] = End(m)

\* What reached the peer is in the order it was queued.
InOrder ==
    \A i, j \in Completions : \A k, n \in 1..Len(queued) :
        (i < j /\ wire[i] = End(queued[k]) /\ wire[j] = End(queued[n])) => k <= n

\* A message reaches the peer twice only if it was marshalled again after a
\* write of its own blocked: a large message never, and no message because of
\* what happened to another one.
NothingRepeated ==
    \A i, j \in Completions : \A m \in Messages :
        wire[i] = End(m) /\ wire[j] = End(m) /\ i # j => m \notin Large /\ blocks[m] > 0

\* A message that is neither waiting nor written was on a channel whose error
\* its transaction hears of.
NoSilentLoss ==
    \A n \in 1..Len(queued) :
        \/ Completed(queued[n])
        \/ current = queued[n]
        \/ \E i \in 1..Len(outgoing) : outgoing[i] = queued[n]
        \/ state \in {"ERROR", "DISCONNECTED"}

\* Every state a channel waits in has something that will wake it up.
NoStuckChannel ==
    ~notified =>
        /\ state = "RES_IN_PROGRESS" => resolving
        /\ state = "RETRY" => connectDue
        /\ state = "CONNECTING" => socket = "connecting"
        /\ state = "ERROR" => errorDue

\* A ready channel reads from its socket ...
ReadyIsPolled == state = "READY" => Polled

\* The channel connected, or tried to, only once: later connections start
\* with a message in the middle of the send state machine.
FirstConnection ==
    \A i, j \in 1..Len(wire) : wire[i] = Attempt /\ wire[j] = Attempt => i = j

\* ... and on its first connection a blocked message is continued when the
\* socket accepts data again.
BlockedIsWatched ==
    FirstConnection /\ state = "READY" /\ outState # "IDLE" => watchWrite

\* Every message is written to its end, however often its own write blocks, or
\* its channel is given up.  Excused are a message behind another one that
\* blocked, a second resolution and a second connection.
QueuedSettles ==
    \A m \in Messages :
        (\E i \in 1..Len(queued) : queued[i] = m)
            ~> \/ \E i \in 1..Len(wire) : wire[i] = End(m)
               \/ notified
               \/ \E n \in Messages \ {m} : blocks[n] > 0
               \/ resolutions > 1
               \/ ~FirstConnection
=============================================================================
