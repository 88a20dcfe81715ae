---------------------------- MODULE ChannelInput ----------------------------
(***************************************************************************)
(* The input stream of a belle-sip channel over TCP: bytes arrive in reads *)
(* of any size and are cut into messages (belle_sip_channel_parse_stream). *)
(*                                                                         *)
(* A message is four pieces, in this order:                                *)
(*   start    the beginning of its first line, cut after the method but    *)
(*            before the whole line is there, so that it is not recognised *)
(*   line     the rest of that line, with its CRLF                         *)
(*   headers  everything up to the empty line                              *)
(*   body     BodyLength of them, when it has a Content-Length             *)
(* A keep alive is a CRLF between two messages.  Every piece but start     *)
(* holds a CRLF.  HTTP and its chunked bodies are left out.                *)
(***************************************************************************)
EXTENDS Integers, Sequences, FiniteSets, FiniteSetsExt

CONSTANTS
    Messages,        \* what the peer sends, each once
    WithBody,        \* those with a body
    Malformed,       \* those belle_sip_message_parse_raw refuses
    NoMessage,       \* no input_stream.msg
    BodyLength,      \* pieces of a body
    Capacity,        \* pieces that fit input_stream.buff
    MaxKeepAlives    \* bound: keep alives of the peer

ASSUME ChannelInputAssumption ==
    /\ WithBody \subseteq Messages
    /\ Malformed \subseteq Messages
    /\ NoMessage \notin Messages
    /\ BodyLength \in Nat \ {0}
    /\ Capacity \in Nat \ {0}
    /\ MaxKeepAlives \in Nat

VARIABLES
    input,        \* input_stream: state, msg with the body it was fed, the
                  \* bytes between read_ptr and write_ptr, the offset of
                  \* read_ptr in buff, end_of_stream, incoming_messages
    stream,       \* history: every piece the peer sent
    got,          \* how many of them were read, the others are under way
    peerClosed,   \* the peer closed the connection
    open,         \* the channel is READY, not DISCONNECTED
    delivered,    \* what on_message was called with: messages and their bodies
    wholeLines    \* history: messages whose first line came in one read

vars == <<input, stream, got, peerClosed, open, delivered, wholeLines>>

InputStates == {"WAITING_MESSAGE_START", "MESSAGE_AQUISITION", "BODY_AQUISITION"}

KeepAlive == <<NoMessage, "crlf">>

BodyOf(m) == IF m \in WithBody THEN [i \in 1..BodyLength |-> <<m, "body">>]
                               ELSE <<>>

PiecesOf(m) == << <<m, "start">>, <<m, "line">>, <<m, "headers">> >> \o BodyOf(m)

Pieces == (Messages \X {"start", "line", "headers", "body"}) \cup {KeepAlive}

InputStream ==
    [state : InputStates, msg : Messages \cup {NoMessage},
     body : {b \in Seq(Pieces) : Len(b) < BodyLength},
     bytes : Seq(Pieces), offset : Nat, eos : BOOLEAN,
     ready : Seq((Messages \cup {NoMessage}) \X Seq(Pieces))]

Init ==
    /\ input = [state |-> "WAITING_MESSAGE_START", msg |-> NoMessage,
                body |-> <<>>, bytes |-> <<>>, offset |-> 0, eos |-> FALSE,
                ready |-> <<>>]
    /\ stream = <<>>
    /\ got = 0
    /\ peerClosed = FALSE
    /\ open = TRUE
    /\ delivered = <<>>
    /\ wholeLines = {}

-----------------------------------------------------------------------------
(***************************************************************************)
(* One turn of the loop of belle_sip_channel_parse_stream.  A turn that    *)
(* changes nothing is the one the loop breaks in.                          *)
(***************************************************************************)

\* What is left in buff after write_ptr.
Room(s) == Capacity - s.offset - Len(s.bytes)

\* Moves read_ptr: the bytes are consumed but still take their room.
Skipped(s, n) ==
    [s EXCEPT !.bytes = SubSeq(s.bytes, n + 1, Len(s.bytes)),
              !.offset = s.offset + n]

\* belle_sip_channel_input_stream_rewind
Rewound(s) == [s EXCEPT !.offset = 0]

\* Mutant: what was consumed keeps its room.
ResetWithoutRewind(s) == [s EXCEPT !.state = "WAITING_MESSAGE_START",
                                   !.msg = NoMessage, !.body = <<>>]

\* Mutant: the message is not let go.
ResetKeepsMessage(s) == [Rewound(s) EXCEPT !.state = "WAITING_MESSAGE_START",
                                           !.body = <<>>]

\* belle_sip_channel_input_stream_reset
Reset(s) == [Rewound(s) EXCEPT !.state = "WAITING_MESSAGE_START",
                               !.msg = NoMessage, !.body = <<>>]

\* belle_sip_channel_message_ready
MessageReady(s) ==
    Reset([s EXCEPT !.ready = Append(s.ready, <<s.msg, s.body>>)])

\* Where get_message_start_pos recognises a first line, which it looks for in
\* all the bytes.
Starts(s) == {i \in 1..Len(s.bytes) - 1 :
                 s.bytes[i][2] = "start" /\ s.bytes[i + 1][2] = "line"}

\* There is a CRLF somewhere, or no room for more.
MayHoldLine(s) ==
    \/ \E i \in DOMAIN s.bytes : s.bytes[i][2] # "start"
    \/ Room(s) = 0

\* Mutant: a first line is looked for at read_ptr only.
FindStartAtReadPtr(s) ==
    IF ~MayHoldLine(s) THEN s
    ELSE IF 1 \notin Starts(s) THEN Reset(Skipped(s, Len(s.bytes)))
    ELSE [s EXCEPT !.state = "MESSAGE_AQUISITION"]

\* Trashes what comes before a first line, or everything if there is none.
FindStart(s) ==
    IF ~MayHoldLine(s) THEN s
    ELSE IF Starts(s) = {} THEN Reset(Skipped(s, Len(s.bytes)))
    ELSE [Skipped(s, Min(Starts(s)) - 1) EXCEPT !.state = "MESSAGE_AQUISITION"]

\* check_body: the message has a Content-Length above 0.
CheckBody(m) == m \in WithBody

\* Parses up to the empty line, when it is there.  What cannot be parsed is
\* skipped, up to its body, without rewinding the buffer.
AcquireHeaders(s) ==
    LET Ends == {i \in DOMAIN s.bytes : s.bytes[i][2] = "headers"}
        end  == Min(Ends)
        m    == s.bytes[end][1]
        next == Skipped(s, end)
    IN  IF Ends = {} THEN s
        ELSE IF m \in Malformed
        THEN [next EXCEPT !.state = "WAITING_MESSAGE_START"]
        ELSE IF CheckBody(m)
        THEN [next EXCEPT !.state = "BODY_AQUISITION", !.msg = m]
        ELSE MessageReady([next EXCEPT !.msg = m])

FeedBody(s, n) ==
    Rewound([Skipped(s, n) EXCEPT !.body = s.body \o SubSeq(s.bytes, 1, n)])

\* Mutant: the body takes all the bytes there are.
AcquireAll(s) ==
    LET fed == FeedBody(s, Len(s.bytes))
    IN  IF s.eos \/ Len(fed.body) >= BodyLength THEN MessageReady(fed) ELSE fed

\* acquire_body_simple: feeds the body with what is there, no more than the
\* Content-Length.
AcquireBody(s) ==
    LET fed == FeedBody(s, Min({BodyLength - Len(s.body), Len(s.bytes)}))
    IN  IF s.eos \/ Len(fed.body) >= BodyLength THEN MessageReady(fed) ELSE fed

Turn(s) ==
    IF s.bytes = <<>> THEN s
    ELSE CASE s.state = "WAITING_MESSAGE_START" -> FindStart(s)
           [] s.state = "MESSAGE_AQUISITION"    -> AcquireHeaders(s)
           [] s.state = "BODY_AQUISITION"       -> AcquireBody(s)

\* The loop of belle_sip_channel_parse_stream.
ParseStream[s \in InputStream] ==
    IF Turn(s) = s THEN s ELSE ParseStream[Turn(s)]

NotifyIncomingMessages(s) ==
    /\ delivered' = delivered \o s.ready
    /\ input' = [s EXCEPT !.ready = <<>>]

\* belle_sip_channel_process_stream
ProcessStream(s) == NotifyIncomingMessages(ParseStream[s])

-----------------------------------------------------------------------------
(***************************************************************************)
(* The peer, and the reads of belle_sip_channel_process_read_data.         *)
(***************************************************************************)

PeerSends(m) ==
    /\ ~peerClosed
    /\ \A i \in DOMAIN stream : stream[i][1] # m
    /\ stream' = stream \o PiecesOf(m)
    /\ UNCHANGED <<input, got, peerClosed, open, delivered, wholeLines>>

KeepAlives == {i \in DOMAIN stream : stream[i] = KeepAlive}

PeerKeepsAlive ==
    /\ ~peerClosed
    /\ Cardinality(KeepAlives) < MaxKeepAlives
    /\ stream' = Append(stream, KeepAlive)
    /\ UNCHANGED <<input, got, peerClosed, open, delivered, wholeLines>>

PeerCloses ==
    /\ ~peerClosed
    /\ peerClosed' = TRUE
    /\ UNCHANGED <<input, stream, got, open, delivered, wholeLines>>

\* The messages whose start and line are both in the pieces.
LinesIn(pieces) ==
    {m \in Messages : \A part \in {"start", "line"} :
                          \E i \in DOMAIN pieces : pieces[i] = <<m, part>>}

\* recv() returns n pieces.
Read(n) ==
    LET pieces == SubSeq(stream, got + 1, got + n)
    IN  /\ open
        /\ n <= Len(stream) - got
        /\ n <= Room(input)
        /\ ProcessStream([input EXCEPT !.bytes = @ \o pieces])
        /\ got' = got + n
        /\ wholeLines' = wholeLines \cup LinesIn(pieces)
        /\ UNCHANGED <<stream, peerClosed, open>>

\* recv() returns 0: the peer closed the connection, or there is no room and
\* recv() was asked for nothing.
ReadNothing ==
    /\ open
    /\ \/ peerClosed /\ got = Len(stream)
       \/ Room(input) = 0 /\ got < Len(stream)
    /\ ProcessStream([input EXCEPT !.eos = TRUE])
    /\ open' = FALSE
    /\ UNCHANGED <<stream, got, peerClosed, wholeLines>>

Next ==
    \/ \E m \in Messages : PeerSends(m)
    \/ PeerKeepsAlive
    \/ PeerCloses
    \/ \E n \in 1..Capacity : Read(n)
    \/ ReadNothing

Spec == Init /\ [][Next]_vars

-----------------------------------------------------------------------------
(***************************************************************************)
(* Properties.                                                             *)
(***************************************************************************)

\* The input stream has the types of belle_sip_channel_input_stream_t, its
\* write_ptr stays in buff, and it holds a message only to acquire its body.
TypeOK ==
    /\ input \in InputStream
    /\ input.ready = <<>>
    /\ Room(input) \in Nat
    /\ (input.msg # NoMessage) = (input.state = "BODY_AQUISITION")
    /\ stream \in Seq(Pieces)
    /\ got \in 0..Len(stream)
    /\ peerClosed \in BOOLEAN
    /\ open \in BOOLEAN
    /\ delivered \in Seq(Messages \X Seq(Pieces))
    /\ wholeLines \subseteq Messages

\* Where the message begins and ends in what was sent.
StartOf(m) == CHOOSE i \in DOMAIN stream : stream[i] = <<m, "start">>
EndOf(m)   == StartOf(m) + Len(PiecesOf(m)) - 1

Sent(m) == \E i \in DOMAIN stream : stream[i] = <<m, "start">>

\* The message was read to its last byte.
Arrived(m) == Sent(m) /\ EndOf(m) <= got

Delivered(m) == \E i \in DOMAIN delivered : delivered[i][1] = m

\* However the stream is cut into reads, what the listeners are given are
\* messages that were sent, each once, in the order they were sent, each with
\* its own whole body and not a byte of another message
\* (belle_sip_channel_parse_stream, acquire_body_simple).
DeliveredAsSent ==
    /\ \A i \in DOMAIN delivered :
           /\ delivered[i][1] \notin Malformed
           /\ delivered[i][2] = BodyOf(delivered[i][1])
           /\ Arrived(delivered[i][1])
    /\ \A i, j \in DOMAIN delivered :
           i < j => StartOf(delivered[i][1]) < StartOf(delivered[j][1])

\* A message that arrived whole is delivered at once, wherever the reads cut
\* the stream, if its first line came in one read or if nothing had to be
\* trashed before it: keep alives, the remains of messages that were lost or
\* could not be parsed, take no such message with them, and the parser runs
\* until it needs more bytes (get_message_start_pos,
\* belle_sip_channel_parse_stream).
ArrivedIsDelivered ==
    \A m \in Messages \ Malformed :
        /\ Arrived(m)
        /\ \/ m \in wholeLines
           \/ \A i \in 1..StartOf(m) : stream[i][1] \notin Malformed \cup {NoMessage}
        => Delivered(m)

\* The buffer is given back message after message: while there is room for the
\* headers of one message behind what precedes it, the channel never takes its
\* own full buffer for the peer closing (closed_by_remote).
ClosedByPeerOnly == ~open => peerClosed

\* Every message that arrived and can be parsed is delivered, keep alives and
\* garbage in front of it or not, as the recovery of
\* belle_sip_channel_parse_stream promises.
EveryMessageDelivered ==
    \A m \in Messages \ Malformed : Arrived(m) => Delivered(m)
=============================================================================
