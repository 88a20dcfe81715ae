--------------------------- MODULE Channel_proofs ---------------------------
(***************************************************************************)
(* What a channel keeps for any set of messages, number of addresses and   *)
(* bound on resolutions and blocked writes.                                *)
(***************************************************************************)
EXTENDS Channel, SequenceTheorems, TLAPS

\* NoStuckChannel with what makes it inductive: a channel that is to connect
\* to the next address has one, so that an attempt that fails at once either
\* goes on to another or finds the last one and is notified.
ChannelInv ==
    /\ peers \in Nat
    /\ state = "RETRY" => peers > 0
    /\ NoStuckChannel

\* Queue processing leaves the channel ready, or in error with the
\* notification deferred (channel_process_queue).
LEMMA ProcessQueueEnds ==
    ASSUME NEW messages, NEW watch, ProcessQueue(messages, watch)
    PROVE  \/ state' = "READY"
           \/ state' = "ERROR" /\ errorDue'
BY DEF ProcessQueue

\* An error defers the attempt on the next address or the notification
\* (belle_sip_channel_handle_error).
LEMMA HandleErrorEnds ==
    ASSUME NEW soft \in BOOLEAN, NEW left, peers \in Nat, HandleError(soft, left)
    PROVE  /\ peers' \in Nat
           /\ \/ state' = "RETRY" /\ connectDue' /\ peers' > 0
              \/ state' = "ERROR" /\ errorDue'
BY DEF HandleError

\* An attempt goes on, or is followed by another or by the notification
\* (belle_sip_channel_connect).
LEMMA TryConnectEnds ==
    ASSUME NEW n \in Nat \ {0}, TryConnect(n)
    PROVE  /\ peers' \in Nat
           /\ \/ state' = "CONNECTING" /\ socket' = "connecting"
              \/ state' = "RETRY" /\ connectDue' /\ peers' > 0
              \/ state' = "ERROR" /\ errorDue'
BY DEF TryConnect

LEMMA ChannelInit == Init => ChannelInv
BY DEF Init, ChannelInv, NoStuckChannel

\* Each step of a user of the channel keeps the invariant.
LEMMA UseKeeps == ChannelInv /\ ~notified /\ Use => ChannelInv'
<1> SUFFICES ASSUME ChannelInv, ~notified, Use
             PROVE  ChannelInv'
  OBVIOUS
<1> USE DEF ChannelInv, NoStuckChannel
<1>1. ASSUME NEW m \in Messages, QueueMessage(m)
      PROVE  ChannelInv'
  <2>1. CASE state = "READY"
    <3>1. ProcessQueue(Append(outgoing, m), watchWrite)
      BY <1>1, <2>1 DEF QueueMessage
    <3> QED BY <1>1, <2>1, <3>1, ProcessQueueEnds DEF QueueMessage
  <2>2. CASE state = "INIT"
    BY <1>1, <2>2 DEF QueueMessage, Resolve
  <2>3. CASE state \notin {"READY", "INIT"}
    BY <1>1, <2>3 DEF QueueMessage, connection
  <2> QED BY <2>1, <2>2, <2>3
<1>2. CASE Prepare
  BY <1>2 DEF Prepare, Resolve
<1>3. CASE CheckDnsReusability
  BY <1>3 DEF CheckDnsReusability, Resolve
<1>4. CASE NotifyServerError
  BY <1>4, HandleErrorEnds DEF NotifyServerError
<1>5. CASE NotifyTimeout
  BY <1>5, HandleErrorEnds DEF NotifyTimeout
<1>6. CASE KeepAlive
  <2>1. CASE UNCHANGED connection
    BY <1>6, <2>1 DEF connection
  <2>2. CASE HandleError(FALSE, "closed")
    BY <1>6, <2>2, HandleErrorEnds DEF KeepAlive, connection
  <2> QED BY <1>6, <2>1, <2>2 DEF KeepAlive, connection
<1>7. CASE Disconnect
  BY <1>7 DEF Disconnect
<1> QED BY <1>1, <1>2, <1>3, <1>4, <1>5, <1>6, <1>7 DEF Use

\* Each callback of the main loop keeps the invariant.
LEMMA LoopKeeps == ChannelInv /\ ~notified /\ Loop => ChannelInv'
<1> SUFFICES ASSUME ChannelInv, ~notified, Loop
             PROVE  ChannelInv'
  OBVIOUS
<1> USE DEF ChannelInv, NoStuckChannel
<1>1. CASE ResolutionSucceeds
  <2>1. CASE \E n \in 1..Addresses : TryConnect(n)
    <3>1. PICK n \in 1..Addresses : TryConnect(n)
      BY <2>1
    <3>2. n \in Nat \ {0}
      BY ChannelAssumption
    <3> QED BY <3>1, <3>2, TryConnectEnds
  <2>2. CASE UNCHANGED peers /\ ProcessQueue(outgoing, watchWrite)
    BY <2>2, ProcessQueueEnds
  <2>3. CASE peers' \in 1..Addresses /\ connectDue' = TRUE /\ state' = "RETRY"
    BY <2>3, ChannelAssumption
  <2> QED BY <1>1, <2>1, <2>2, <2>3 DEF ResolutionSucceeds
<1>2. CASE ResolutionFails
  BY <1>2, HandleErrorEnds DEF ResolutionFails
<1>3. CASE ConnectNext
  <2>1. CASE state = "RETRY"
    BY <1>3, <2>1, TryConnectEnds DEF ConnectNext
  <2>2. CASE state # "RETRY"
    BY <1>3, <2>2 DEF ConnectNext
  <2> QED BY <2>1, <2>2
<1>4. CASE Connected
  BY <1>4, ProcessQueueEnds DEF Connected
<1>5. CASE ConnectionFails
  BY <1>5, HandleErrorEnds DEF ConnectionFails
<1>6. CASE Writable
  BY <1>6, ProcessQueueEnds DEF Writable
<1>7. CASE ReadFails
  BY <1>7, HandleErrorEnds DEF ReadFails
<1>8. CASE UnexpectedEvent
  BY <1>8, HandleErrorEnds DEF UnexpectedEvent
<1>9. CASE NotifyErrorToListeners
  BY <1>9 DEF NotifyErrorToListeners
<1> QED BY <1>1, <1>2, <1>3, <1>4, <1>5, <1>6, <1>7, <1>8, <1>9 DEF Loop

\* Every state a channel waits in has a resolution, an attempt to connect or a
\* deferred callback that will wake it up.
THEOREM ChannelNeverStuck == Spec => []NoStuckChannel
<1>1. Init => ChannelInv
  BY ChannelInit
<1>2. ChannelInv /\ [Next]_vars => ChannelInv'
  <2> SUFFICES ASSUME ChannelInv, [Next]_vars
               PROVE  ChannelInv'
    OBVIOUS
  <2>1. CASE Next
    BY <2>1, UseKeeps, LoopKeeps DEF Next
  <2>2. CASE UNCHANGED vars
    BY <2>2 DEF vars, connection, ChannelInv, NoStuckChannel
  <2> QED BY <2>1, <2>2
<1>3. ChannelInv => NoStuckChannel
  BY DEF ChannelInv
<1> QED BY <1>1, <1>2, <1>3, PTL DEF Spec

-----------------------------------------------------------------------------
(***************************************************************************)
(* The types, and what the fields of the output say of each other: what is *)
(* blocked belongs to the current message, and the body of a large one is  *)
(* sent or taken as a whole.                                               *)
(***************************************************************************)
ConnectionOK ==
    /\ state \in States
    /\ peers \in 0..Addresses
    /\ state = "RETRY" => peers > 0
    /\ socket \in Sockets
    /\ resolving \in BOOLEAN
    /\ dnsTimer \in BOOLEAN
    /\ connectDue \in BOOLEAN
    /\ errorDue \in BOOLEAN
    /\ notified \in BOOLEAN
    /\ resolutions \in 0..MaxResolutions

OutputOK ==
    /\ outgoing \in Seq(Messages)
    /\ outState \in OutStates
    /\ watchWrite \in BOOLEAN
    /\ bodyTaken \in BOOLEAN
    /\ wire \in Seq(Pieces \cup {Attempt, Crlf})
    /\ blocks \in [Messages -> 0..MaxBlocks]
    /\ blocked \in Seq(Pieces)
    /\ IF outState = "IDLE"
          THEN current = NoMessage /\ blocked = << >>
          ELSE current \in Messages /\ blocks[current] > 0
    /\ \A i \in 1..Len(blocked) : blocked[i][1] = current
    /\ current \in Large =>
          /\ outState = "SENDING_BODY"
          /\ \/ blocked = <<Start(current)>> /\ bodyTaken = FALSE
             \/ blocked = <<End(current)>> /\ bodyTaken = TRUE

TypeInv == ConnectionOK /\ OutputOK /\ queued \in Seq(Messages)

LEMMA TypeInvImpliesTypeOK == TypeInv => TypeOK
BY DEF TypeInv, TypeOK, ConnectionOK, OutputOK

-----------------------------------------------------------------------------
\* The pieces of one message.
LEMMA PieceFacts ==
    /\ \A m \in Messages : /\ Start(m) \in Pieces /\ End(m) \in Pieces
                           /\ Start(m)[1] = m /\ End(m)[1] = m
                           /\ \A n : Start(m) # End(n)
                           /\ \A n : End(m) = End(n) => m = n
    /\ \A piece \in Pieces : /\ piece[1] \in Messages
                             /\ piece = Start(piece[1]) \/ piece = End(piece[1])
BY DEF Pieces, Start, End

\* The pieces of messages are two of each, one message after the other.
LEMMA PiecesOfFacts ==
    ASSUME NEW s \in Seq(Messages)
    PROVE  /\ PiecesOf(s) \in Seq(Pieces)
           /\ Len(PiecesOf(s)) = 2 * Len(s)
           /\ \A i \in 1..2 * Len(s) :
                 /\ (i + 1) \div 2 \in 1..Len(s)
                 /\ PiecesOf(s)[i][1] = s[(i + 1) \div 2]
                 /\ PiecesOf(s)[i] = End(s[(i + 1) \div 2]) => i = 2 * ((i + 1) \div 2)
<1> DEFINE n == 2 * Len(s)
<1>1. n \in Nat /\ Len(s) \in Nat
  BY LenProperties
<1>2. \A i \in 1..n : /\ (i + 1) \div 2 \in 1..Len(s)
                      /\ i % 2 = 1 => i + 1 = 2 * ((i + 1) \div 2)
                      /\ i % 2 # 1 => i \div 2 = (i + 1) \div 2 /\ i = 2 * (i \div 2)
  BY <1>1
<1>3. \A i \in 1..n : s[(i + 1) \div 2] \in Messages
  BY <1>2, ElementOfSeq
<1>4. \A i \in 1..n :
         PiecesOf(s)[i] = IF i % 2 = 1 THEN Start(s[(i + 1) \div 2])
                                       ELSE End(s[(i + 1) \div 2])
  BY <1>2 DEF PiecesOf
<1>5. \A i \in 1..n : PiecesOf(s)[i] \in Pieces
  BY <1>3, <1>4, PieceFacts
<1>6. PiecesOf(s) \in [1..n -> Pieces]
  BY <1>5 DEF PiecesOf
<1>7. PiecesOf(s) \in Seq(Pieces) /\ Len(PiecesOf(s)) = n
  BY <1>1, <1>6, LenProperties
<1>8. \A i \in 1..n : PiecesOf(s)[i][1] = s[(i + 1) \div 2]
  BY <1>3, <1>4, PieceFacts
<1>9. \A i \in 1..n : PiecesOf(s)[i] = End(s[(i + 1) \div 2]) => i % 2 # 1
  BY <1>3, <1>4, PieceFacts
<1> QED BY <1>2, <1>7, <1>8, <1>9

\* What _send_message would write of the current message, the blocked buffer
\* first.
Rest == blocked \o Resumed

LEMMA RestFacts ==
    ASSUME OutputOK
    PROVE  /\ Resumed \in Seq(Pieces)
           /\ Rest \in Seq(Pieces)
           /\ Len(Rest) = Len(blocked) + Len(Resumed)
           /\ outState = "IDLE" => Rest = << >>
           /\ \A i \in 1..Len(Rest) : Rest[i][1] = current
           /\ \A i \in 1..Len(blocked) : Rest[i] = blocked[i]
           /\ current \in Large => \A i \in 1..Len(Rest) :
                                      Rest[i] = End(current) => i = Len(Rest)
<1> USE DEF OutputOK
<1>1. CASE outState = "IDLE"
  <2>1. Resumed = << >> /\ blocked = << >>
    BY <1>1 DEF Resumed
  <2>2. Rest = << >>
    BY <2>1 DEF Rest
  <2>3. current \notin Large
    BY <1>1
  <2> QED BY <1>1, <2>1, <2>2, <2>3, EmptySeq
<1>2. CASE outState # "IDLE"
  <2> DEFINE c == current
  <2>1. c \in Messages
    BY <1>2
  <2>2. /\ Resumed \in Seq(Pieces)
        /\ \A i \in 1..Len(Resumed) : Resumed[i][1] = c
    <3>1. CASE outState = "SENDING_HEADERS"
      <4> DEFINE only == <<c>>
      <4>1. Resumed = PiecesOf(only)
        BY <3>1 DEF Resumed
      <4>2. only \in Seq(Messages) /\ Len(only) = 1 /\ only[1] = c
        BY <2>1
      <4> HIDE DEF only
      <4>3. /\ PiecesOf(only) \in Seq(Pieces)
            /\ Len(PiecesOf(only)) = 2 * Len(only)
            /\ \A i \in 1..2 * Len(only) :
                  PiecesOf(only)[i][1] = only[(i + 1) \div 2]
        BY <4>2, PiecesOfFacts
      <4>4. 2 * Len(only) = 2
        BY <4>2
      <4>5. \A i \in 1..2 : (i + 1) \div 2 = 1
        OBVIOUS
      <4> QED BY <4>1, <4>2, <4>3, <4>4, <4>5
    <3>2. CASE outState = "SENDING_BODY" /\ bodyTaken
      <4>1. Resumed = << >>
        BY <3>2 DEF Resumed
      <4> QED BY <4>1, EmptySeq
    <3>3. CASE outState = "SENDING_BODY" /\ ~bodyTaken
      <4>1. Resumed = <<End(c)>>
        BY <3>3 DEF Resumed
      <4>2. End(c) \in Pieces /\ End(c)[1] = c
        BY <2>1, PieceFacts
      <4> QED BY <4>1, <4>2
    <3> QED BY <1>2, <3>1, <3>2, <3>3 DEF OutStates
  <2>3. /\ Rest \in Seq(Pieces) /\ Len(Rest) = Len(blocked) + Len(Resumed)
        /\ \A i \in 1..Len(blocked) + Len(Resumed) :
              Rest[i] = IF i <= Len(blocked) THEN blocked[i]
                                             ELSE Resumed[i - Len(blocked)]
    BY <2>2, ConcatProperties DEF Rest
  <2>4. Len(blocked) \in Nat /\ Len(Resumed) \in Nat
    BY <2>2, LenProperties
  <2>5. \A i \in 1..Len(Rest) : Rest[i][1] = c
    <3> SUFFICES ASSUME NEW i \in 1..Len(Rest)
                 PROVE  Rest[i][1] = c
      OBVIOUS
    <3>1. CASE i <= Len(blocked)
      BY <2>3, <2>4, <3>1
    <3>2. CASE ~(i <= Len(blocked))
      <4>1. i - Len(blocked) \in 1..Len(Resumed)
        BY <2>3, <2>4, <3>2
      <4> QED BY <2>2, <2>3, <3>2, <4>1
    <3> QED BY <3>1, <3>2
  <2>6. ASSUME c \in Large, NEW i \in 1..Len(Rest), Rest[i] = End(c)
        PROVE  i = Len(Rest)
    <3>1. CASE blocked = <<Start(c)>> /\ bodyTaken = FALSE
      <4>1. Resumed = <<End(c)>>
        BY <2>6, <3>1 DEF Resumed
      <4>2. Len(Resumed) = 1 /\ Len(blocked) = 1 /\ blocked[1] = Start(c)
        BY <3>1, <4>1
      <4>3. Start(c) # End(c)
        BY <2>1, PieceFacts
      <4> QED BY <2>3, <2>6, <4>2, <4>3
    <3>2. CASE blocked = <<End(c)>> /\ bodyTaken = TRUE
      <4>1. Resumed = << >>
        BY <2>6, <3>2 DEF Resumed
      <4>2. Len(Resumed) = 0 /\ Len(blocked) = 1
        BY <3>2, <4>1
      <4> QED BY <2>3, <2>6, <4>2
    <3> QED BY <2>6, <3>1, <3>2
  <2>7. \A i \in 1..Len(blocked) : Rest[i] = blocked[i]
    BY <2>3, <2>4
  <2> QED BY <1>2, <2>2, <2>3, <2>5, <2>6, <2>7
<1> QED BY <1>1, <1>2

\* All that the queue would write, and which message each piece is of.
Plan(messages) == Rest \o PiecesOf(messages)

LEMMA PlanFacts ==
    ASSUME OutputOK, NEW messages \in Seq(Messages)
    PROVE  /\ Plan(messages) \in Seq(Pieces)
           /\ Len(Plan(messages)) = Len(Rest) + 2 * Len(messages)
           /\ \A i \in 1..Len(Plan(messages)) :
                 /\ i <= Len(Rest) => Plan(messages)[i] = Rest[i]
                 /\ i > Len(Rest) => /\ i - Len(Rest) \in 1..2 * Len(messages)
                                     /\ Plan(messages)[i] = PiecesOf(messages)[i - Len(Rest)]
           /\ blocked \o Resumed \o PiecesOf(messages) = Plan(messages)
<1>1. Rest \in Seq(Pieces) /\ PiecesOf(messages) \in Seq(Pieces)
      /\ Len(PiecesOf(messages)) = 2 * Len(messages)
  BY RestFacts, PiecesOfFacts
<1>2. Len(Rest) \in Nat /\ Len(messages) \in Nat
  BY <1>1, LenProperties
<1>3. /\ Plan(messages) \in Seq(Pieces)
      /\ Len(Plan(messages)) = Len(Rest) + 2 * Len(messages)
      /\ \A i \in 1..Len(Rest) + 2 * Len(messages) :
            Plan(messages)[i] = IF i <= Len(Rest) THEN Rest[i]
                                ELSE PiecesOf(messages)[i - Len(Rest)]
  BY <1>1, ConcatProperties DEF Plan
<1>4. blocked \o Resumed \o PiecesOf(messages) = Plan(messages)
  BY DEF Plan, Rest
<1> QED BY <1>2, <1>3, <1>4

-----------------------------------------------------------------------------
\* Queue processing writes a part of the plan, takes at least the messages of
\* that part out of the queue, and keeps as current the one it stopped at.
WritesUpTo(messages, written, taken) ==
    /\ wire' = wire \o SubSeq(Plan(messages), 1, written)
    /\ outgoing' = SubSeq(messages, taken + 1, Len(messages))
    /\ written <= Len(Rest) + 2 * taken
    /\ \/ current' = NoMessage
       \/ /\ written < Len(Plan(messages))
          /\ current' = Plan(messages)[written + 1][1]
          /\ written < Len(Rest) + 2 * taken

\* The messages that LeftInQueue takes out.
LEMMA LeftFacts ==
    ASSUME OutputOK, NEW messages \in Seq(Messages),
           NEW written \in 0..Len(Plan(messages)) - 1
    PROVE  \E taken \in Nat :
              /\ LeftInQueue(messages, written) = SubSeq(messages, taken + 1, Len(messages))
              /\ written < Len(Rest) + 2 * taken
<1>1. Len(Rest) = Len(blocked) + Len(Resumed) /\ Len(Rest) \in Nat /\ written \in Nat
  BY RestFacts, PlanFacts, LenProperties
<1> DEFINE taken == IF written < Len(Rest) THEN 1
                    ELSE (written - Len(Rest)) \div 2 + 2
<1>2. LeftInQueue(messages, written) = SubSeq(messages, taken + 1, Len(messages))
  BY <1>1 DEF LeftInQueue
<1>3. taken \in Nat /\ written < Len(Rest) + 2 * taken
  <2>1. CASE written < Len(Rest)
    BY <1>1, <2>1
  <2>2. CASE ~(written < Len(Rest))
    <3> DEFINE d == written - Len(Rest)
               h == d \div 2
    <3>1. d \in Nat
      BY <1>1, <2>2
    <3>2. h \in Nat /\ d < 2 * h + 2
      BY <3>1
    <3>3. taken = h + 2
      BY <2>2
    <3> HIDE DEF taken, h
    <3> QED BY <1>1, <3>1, <3>2, <3>3
  <2> QED BY <2>1, <2>2
<1> HIDE DEF taken
<1> QED BY <1>2, <1>3

LEMMA QueueWrites ==
    ASSUME OutputOK, NEW messages \in Seq(Messages), NEW watch \in BOOLEAN,
           messages = << >> => outgoing = << >>,
           ProcessQueue(messages, watch)
    PROVE  \E written \in 0..Len(Plan(messages)), taken \in Nat :
              WritesUpTo(messages, written, taken)
<1> DEFINE plan == Plan(messages)
           T == Pieces \cup {Attempt, Crlf}
<1>1. /\ plan = blocked \o Resumed \o PiecesOf(messages)
      /\ plan \in Seq(Pieces) /\ Len(plan) \in Nat
      /\ Len(plan) = Len(Rest) + 2 * Len(messages)
  BY PlanFacts, LenProperties
<1>2. Len(Rest) \in Nat /\ Len(messages) \in Nat
  BY RestFacts, LenProperties
<1>3. CASE NothingToWrite(messages, watch)
  <2>1. messages = << >> /\ outState = "IDLE" /\ UNCHANGED <<outgoing, current, wire>>
    BY <1>3 DEF NothingToWrite
  <2>2. current' = NoMessage /\ outgoing' = << >> /\ wire \in Seq(T)
    BY <2>1 DEF OutputOK
  <2>3. wire' = wire \o SubSeq(plan, 1, 0)
    BY <2>1, <2>2, ConcatEmptySeq, SubSeqEmpty
  <2>4. outgoing' = SubSeq(messages, 0 + 1, Len(messages))
    BY <2>1, <2>2, SubSeqEmpty, EmptySeq
  <2>5. WritesUpTo(messages, 0, 0)
    BY <1>2, <2>2, <2>3, <2>4 DEF WritesUpTo
  <2> QED BY <1>1, <2>5
<1>4. CASE WriteAll(messages)
  <2>1. /\ wire' = wire \o blocked \o Resumed \o PiecesOf(messages)
        /\ outgoing' = << >> /\ current' = NoMessage
    BY <1>4 DEF WriteAll
  <2>2. /\ blocked \in Seq(T) /\ Resumed \in Seq(T) /\ PiecesOf(messages) \in Seq(T)
        /\ Rest \in Seq(T) /\ wire \in Seq(T)
    BY RestFacts, PiecesOfFacts, SeqMonotonic DEF OutputOK
  <2>3. (wire \o blocked) \o Resumed = wire \o Rest
    BY <2>2, ConcatAssociative DEF Rest
  <2>4. (wire \o Rest) \o PiecesOf(messages) = wire \o (Rest \o PiecesOf(messages))
    BY <2>2, ConcatAssociative, SMTT(30)
  <2>5. wire' = wire \o plan
    BY <2>1, <2>3, <2>4 DEF Plan
  <2>6. wire' = wire \o SubSeq(plan, 1, Len(plan))
    BY <1>1, <2>5, SubSeqFull
  <2>7. outgoing' = SubSeq(messages, Len(messages) + 1, Len(messages))
    BY <1>2, <2>1, SubSeqEmpty
  <2>8. WritesUpTo(messages, Len(plan), Len(messages))
    BY <1>1, <1>2, <2>1, <2>6, <2>7 DEF WritesUpTo
  <2> QED BY <1>1, <1>2, <2>8
<1>5. CASE WriteUntilBlocked(messages, watch)
  <2>1. PICK written \in 0..Len(plan) - 1 :
           /\ wire' = wire \o SubSeq(plan, 1, written)
           /\ outgoing' = LeftInQueue(messages, written)
           /\ current' = plan[written + 1][1]
    BY <1>1, <1>5 DEF WriteUntilBlocked
  <2>2. PICK taken \in Nat :
           /\ LeftInQueue(messages, written) = SubSeq(messages, taken + 1, Len(messages))
           /\ written < Len(Rest) + 2 * taken
    BY LeftFacts
  <2>3. written < Len(plan) /\ written <= Len(Rest) + 2 * taken
    BY <1>1, <1>2, <2>2
  <2>4. WritesUpTo(messages, written, taken)
    BY <2>1, <2>2, <2>3 DEF WritesUpTo
  <2> QED BY <1>1, <2>4, SMTT(30)
<1>6. CASE WriteUntilError(messages)
  <2>1. PICK written \in 0..Len(plan) - 1 :
           /\ wire' = wire \o SubSeq(plan, 1, written)
           /\ outgoing' = LeftInQueue(messages, written)
           /\ current' = NoMessage
    BY <1>1, <1>6 DEF WriteUntilError
  <2>2. PICK taken \in Nat :
           /\ LeftInQueue(messages, written) = SubSeq(messages, taken + 1, Len(messages))
           /\ written < Len(Rest) + 2 * taken
    BY LeftFacts
  <2>3. written < Len(plan) /\ written <= Len(Rest) + 2 * taken
    BY <1>1, <1>2, <2>2
  <2>4. WritesUpTo(messages, written, taken)
    BY <2>1, <2>2, <2>3 DEF WritesUpTo
  <2> QED BY <1>1, <2>4, SMTT(30)
<1> QED BY <1>3, <1>4, <1>5, <1>6 DEF ProcessQueue

\* What WritesUpTo says of the types.
LEMMA WrittenTypes ==
    ASSUME OutputOK, NEW messages \in Seq(Messages),
           NEW written \in 0..Len(Plan(messages)), NEW taken \in Nat,
           WritesUpTo(messages, written, taken)
    PROVE  /\ wire' \in Seq(Pieces \cup {Attempt, Crlf})
           /\ outgoing' \in Seq(Messages)
<1> DEFINE T == Pieces \cup {Attempt, Crlf}
           part == SubSeq(Plan(messages), 1, written)
<1>1. Plan(messages) \in Seq(Pieces) /\ wire \in Seq(T) /\ Len(Plan(messages)) \in Nat
  BY PlanFacts, LenProperties DEF OutputOK
<1>2. \A i \in 1..written : Plan(messages)[i] \in T
  BY <1>1, ElementOfSeq
<1>3. part \in Seq(T)
  BY <1>1, <1>2, SubSeqProperties
<1>4. wire' \in Seq(T)
  BY <1>1, <1>3, ConcatProperties DEF WritesUpTo
<1>5. \A i \in taken + 1..Len(messages) : messages[i] \in Messages
  BY LenProperties, ElementOfSeq
<1>6. outgoing' \in Seq(Messages)
  BY <1>5, LenProperties, SubSeqProperties DEF WritesUpTo
<1> QED BY <1>4, <1>6

\* The buffer that a write stopped in belongs to the message of its piece.
LEMMA BufferFacts ==
    ASSUME NEW piece \in Pieces
    PROVE  /\ BufferFrom(piece) \in Seq(Pieces)
           /\ \A i \in 1..Len(BufferFrom(piece)) : BufferFrom(piece)[i][1] = piece[1]
           /\ piece[1] \in Large => BufferFrom(piece) = <<piece>>
<1> DEFINE m == piece[1]
<1>1. m \in Messages
  BY PieceFacts
<1>2. CASE piece[2] = "start" /\ m \notin Large
  <2> DEFINE only == <<m>>
  <2>1. only \in Seq(Messages) /\ Len(only) = 1 /\ only[1] = m
    BY <1>1
  <2>2. BufferFrom(piece) = PiecesOf(only)
    BY <1>2 DEF BufferFrom
  <2> HIDE DEF only
  <2>3. /\ PiecesOf(only) \in Seq(Pieces)
        /\ Len(PiecesOf(only)) = 2 * Len(only)
        /\ \A i \in 1..2 * Len(only) : PiecesOf(only)[i][1] = only[(i + 1) \div 2]
    BY <2>1, PiecesOfFacts
  <2>4. 2 * Len(only) = 2
    BY <2>1
  <2>5. \A i \in 1..2 : (i + 1) \div 2 = 1
    OBVIOUS
  <2> QED BY <1>2, <2>1, <2>2, <2>3, <2>4, <2>5
<1>3. CASE ~(piece[2] = "start" /\ m \notin Large)
  BY <1>3 DEF BufferFrom
<1> QED BY <1>2, <1>3

\* Queue processing keeps the types and what the fields say of each other.
LEMMA QueueKeepsOutput ==
    ASSUME OutputOK, NEW messages \in Seq(Messages), NEW watch \in BOOLEAN,
           messages = << >> => outgoing = << >>,
           ProcessQueue(messages, watch)
    PROVE  OutputOK'
<1> DEFINE plan == Plan(messages)
<1>1. wire' \in Seq(Pieces \cup {Attempt, Crlf}) /\ outgoing' \in Seq(Messages)
  BY QueueWrites, WrittenTypes
<1>2. NoMessage \notin Large /\ NoMessage \notin Messages
  BY ChannelAssumption
<1>3. ASSUME current' = NoMessage, outState' = "IDLE", bodyTaken' = FALSE,
             blocked' = << >>, watchWrite' \in BOOLEAN, blocks' = blocks
      PROVE  OutputOK'
  <2>1. blocked' \in Seq(Pieces) /\ Len(blocked') = 0
    BY <1>3, EmptySeq
  <2>2. bodyTaken' \in BOOLEAN
    BY <1>3
  <2>3. blocks' \in [Messages -> 0..MaxBlocks] /\ outState' \in OutStates
    BY <1>3 DEF OutputOK, OutStates
  <2>4. current' \notin Large /\ outState' = "IDLE"
    BY <1>2, <1>3
  <2>5. \A i \in 1..Len(blocked') : blocked'[i][1] = current'
    BY <2>1
  <2> QED BY <1>1, <1>3, <2>1, <2>2, <2>3, <2>4, <2>5 DEF OutputOK
<1>4. CASE NothingToWrite(messages, watch)
  <2>1. /\ outState = "IDLE" /\ watchWrite' = watch
        /\ UNCHANGED <<current, outState, bodyTaken, blocked, blocks>>
    BY <1>4 DEF NothingToWrite
  <2> QED BY <1>1, <1>2, <2>1 DEF OutputOK
<1>5. CASE WriteAll(messages)
  BY <1>3, <1>5 DEF WriteAll
<1>6. CASE WriteUntilError(messages)
  BY <1>3, <1>6 DEF WriteUntilError
<1>7. CASE WriteUntilBlocked(messages, watch)
  <2>1. /\ plan = blocked \o Resumed \o PiecesOf(messages)
        /\ plan \in Seq(Pieces) /\ Len(plan) \in Nat
        /\ Len(Rest) \in Nat /\ Len(blocked) \in Nat /\ Len(blocked) <= Len(Rest)
        /\ Len(Rest) <= Len(plan)
    <3>1. /\ plan = blocked \o Resumed \o PiecesOf(messages)
          /\ plan \in Seq(Pieces) /\ Len(plan) = Len(Rest) + 2 * Len(messages)
      BY PlanFacts
    <3>2. /\ Resumed \in Seq(Pieces) /\ Rest \in Seq(Pieces)
          /\ Len(Rest) = Len(blocked) + Len(Resumed)
      BY RestFacts
    <3>3. blocked \in Seq(Pieces)
      BY DEF OutputOK
    <3>4. /\ Len(plan) \in Nat /\ Len(Rest) \in Nat /\ Len(blocked) \in Nat
          /\ Len(Resumed) \in Nat /\ Len(messages) \in Nat
      BY <3>1, <3>2, <3>3, LenProperties
    <3> QED BY <3>1, <3>2, <3>4
  <2> HIDE DEF plan
  <2>2. PICK written \in 0..Len(plan) - 1 :
           LET piece == plan[written + 1]
               m     == piece[1]
               again == written < Len(blocked)
           IN
           /\ blocks[m] < MaxBlocks
           /\ blocks' = [blocks EXCEPT ![m] = @ + 1]
           /\ current' = m
           /\ outState' = IF again THEN outState
                          ELSE IF m \in Large THEN "SENDING_BODY"
                          ELSE "SENDING_HEADERS"
           /\ bodyTaken' = IF again THEN bodyTaken
                                    ELSE m \in Large /\ piece = End(m)
           /\ blocked' = IF again
                             THEN SubSeq(blocked, written + 1, Len(blocked))
                             ELSE BufferFrom(piece)
           /\ watchWrite' = IF again THEN watch ELSE TRUE
    BY <1>7, <2>1 DEF WriteUntilBlocked
  <2> DEFINE piece == plan[written + 1]
  <2>3. piece \in Pieces /\ piece[1] \in Messages
    BY <2>1, ElementOfSeq, PieceFacts, SMTT(30)
  <2>4. /\ current' \in Messages /\ watchWrite' \in BOOLEAN
        /\ blocks' \in [Messages -> 0..MaxBlocks] /\ blocks'[current'] > 0
    <3>1. current' \in Messages
      BY <2>2, <2>3
    <3>2. blocks' \in [Messages -> 0..MaxBlocks] /\ blocks'[current'] > 0
      <4>1. blocks \in [Messages -> 0..MaxBlocks] /\ MaxBlocks \in Nat
        BY ChannelAssumption DEF OutputOK
      <4>2. PICK m \in Messages : /\ current' = m /\ blocks[m] < MaxBlocks
                                  /\ blocks' = [blocks EXCEPT ![m] = @ + 1]
        BY <2>2, <2>3
      <4>3. blocks[m] + 1 \in 0..MaxBlocks /\ blocks[m] + 1 > 0
        BY <4>1, <4>2
      <4> QED BY <4>1, <4>2, <4>3
    <3>3. watchWrite' = IF written < Len(blocked) THEN watch ELSE TRUE
      BY <2>2
    <3> QED BY <3>1, <3>2, <3>3
  <2>5. CASE written < Len(blocked)
    <3>1. /\ piece = blocked[written + 1]
          /\ current' = current /\ outState' = outState /\ bodyTaken' = bodyTaken
          /\ blocked' = SubSeq(blocked, written + 1, Len(blocked))
      <4>1. written + 1 \in 1..Len(blocked) /\ written + 1 <= Len(Rest)
            /\ written + 1 \in 1..Len(plan)
        BY <2>1, <2>5
      <4>2. piece = blocked[written + 1]
        BY <2>1, <4>1, PlanFacts, RestFacts DEF plan
      <4>3. piece[1] = current
        BY <4>1, <4>2 DEF OutputOK
      <4> QED BY <2>2, <2>5, <4>2, <4>3
    <3>2. outState # "IDLE"
      BY <2>1, <2>5, EmptySeq DEF OutputOK
    <3>3. /\ blocked' \in Seq(Pieces)
          /\ \A i \in 1..Len(blocked') : blocked'[i][1] = current
      <4>1. /\ blocked \in Seq(Pieces)
            /\ \A i \in 1..Len(blocked) : blocked[i][1] = current
        BY DEF OutputOK
      <4>2. \A i \in written + 1..Len(blocked) : blocked[i] \in Pieces
        BY <4>1, ElementOfSeq
      <4> DEFINE rest == SubSeq(blocked, written + 1, Len(blocked))
      <4>3. /\ rest \in Seq(Pieces) /\ Len(rest) = Len(blocked) - written
            /\ \A i \in 1..Len(blocked) - written : rest[i] = blocked[written + i]
        <5>1. written + 1 \in Int /\ Len(blocked) \in Int
          BY <2>1
        <5>2. /\ rest \in Seq(Pieces)
              /\ Len(rest) = IF written + 1 <= Len(blocked)
                                THEN Len(blocked) - (written + 1) + 1 ELSE 0
              /\ \A i \in 1..Len(blocked) - (written + 1) + 1 :
                    rest[i] = blocked[(written + 1) + i - 1]
          BY <4>2, <5>1, SubSeqProperties
        <5> QED BY <2>1, <2>5, <5>2
      <4> HIDE DEF rest
      <4>4. \A i \in 1..Len(rest) : rest[i][1] = current
        BY <2>1, <2>5, <4>1, <4>3, SMTT(30)
      <4> QED BY <3>1, <4>3, <4>4 DEF rest
    <3>4. ASSUME current \in Large
          PROVE  blocked' = blocked
      <4>1. Len(blocked) = 1
        BY <3>4 DEF OutputOK
      <4>2. written = 0
        BY <2>5, <4>1
      <4> QED BY <3>1, <4>1, <4>2, SubSeqFull DEF OutputOK
    <3> QED BY <1>1, <2>4, <3>1, <3>2, <3>3, <3>4 DEF OutputOK
  <2>6. CASE ~(written < Len(blocked))
    <3>1. /\ current' = piece[1] /\ blocked' = BufferFrom(piece)
          /\ outState' = IF piece[1] \in Large THEN "SENDING_BODY"
                                               ELSE "SENDING_HEADERS"
          /\ bodyTaken' = (piece[1] \in Large /\ piece = End(piece[1]))
      BY <2>2, <2>6
    <3>2. /\ blocked' \in Seq(Pieces)
          /\ \A i \in 1..Len(blocked') : blocked'[i][1] = current'
          /\ current' \in Large => blocked' = <<piece>>
      BY <2>3, <3>1, BufferFacts
    <3>3. /\ outState' \in OutStates /\ outState' # "IDLE" /\ bodyTaken' \in BOOLEAN
          /\ current' \in Large => outState' = "SENDING_BODY"
      BY <3>1 DEF OutStates
    <3>4. current' \in Large => \/ piece = Start(current') /\ bodyTaken' = FALSE
                                \/ piece = End(current') /\ bodyTaken' = TRUE
      BY <2>3, <3>1, PieceFacts
    <3>5. current' \in Large =>
             \/ blocked' = <<Start(current')>> /\ bodyTaken' = FALSE
             \/ blocked' = <<End(current')>> /\ bodyTaken' = TRUE
      BY <3>2, <3>4
    <3>6. (IF outState' = "IDLE" THEN current' = NoMessage /\ blocked' = << >>
                                 ELSE current' \in Messages /\ blocks'[current'] > 0)
      BY <2>4, <3>3
    <3> QED BY <1>1, <2>4, <3>2, <3>3, <3>5, <3>6 DEF OutputOK
  <2> QED BY <2>5, <2>6
<1> QED BY <1>4, <1>5, <1>6, <1>7 DEF ProcessQueue

-----------------------------------------------------------------------------
\* What a step does to the output: nothing but an attempt or a keep alive on the
\* wire, a message more in the queue, or queue processing with or without it.
Quiet ==
    /\ UNCHANGED <<outgoing, current, outState, bodyTaken, blocked, blocks, queued>>
    /\ watchWrite' \in BOOLEAN
    /\ wire' \in {wire, Append(wire, Attempt), Append(wire, Crlf)}

NewMessage(m) ==
    /\ \A i \in 1..Len(queued) : queued[i] # m
    /\ queued' = Append(queued, m)

Waits(m) ==
    /\ NewMessage(m)
    /\ outgoing' = Append(outgoing, m)
    /\ UNCHANGED <<current, outState, bodyTaken, blocked, watchWrite, wire, blocks>>

Sends(m) == NewMessage(m) /\ ProcessQueue(Append(outgoing, m), watchWrite)

Resumes(watch) == UNCHANGED queued /\ ProcessQueue(outgoing, watch)

OutputStep ==
    \/ Quiet
    \/ \E m \in Messages : Waits(m) \/ Sends(m)
    \/ \E watch \in BOOLEAN : Resumes(watch)

LEMMA OutputUnchangedIsQuiet ==
    ASSUME OutputOK, UNCHANGED output, UNCHANGED queued
    PROVE  Quiet
BY DEF OutputOK, output, Quiet

LEMMA TryConnectIsQuiet ==
    ASSUME OutputOK, NEW n, TryConnect(n),
           UNCHANGED <<outgoing, current, outState, bodyTaken, blocked, blocks, queued>>
    PROVE  Quiet
<1>1. watchWrite \in BOOLEAN
  BY DEF OutputOK
<1>2. watchWrite' \in BOOLEAN
  BY <1>1 DEF TryConnect
<1>3. wire' \in {wire, Append(wire, Attempt), Append(wire, Crlf)}
  BY DEF TryConnect
<1> QED BY <1>2, <1>3 DEF Quiet

LEMMA StepKinds ==
    ASSUME OutputOK, Next
    PROVE  OutputStep
<1>1. ASSUME NEW m \in Messages, QueueMessage(m)
      PROVE  OutputStep
  <2>1. NewMessage(m)
    BY <1>1 DEF QueueMessage, NewMessage
  <2>2. CASE state = "READY"
    <3>1. Sends(m)
      BY <1>1, <2>1, <2>2 DEF QueueMessage, Sends
    <3> QED BY <3>1 DEF OutputStep
  <2>3. CASE state # "READY"
    <3>1. Waits(m)
      BY <1>1, <2>1, <2>3 DEF QueueMessage, Waits
    <3> QED BY <3>1 DEF OutputStep
  <2> QED BY <2>2, <2>3
<1>2. CASE Prepare \/ CheckDnsReusability \/ NotifyServerError \/ NotifyTimeout
  <2>1. UNCHANGED output /\ UNCHANGED queued
    BY <1>2 DEF Prepare, CheckDnsReusability, NotifyServerError, NotifyTimeout
  <2> QED BY <2>1, OutputUnchangedIsQuiet DEF OutputStep
<1>3. CASE KeepAlive
  <2>1. CASE HandleError(FALSE, "closed") /\ UNCHANGED <<output, queued>>
    BY <2>1, OutputUnchangedIsQuiet DEF OutputStep
  <2>2. CASE /\ wire' = Append(wire, Crlf)
             /\ UNCHANGED <<outgoing, current, outState, bodyTaken, blocked,
                            watchWrite, blocks, queued>>
    <3>1. Quiet
      BY <2>2 DEF Quiet, OutputOK
    <3> QED BY <3>1 DEF OutputStep
  <2> QED BY <1>3, <2>1, <2>2 DEF KeepAlive
<1>4. CASE Disconnect \/ ResolutionFails \/ ConnectionFails \/ ReadFails
           \/ UnexpectedEvent \/ NotifyErrorToListeners
  <2>1. UNCHANGED output /\ UNCHANGED queued
    BY <1>4 DEF Disconnect, ResolutionFails, ConnectionFails, ReadFails,
                UnexpectedEvent, NotifyErrorToListeners
  <2> QED BY <2>1, OutputUnchangedIsQuiet DEF OutputStep
<1>5. CASE ResolutionSucceeds
  <2>1. CASE /\ \E n \in 1..Addresses : TryConnect(n)
             /\ UNCHANGED <<outgoing, current, outState, bodyTaken, blocked, blocks>>
    BY <1>5, <2>1, TryConnectIsQuiet DEF ResolutionSucceeds, OutputStep
  <2>2. CASE ProcessQueue(outgoing, watchWrite)
    <3>1. watchWrite \in BOOLEAN /\ Resumes(watchWrite)
      BY <1>5, <2>2 DEF ResolutionSucceeds, Resumes, OutputOK
    <3> QED BY <3>1 DEF OutputStep
  <2>3. CASE UNCHANGED output
    BY <1>5, <2>3, OutputUnchangedIsQuiet DEF ResolutionSucceeds, OutputStep
  <2> QED BY <1>5, <2>1, <2>2, <2>3 DEF ResolutionSucceeds
<1>6. CASE ConnectNext
  <2>1. UNCHANGED <<outgoing, current, outState, bodyTaken, blocked, blocks, queued>>
    BY <1>6 DEF ConnectNext
  <2>2. CASE TryConnect(peers)
    BY <2>1, <2>2, TryConnectIsQuiet DEF OutputStep
  <2>3. CASE UNCHANGED <<watchWrite, wire>>
    <3>1. Quiet
      BY <2>1, <2>3 DEF Quiet, OutputOK
    <3> QED BY <3>1 DEF OutputStep
  <2> QED BY <1>6, <2>2, <2>3 DEF ConnectNext
<1>7. CASE Connected
  <2>1. Resumes(FALSE)
    BY <1>7 DEF Connected, Resumes
  <2> QED BY <2>1 DEF OutputStep
<1>8. CASE Writable
  <2>1. Resumes(TRUE)
    BY <1>8 DEF Writable, Resumes
  <2> QED BY <2>1 DEF OutputStep
<1> QED BY <1>1, <1>2, <1>3, <1>4, <1>5, <1>6, <1>7, <1>8 DEF Next, Use, Loop

LEMMA AppendToQueue ==
    ASSUME NEW S, NEW s \in Seq(S), NEW m \in S
    PROVE  /\ Append(s, m) \in Seq(S) /\ Append(s, m) # << >>
           /\ Len(Append(s, m)) = Len(s) + 1 /\ Len(s) \in Nat
           /\ \A i \in 1..Len(s) : Append(s, m)[i] = s[i]
           /\ Append(s, m)[Len(s) + 1] = m
BY AppendProperties, LenProperties

\* Every step keeps the types of the output.
LEMMA OutputKept ==
    ASSUME OutputOK, queued \in Seq(Messages), OutputStep
    PROVE  OutputOK' /\ queued' \in Seq(Messages)
<1>1. CASE Quiet
  <2>1. wire' \in Seq(Pieces \cup {Attempt, Crlf})
    <3> DEFINE T == Pieces \cup {Attempt, Crlf}
    <3>1. Attempt \in T /\ Crlf \in T /\ wire \in Seq(T)
      BY DEF OutputOK
    <3>2. wire' \in {wire, Append(wire, Attempt), Append(wire, Crlf)}
      BY <1>1 DEF Quiet
    <3> HIDE DEF T
    <3>3. Append(wire, Attempt) \in Seq(T) /\ Append(wire, Crlf) \in Seq(T)
      BY <3>1, AppendProperties
    <3>4. wire' \in Seq(T)
      BY <3>1, <3>2, <3>3
    <3> QED BY <3>4 DEF T
  <2> QED BY <1>1, <2>1 DEF Quiet, OutputOK
<1>2. ASSUME NEW m \in Messages, Waits(m)
      PROVE  OutputOK' /\ queued' \in Seq(Messages)
  <2>1. outgoing' \in Seq(Messages) /\ queued' \in Seq(Messages)
    BY <1>2, AppendProperties DEF Waits, NewMessage, OutputOK
  <2> QED BY <1>2, <2>1 DEF Waits, OutputOK
<1>3. ASSUME NEW m \in Messages, Sends(m)
      PROVE  OutputOK' /\ queued' \in Seq(Messages)
  <2> DEFINE messages == Append(outgoing, m)
  <2>1. /\ messages \in Seq(Messages) /\ messages # << >>
        /\ queued' \in Seq(Messages) /\ watchWrite \in BOOLEAN
    <3>1. outgoing \in Seq(Messages) /\ watchWrite \in BOOLEAN
      BY DEF OutputOK
    <3>2. queued' = Append(queued, m)
      BY <1>3 DEF Sends, NewMessage
    <3>3. messages \in Seq(Messages) /\ messages # << >>
      BY <3>1, AppendToQueue
    <3>4. Append(queued, m) \in Seq(Messages)
      BY AppendToQueue
    <3> QED BY <3>1, <3>2, <3>3, <3>4
  <2>2. ProcessQueue(messages, watchWrite)
    BY <1>3 DEF Sends
  <2> HIDE DEF messages
  <2> QED BY <2>1, <2>2, QueueKeepsOutput
<1>4. ASSUME NEW watch \in BOOLEAN, Resumes(watch)
      PROVE  OutputOK' /\ queued' \in Seq(Messages)
  <2>1. outgoing \in Seq(Messages)
    BY DEF OutputOK
  <2> QED BY <1>4, <2>1, QueueKeepsOutput DEF Resumes
<1> QED BY <1>1, <1>2, <1>3, <1>4 DEF OutputStep

\* Every step keeps the types of the connection, and an address to retry.
LEMMA HandleErrorTypes ==
    ASSUME ConnectionOK, NEW soft \in BOOLEAN, NEW left \in Sockets, HandleError(soft, left)
    PROVE  /\ state' \in States /\ peers' \in 0..Addresses /\ socket' \in Sockets
           /\ state' = "RETRY" => peers' > 0
           /\ connectDue' \in BOOLEAN /\ errorDue' \in BOOLEAN
<1> USE ChannelAssumption DEF ConnectionOK, States, Sockets
<1>1. CASE peers > 1 /\ state' = "RETRY" /\ peers' = peers - 1 /\ socket' = "closed"
           /\ connectDue' = TRUE /\ UNCHANGED errorDue
  BY <1>1
<1>2. CASE state' = "ERROR" /\ errorDue' = TRUE /\ socket' = left
           /\ UNCHANGED <<peers, connectDue>>
  BY <1>2
<1> QED BY <1>1, <1>2 DEF HandleError

LEMMA TryConnectTypes ==
    ASSUME ConnectionOK, NEW n \in 1..Addresses, TryConnect(n)
    PROVE  /\ state' \in States /\ peers' \in 0..Addresses /\ socket' \in Sockets
           /\ state' = "RETRY" => peers' > 0
           /\ connectDue' \in BOOLEAN /\ errorDue' \in BOOLEAN
<1>1. state' \in States /\ socket' \in Sockets
  BY DEF TryConnect, States, Sockets
<1>2. peers' \in 0..Addresses /\ (state' = "RETRY" => peers' > 0)
  BY ChannelAssumption DEF TryConnect
<1>3. connectDue' \in BOOLEAN /\ errorDue' \in BOOLEAN
  BY DEF TryConnect, ConnectionOK
<1> QED BY <1>1, <1>2, <1>3

LEMMA ProcessQueueTypes ==
    ASSUME ConnectionOK, NEW messages, NEW watch, ProcessQueue(messages, watch)
    PROVE  state' \in {"READY", "ERROR"} /\ errorDue' \in BOOLEAN
<1>1. CASE state' = "READY" /\ UNCHANGED errorDue
  BY <1>1 DEF ConnectionOK
<1>2. CASE state' = "ERROR" /\ errorDue' = TRUE
  BY <1>2
<1> QED BY <1>1, <1>2 DEF ProcessQueue

LEMMA ConnectionKept ==
    ASSUME ConnectionOK, Next
    PROVE  ConnectionOK'
<1> USE DEF ConnectionOK
<1>1. ASSUME NEW messages, NEW watch, ProcessQueue(messages, watch),
             UNCHANGED <<peers, connectDue, notified, resolutions>>,
             socket' \in Sockets, resolving' \in BOOLEAN, dnsTimer' \in BOOLEAN
      PROVE  ConnectionOK'
  <2>1. state' \in {"READY", "ERROR"} /\ errorDue' \in BOOLEAN
    BY <1>1, ProcessQueueTypes
  <2> QED BY <1>1, <2>1 DEF States
<1>2. ASSUME NEW soft \in BOOLEAN, NEW left \in Sockets, HandleError(soft, left),
             UNCHANGED <<dnsTimer, notified, resolutions>>, resolving' \in BOOLEAN
      PROVE  ConnectionOK'
  <2>1. /\ state' \in States /\ peers' \in 0..Addresses /\ socket' \in Sockets
        /\ state' = "RETRY" => peers' > 0
        /\ connectDue' \in BOOLEAN /\ errorDue' \in BOOLEAN
    BY <1>2, HandleErrorTypes
  <2> QED BY <1>2, <2>1
<1>3. ASSUME NEW n \in 1..Addresses, TryConnect(n),
             UNCHANGED <<notified, resolutions>>,
             resolving' \in BOOLEAN, dnsTimer' \in BOOLEAN
      PROVE  ConnectionOK'
  <2>1. /\ state' \in States /\ peers' \in 0..Addresses /\ socket' \in Sockets
        /\ state' = "RETRY" => peers' > 0
        /\ connectDue' \in BOOLEAN /\ errorDue' \in BOOLEAN
    BY <1>3, TryConnectTypes
  <2> QED BY <1>3, <2>1
<1>4. ASSUME Resolve, dnsTimer' \in BOOLEAN,
             UNCHANGED <<peers, socket, connectDue, errorDue, notified>>
      PROVE  ConnectionOK'
  <2>1. resolutions' \in 0..MaxResolutions /\ state' = "RES_IN_PROGRESS"
        /\ resolving' = TRUE
    BY <1>4, ChannelAssumption DEF Resolve
  <2> QED BY <1>4, <2>1 DEF States
<1>5. UNCHANGED connection => ConnectionOK'
  BY DEF connection
<1>6. {"closed", "connecting", "connected", "dropped"} = Sockets
  BY DEF Sockets
<1>7. ASSUME NEW m \in Messages, QueueMessage(m)
      PROVE  ConnectionOK'
  <2>1. CASE state = "READY"
    BY <1>1, <1>7, <2>1 DEF QueueMessage
  <2>2. CASE state = "INIT"
    BY <1>4, <1>7, <2>2 DEF QueueMessage
  <2>3. CASE state \notin {"READY", "INIT"}
    BY <1>5, <1>7, <2>3 DEF QueueMessage
  <2> QED BY <2>1, <2>2, <2>3
<1>8. CASE Prepare
  BY <1>4, <1>8 DEF Prepare
<1>9. CASE CheckDnsReusability
  BY <1>4, <1>9 DEF CheckDnsReusability
<1>10. CASE NotifyServerError
  BY <1>2, <1>10 DEF NotifyServerError
<1>11. CASE NotifyTimeout
  BY <1>2, <1>11 DEF NotifyTimeout
<1>12. CASE KeepAlive
  BY <1>2, <1>5, <1>6, <1>12 DEF KeepAlive
<1>13. CASE Disconnect
  BY <1>6, <1>13 DEF Disconnect, States
<1>14. CASE ResolutionSucceeds
  <2>1. resolving' \in BOOLEAN /\ dnsTimer' \in BOOLEAN /\ UNCHANGED <<notified, resolutions>>
    BY <1>14 DEF ResolutionSucceeds
  <2>2. CASE \E n \in 1..Addresses : TryConnect(n)
    BY <1>3, <2>1, <2>2
  <2>3. CASE UNCHANGED <<peers, socket, connectDue>> /\ ProcessQueue(outgoing, watchWrite)
    BY <1>1, <2>1, <2>3
  <2>4. CASE /\ peers' \in 1..Addresses /\ socket' = "closed" /\ connectDue' = TRUE
             /\ state' = "RETRY" /\ UNCHANGED errorDue
    BY <1>6, <2>1, <2>4, ChannelAssumption DEF States
  <2> QED BY <1>14, <2>2, <2>3, <2>4 DEF ResolutionSucceeds
<1>15. CASE ResolutionFails
  BY <1>2, <1>15 DEF ResolutionFails
<1>16. CASE ConnectNext
  <2>1. CASE state = "RETRY"
    <3>1. peers \in 1..Addresses
      BY <2>1, ChannelAssumption
    <3> QED BY <1>3, <1>16, <2>1, <3>1 DEF ConnectNext
  <2>2. CASE state # "RETRY"
    BY <1>16, <2>2 DEF ConnectNext
  <2> QED BY <2>1, <2>2
<1>17. CASE Connected
  BY <1>1, <1>6, <1>17 DEF Connected
<1>18. CASE ConnectionFails
  BY <1>2, <1>6, <1>18 DEF ConnectionFails
<1>19. CASE Writable
  BY <1>1, <1>6, <1>19 DEF Writable
<1>20. CASE ReadFails
  BY <1>2, <1>6, <1>20 DEF ReadFails
<1>21. CASE UnexpectedEvent
  BY <1>2, <1>6, <1>21 DEF UnexpectedEvent
<1>22. CASE NotifyErrorToListeners
  <2>1. notified' \in BOOLEAN /\ socket' \in Sockets
    BY <1>6, <1>22 DEF NotifyErrorToListeners
  <2> QED BY <1>22, <2>1 DEF NotifyErrorToListeners
<1> QED BY <1>7, <1>8, <1>9, <1>10, <1>11, <1>12, <1>13, <1>14, <1>15, <1>16,
           <1>17, <1>18, <1>19, <1>20, <1>21, <1>22 DEF Next, Use, Loop

LEMMA TypeInvInit == Init => TypeInv
<1> SUFFICES ASSUME Init
             PROVE  TypeInv
  OBVIOUS
<1>1. ConnectionOK
  <2>1. state \in States /\ socket \in Sockets /\ state # "RETRY"
    BY DEF Init, States, Sockets
  <2>2. peers \in 0..Addresses /\ resolutions \in 0..MaxResolutions
    BY ChannelAssumption DEF Init
  <2>3. /\ resolving \in BOOLEAN /\ dnsTimer \in BOOLEAN /\ connectDue \in BOOLEAN
        /\ errorDue \in BOOLEAN /\ notified \in BOOLEAN
    BY DEF Init
  <2> QED BY <2>1, <2>2, <2>3 DEF ConnectionOK
<1>2. outgoing = << >> /\ wire = << >> /\ queued = << >> /\ blocked = << >>
  BY DEF Init
<1>3. /\ outgoing \in Seq(Messages) /\ queued \in Seq(Messages)
      /\ wire \in Seq(Pieces \cup {Attempt, Crlf}) /\ blocked \in Seq(Pieces)
      /\ Len(blocked) = 0
  BY <1>2, EmptySeq
<1>4. current \notin Large
  BY ChannelAssumption DEF Init
<1>5. OutputOK
  <2>1. outState = "IDLE" /\ current = NoMessage /\ outState \in OutStates
    BY DEF Init, OutStates
  <2>2. watchWrite \in BOOLEAN /\ bodyTaken \in BOOLEAN
    BY DEF Init
  <2>3. blocks \in [Messages -> 0..MaxBlocks]
    BY ChannelAssumption DEF Init
  <2> QED BY <1>2, <1>3, <1>4, <2>1, <2>2, <2>3 DEF OutputOK
<1> QED BY <1>1, <1>3, <1>5 DEF TypeInv

LEMMA TypeInvKept ==
    ASSUME TypeInv, [Next]_vars
    PROVE  TypeInv'
<1>1. CASE Next
  BY <1>1, StepKinds, OutputKept, ConnectionKept DEF TypeInv
<1>2. CASE UNCHANGED vars
  BY <1>2 DEF vars, connection, output, TypeInv, ConnectionOK, OutputOK
<1> QED BY <1>1, <1>2

\* The fields of a channel keep their types, whatever is written, cut or
\* retried, and a blocked buffer is always one of the current message.
THEOREM TypeCorrect == Spec => []TypeOK
<1>1. [](TypeInv => TypeOK)
  BY TypeInvImpliesTypeOK, PTL
<1>2. TypeInv /\ [Next]_vars => TypeInv'
  BY TypeInvKept
<1> QED BY <1>1, <1>2, TypeInvInit, PTL DEF Spec

-----------------------------------------------------------------------------
(***************************************************************************)
(* The order.  A message keeps its place in the history of what was        *)
(* queued: what is on the wire comes no later than the current message,    *)
(* which comes before what is left in the queue.                           *)
(***************************************************************************)
IsQueued(q, m) == \E k \in 1..Len(q) : q[k] = m

NotAfter(q, m, n) == \A k, l \in 1..Len(q) : q[k] = m /\ q[l] = n => k <= l
Earlier(q, m, n)  == \A k, l \in 1..Len(q) : q[k] = m /\ q[l] = n => k < l

\* Of the messages of wire w, current message c and queue o.
Placed(q, w, c, o) ==
    /\ \A k, l \in 1..Len(q) : q[k] = q[l] => k = l
    /\ \A i \in 1..Len(w) : w[i][1] = NoMessage \/ IsQueued(q, w[i][1])
    /\ c = NoMessage \/ IsQueued(q, c)
    /\ \A a \in 1..Len(o) : IsQueued(q, o[a])

InPlace(q, w, c, o) ==
    /\ \A i, j \in 1..Len(w) : i < j => NotAfter(q, w[i][1], w[j][1])
    /\ \A i \in 1..Len(w) : NotAfter(q, w[i][1], c)
    /\ \A i \in 1..Len(w), a \in 1..Len(o) : NotAfter(q, w[i][1], o[a])
    /\ \A a \in 1..Len(o) : Earlier(q, c, o[a])
    /\ \A a, b \in 1..Len(o) : a < b => Earlier(q, o[a], o[b])

OrderInv == Placed(queued, wire, current, outgoing)
            /\ InPlace(queued, wire, current, outgoing)

\* A message that is queued comes after those that are.
LEMMA QueuedLast ==
    ASSUME NEW q \in Seq(Messages), NEW m \in Messages, ~IsQueued(q, m)
    PROVE  /\ \A n : IsQueued(q, n) => /\ IsQueued(Append(q, m), n)
                                       /\ Earlier(Append(q, m), n, m)
           /\ IsQueued(Append(q, m), m)
           /\ \A n : NotAfter(Append(q, m), n, m)
           /\ \A n, p : n # m /\ IsQueued(q, p) =>
                /\ NotAfter(q, n, p) => NotAfter(Append(q, m), n, p)
                /\ Earlier(q, n, p) => Earlier(Append(q, m), n, p)
           /\ (\A k, l \in 1..Len(q) : q[k] = q[l] => k = l)
                 => \A k, l \in 1..Len(Append(q, m)) :
                       Append(q, m)[k] = Append(q, m)[l] => k = l
<1> DEFINE r == Append(q, m)
<1>1. /\ Len(r) = Len(q) + 1 /\ Len(q) \in Nat
      /\ \A k \in 1..Len(q) : r[k] = q[k] /\ q[k] # m
      /\ r[Len(q) + 1] = m
  BY AppendToQueue DEF IsQueued
<1> HIDE DEF r
<1>2. \A n : IsQueued(q, n) => IsQueued(r, n) /\ n # m
  BY <1>1 DEF IsQueued
<1>3. \A n : IsQueued(q, n) => Earlier(r, n, m)
  <2> SUFFICES ASSUME NEW n, n # m, NEW k \in 1..Len(r), NEW l \in 1..Len(r),
                      r[k] = n, r[l] = m
               PROVE  k < l
    BY <1>2 DEF Earlier
  <2> QED BY <1>1
<1>4. IsQueued(r, m)
  BY <1>1 DEF IsQueued
<1>5. \A n : NotAfter(r, n, m)
  BY <1>1 DEF NotAfter
<1>6. ASSUME NEW n, NEW p, IsQueued(q, p), NotAfter(q, n, p), n # m
      PROVE  NotAfter(r, n, p)
  <2> SUFFICES ASSUME NEW k \in 1..Len(r), NEW l \in 1..Len(r), r[k] = n, r[l] = p
               PROVE  k <= l
    BY DEF NotAfter
  <2>1. p # m
    BY <1>2, <1>6
  <2>2. l \in 1..Len(q) /\ q[l] = p /\ k \in 1..Len(q) /\ q[k] = n
    BY <1>1, <1>6, <2>1
  <2> QED BY <1>6, <2>2 DEF NotAfter
<1>7. ASSUME NEW n, NEW p, IsQueued(q, p), Earlier(q, n, p), n # m
      PROVE  Earlier(r, n, p)
  <2> SUFFICES ASSUME NEW k \in 1..Len(r), NEW l \in 1..Len(r), r[k] = n, r[l] = p
               PROVE  k < l
    BY DEF Earlier
  <2>1. p # m
    BY <1>2, <1>7
  <2>2. l \in 1..Len(q) /\ q[l] = p /\ k \in 1..Len(q) /\ q[k] = n
    BY <1>1, <1>7, <2>1
  <2> QED BY <1>7, <2>2 DEF Earlier
<1>8. ASSUME \A k, l \in 1..Len(q) : q[k] = q[l] => k = l
      PROVE  \A k, l \in 1..Len(r) : r[k] = r[l] => k = l
  BY <1>1, <1>8
<1> QED BY <1>2, <1>3, <1>4, <1>5, <1>6, <1>7, <1>8 DEF r

\* A message that joins the queue leaves the order as it is.
LEMMA OrderGrows ==
    ASSUME NEW q \in Seq(Messages), NEW m \in Messages, ~IsQueued(q, m),
           NEW w \in Seq(Pieces \cup {Attempt, Crlf}), NEW c, NEW o \in Seq(Messages),
           Placed(q, w, c, o), InPlace(q, w, c, o)
    PROVE  /\ Placed(Append(q, m), w, c, Append(o, m))
           /\ InPlace(Append(q, m), w, c, Append(o, m))
<1> DEFINE r == Append(q, m)
           p == Append(o, m)
<1>1. /\ \A n : IsQueued(q, n) => IsQueued(r, n) /\ Earlier(r, n, m)
      /\ IsQueued(r, m)
      /\ \A n : NotAfter(r, n, m)
      /\ \A n, n2 : n # m /\ IsQueued(q, n2) =>
            /\ NotAfter(q, n, n2) => NotAfter(r, n, n2)
            /\ Earlier(q, n, n2) => Earlier(r, n, n2)
      /\ \A k, l \in 1..Len(r) : r[k] = r[l] => k = l
  BY QueuedLast DEF Placed
<1>2. /\ Len(p) = Len(o) + 1 /\ Len(o) \in Nat
      /\ \A a \in 1..Len(o) : p[a] = o[a]
      /\ p[Len(o) + 1] = m
  BY AppendToQueue
<1>3. NoMessage # m
  BY ChannelAssumption
<1>4. \A n : NotAfter(r, NoMessage, n) /\ NotAfter(r, n, NoMessage) /\ Earlier(r, NoMessage, n)
  <2>1. \A k \in 1..Len(r) : r[k] # NoMessage
    <3>1. r \in Seq(Messages)
      BY AppendProperties
    <3> QED BY <3>1, ElementOfSeq, ChannelAssumption
  <2> HIDE DEF r
  <2> QED BY <2>1 DEF NotAfter, Earlier
<1> HIDE DEF r, p
<1>5. Placed(r, w, c, p)
  <2>1. ASSUME NEW a \in 1..Len(p)
        PROVE  IsQueued(r, p[a])
    BY <1>1, <1>2, <2>1 DEF Placed
  <2> QED BY <1>1, <2>1 DEF Placed
<1>6. \A a \in 1..Len(o) : o[a] # m /\ IsQueued(q, o[a])
  BY DEF IsQueued, Placed
<1>7. ASSUME NEW n, n = NoMessage \/ IsQueued(q, n), NEW n2, n2 = NoMessage \/ IsQueued(q, n2)
      PROVE  /\ NotAfter(q, n, n2) => NotAfter(r, n, n2)
             /\ n2 # NoMessage /\ Earlier(q, n, n2) => Earlier(r, n, n2)
  <2>1. n # m
    BY <1>3, <1>7 DEF IsQueued
  <2>2. CASE n2 = NoMessage
    BY <1>4, <2>2
  <2>3. CASE IsQueued(q, n2)
    BY <1>1, <2>1, <2>3
  <2> QED BY <1>7, <2>2, <2>3
<1>8. InPlace(r, w, c, p)
  <2>1. \A i, j \in 1..Len(w) : i < j => NotAfter(r, w[i][1], w[j][1])
    BY <1>7 DEF Placed, InPlace
  <2>2. \A i \in 1..Len(w) : NotAfter(r, w[i][1], c)
    BY <1>7 DEF Placed, InPlace
  <2>3. \A i \in 1..Len(w), a \in 1..Len(p) : NotAfter(r, w[i][1], p[a])
    BY <1>1, <1>2, <1>7 DEF Placed, InPlace
  <2>4. ASSUME NEW a \in 1..Len(p)
        PROVE  Earlier(r, c, p[a])
    <3>1. c = NoMessage \/ IsQueued(q, c)
      BY DEF Placed
    <3>2. CASE a = Len(o) + 1
      BY <1>1, <1>2, <1>4, <3>1, <3>2
    <3>3. CASE a \in 1..Len(o)
      <4>1. Earlier(q, c, o[a]) /\ IsQueued(q, o[a]) /\ o[a] # NoMessage
        BY <1>6, <3>3, ElementOfSeq, ChannelAssumption DEF InPlace
      <4> QED BY <1>2, <1>7, <3>1, <3>3, <4>1
    <3> QED BY <1>2, <3>2, <3>3
  <2>5. ASSUME NEW a \in 1..Len(p), NEW b \in 1..Len(p), a < b
        PROVE  Earlier(r, p[a], p[b])
    <3>1. a \in 1..Len(o) /\ p[a] = o[a]
      BY <1>2, <2>5
    <3>2. CASE b = Len(o) + 1
      BY <1>1, <1>2, <1>6, <3>1, <3>2
    <3>3. CASE b \in 1..Len(o)
      <4>1. Earlier(q, o[a], o[b])
        BY <2>5, <3>1, <3>3 DEF InPlace
      <4> QED BY <1>1, <1>2, <1>6, <3>1, <3>3, <4>1
    <3> QED BY <1>2, <3>2, <3>3
  <2> QED BY <2>1, <2>2, <2>3, <2>4, <2>5 DEF InPlace
<1> QED BY <1>5, <1>8 DEF r, p

\* The order of the plan: the current message, then the queue.
LEMMA PlanOrder ==
    ASSUME OutputOK, NEW q \in Seq(Messages), NEW o \in Seq(Messages),
           Placed(q, wire, current, o), InPlace(q, wire, current, o)
    PROVE  \A i \in 1..Len(Plan(o)) :
              /\ IsQueued(q, Plan(o)[i][1])
              /\ \A j \in 1..Len(wire) : NotAfter(q, wire[j][1], Plan(o)[i][1])
              /\ \A j \in i..Len(Plan(o)) : NotAfter(q, Plan(o)[i][1], Plan(o)[j][1])
              /\ \A taken \in Nat : \A a \in taken + 1..Len(o) :
                    i <= Len(Rest) + 2 * taken => Earlier(q, Plan(o)[i][1], o[a])
<1> DEFINE plan == Plan(o)
           n == Len(Rest)
           place(i) == (i - n + 1) \div 2
<1>1. /\ n \in Nat /\ Len(o) \in Nat /\ Len(plan) = n + 2 * Len(o)
  <2>1. Len(plan) = n + 2 * Len(o)
    BY PlanFacts
  <2>2. Rest \in Seq(Pieces)
    BY RestFacts
  <2> QED BY <2>1, <2>2, LenProperties
<1>2. ASSUME NEW i \in 1..Len(plan), i <= n
      PROVE  plan[i][1] = current
  <2>1. plan[i] = Rest[i]
    BY <1>2, PlanFacts
  <2>2. i \in 1..Len(Rest)
    BY <1>1, <1>2
  <2> QED BY <2>1, <2>2, RestFacts
<1>3. \A i \in 1..Len(plan) : i > n => place(i) \in 1..Len(o) /\ plan[i][1] = o[place(i)]
  <2> SUFFICES ASSUME NEW i \in 1..Len(plan), i > n
               PROVE  place(i) \in 1..Len(o) /\ plan[i][1] = o[place(i)]
    OBVIOUS
  <2>1. i - n \in 1..2 * Len(o) /\ plan[i] = PiecesOf(o)[i - n]
    BY PlanFacts
  <2> QED BY <2>1, PiecesOfFacts
<1>4. \A i \in 1..Len(plan) : i <= n => current # NoMessage
  <2>1. outState = "IDLE" => n = 0
    BY RestFacts, EmptySeq
  <2>2. NoMessage \notin Messages
    BY ChannelAssumption
  <2> QED BY <1>1, <2>1, <2>2 DEF OutputOK
<1>5. \A k, l \in 1..Len(q) : q[k] = q[l] => k = l
  BY DEF Placed
<1>6. \A m : NotAfter(q, m, m)
  <2> SUFFICES ASSUME NEW m, NEW k \in 1..Len(q), NEW l \in 1..Len(q), q[k] = m, q[l] = m
               PROVE  k <= l
    BY DEF NotAfter
  <2>1. k = l
    BY <1>5
  <2> QED BY <2>1, LenProperties
<1>7. \A m, m2 : Earlier(q, m, m2) => NotAfter(q, m, m2)
  BY LenProperties DEF Earlier, NotAfter
<1> HIDE DEF plan, n
<1>8. \A i, j \in 1..Len(plan) : i <= j /\ i > n => place(i) <= place(j)
  BY <1>1
<1>9. \A i \in 1..Len(plan) : \A taken \in Nat :
         i > n /\ i <= n + 2 * taken => place(i) <= taken
  <2> SUFFICES ASSUME NEW i \in 1..Len(plan), NEW taken \in Nat, i > n, i <= n + 2 * taken
               PROVE  place(i) <= taken
    OBVIOUS
  <2> QED BY <1>1
<1> HIDE DEF place
<1> TAKE i \in 1..Len(Plan(o))
<1>10. i \in 1..Len(plan) /\ plan = Plan(o) /\ n = Len(Rest)
  BY DEF plan, n
<1>11. IsQueued(q, plan[i][1])
  BY <1>2, <1>3, <1>4, <1>10 DEF Placed
<1>12. \A j \in 1..Len(wire) : NotAfter(q, wire[j][1], plan[i][1])
  BY <1>2, <1>3, <1>10 DEF InPlace
<1>13. ASSUME NEW j \in i..Len(plan)
       PROVE  NotAfter(q, plan[i][1], plan[j][1])
  <2>1. j \in 1..Len(plan) /\ i <= j
    BY <1>1, <1>10
  <2>2. CASE j <= n
    <3>1. i <= n
      BY <1>1, <1>10, <2>1, <2>2
    <3> QED BY <1>2, <1>6, <1>10, <2>1, <2>2, <3>1
  <2>3. CASE j > n /\ i <= n
    BY <1>2, <1>3, <1>7, <1>10, <2>1, <2>3 DEF InPlace
  <2>4. CASE j > n /\ i > n
    <3>1. place(i) <= place(j)
      BY <1>8, <1>10, <2>1, <2>4
    <3>2. place(i) \in 1..Len(o) /\ place(j) \in 1..Len(o)
          /\ plan[i][1] = o[place(i)] /\ plan[j][1] = o[place(j)]
      BY <1>3, <1>10, <2>1, <2>4
    <3>3. CASE place(i) = place(j)
      BY <1>6, <3>2, <3>3
    <3>4. CASE place(i) < place(j)
      BY <1>7, <3>2, <3>4 DEF InPlace
    <3> QED BY <1>1, <3>1, <3>2, <3>3, <3>4
  <2> QED BY <1>1, <1>10, <2>1, <2>2, <2>3, <2>4
<1>14. ASSUME NEW taken \in Nat, NEW a \in taken + 1..Len(o), i <= n + 2 * taken
       PROVE  Earlier(q, plan[i][1], o[a])
  <2>1. a \in 1..Len(o)
    BY <1>1
  <2>2. CASE i <= n
    BY <1>2, <1>10, <2>1, <2>2 DEF InPlace
  <2>3. CASE i > n
    <3>1. place(i) \in 1..Len(o) /\ plan[i][1] = o[place(i)] /\ place(i) <= taken
      BY <1>3, <1>9, <1>10, <1>14, <2>3
    <3>2. place(i) < a
      BY <1>1, <3>1
    <3> QED BY <2>1, <3>1, <3>2 DEF InPlace
  <2> QED BY <1>1, <1>10, <2>2, <2>3
<1> QED BY <1>10, <1>11, <1>12, <1>13, <1>14

\* What WritesUpTo leaves: each piece of the wire was there or is of the plan,
\* and the queue is what was behind it.
LEMMA WrittenPieces ==
    ASSUME OutputOK, NEW o \in Seq(Messages),
           NEW written \in 0..Len(Plan(o)), NEW taken \in Nat,
           WritesUpTo(o, written, taken)
    PROVE  /\ Len(wire') = Len(wire) + written
           /\ Len(wire) \in Nat
           /\ \A i \in 1..Len(wire') :
                 \/ i \in 1..Len(wire) /\ wire'[i] = wire[i]
                 \/ /\ i > Len(wire) /\ i - Len(wire) \in 1..written
                    /\ i - Len(wire) \in 1..Len(Plan(o))
                    /\ wire'[i] = Plan(o)[i - Len(wire)]
           /\ \A a \in 1..Len(outgoing') :
                 /\ taken + a \in taken + 1..Len(o)
                 /\ outgoing'[a] = o[taken + a]
<1> DEFINE T == Pieces \cup {Attempt, Crlf}
           plan == Plan(o)
           part == SubSeq(plan, 1, written)
<1>1. plan \in Seq(Pieces) /\ wire \in Seq(T) /\ Len(plan) \in Nat
      /\ Len(wire) \in Nat /\ Len(o) \in Nat
  BY PlanFacts, LenProperties DEF OutputOK
<1>2. \A i \in 1..written : plan[i] \in T
  BY <1>1, ElementOfSeq
<1>3. /\ part \in Seq(T) /\ Len(part) = written
      /\ \A i \in 1..written : part[i] = plan[i]
  <2>1. /\ part \in Seq(T)
        /\ Len(part) = IF 1 <= written THEN written - 1 + 1 ELSE 0
        /\ \A i \in 1..written - 1 + 1 : part[i] = plan[1 + i - 1]
    BY <1>1, <1>2, SubSeqProperties
  <2> QED BY <1>1, <2>1
<1>4. wire' = wire \o part
  BY DEF WritesUpTo
<1> HIDE DEF T, part
<1>5. /\ Len(wire \o part) = Len(wire) + Len(part)
      /\ \A i \in 1..Len(wire) + Len(part) :
            (wire \o part)[i] = IF i <= Len(wire) THEN wire[i] ELSE part[i - Len(wire)]
  BY <1>1, <1>3, ConcatProperties
<1>6. \A i \in 1..Len(wire') :
         \/ i \in 1..Len(wire) /\ wire'[i] = wire[i]
         \/ /\ i > Len(wire) /\ i - Len(wire) \in 1..written
            /\ i - Len(wire) \in 1..Len(plan)
            /\ wire'[i] = plan[i - Len(wire)]
  BY <1>1, <1>3, <1>4, <1>5
<1>7. \A a \in taken + 1..Len(o) : o[a] \in Messages
  BY ElementOfSeq, LenProperties
<1> DEFINE rest == SubSeq(o, taken + 1, Len(o))
<1>8. /\ Len(rest) = IF taken + 1 <= Len(o) THEN Len(o) - (taken + 1) + 1 ELSE 0
      /\ \A a \in 1..Len(o) - (taken + 1) + 1 : rest[a] = o[(taken + 1) + a - 1]
  BY <1>1, <1>7, SubSeqProperties
<1>9. outgoing' = rest
  BY DEF WritesUpTo
<1> HIDE DEF rest
<1>10. \A a \in 1..Len(rest) : taken + a \in taken + 1..Len(o) /\ rest[a] = o[taken + a]
  BY <1>1, <1>8, SMTT(30)
<1> QED BY <1>1, <1>3, <1>4, <1>5, <1>6, <1>9, <1>10

LEMMA OrderWritten ==
    ASSUME OutputOK, NEW q \in Seq(Messages), NEW o \in Seq(Messages),
           Placed(q, wire, current, o), InPlace(q, wire, current, o),
           NEW written \in 0..Len(Plan(o)), NEW taken \in Nat,
           WritesUpTo(o, written, taken)
    PROVE  Placed(q, wire', current', outgoing') /\ InPlace(q, wire', current', outgoing')
<1> DEFINE plan == Plan(o)
           n == Len(Rest)
           d == Len(wire)
<1>1. \A i \in 1..Len(plan) :
         /\ IsQueued(q, plan[i][1])
         /\ \A j \in 1..Len(wire) : NotAfter(q, wire[j][1], plan[i][1])
         /\ \A j \in i..Len(plan) : NotAfter(q, plan[i][1], plan[j][1])
         /\ \A a \in taken + 1..Len(o) :
               i <= n + 2 * taken => Earlier(q, plan[i][1], o[a])
  BY PlanOrder
<1>2. /\ Len(wire') = d + written /\ d \in Nat
      /\ \A i \in 1..Len(wire') :
            \/ i \in 1..d /\ wire'[i] = wire[i]
            \/ /\ i > d /\ i - d \in 1..written /\ i - d \in 1..Len(plan)
               /\ wire'[i] = plan[i - d]
      /\ \A a \in 1..Len(outgoing') :
            taken + a \in taken + 1..Len(o) /\ outgoing'[a] = o[taken + a]
  BY WrittenPieces
<1>3. Len(plan) \in Nat /\ n \in Nat /\ Len(o) \in Nat /\ written <= n + 2 * taken
  BY PlanFacts, RestFacts, LenProperties DEF WritesUpTo
<1>4. \/ current' = NoMessage
      \/ /\ written + 1 \in 1..Len(plan) /\ written + 1 <= n + 2 * taken
         /\ current' = plan[written + 1][1]
  BY <1>3 DEF WritesUpTo
<1>5. \A m : NotAfter(q, m, NoMessage) /\ Earlier(q, NoMessage, m)
  <2>1. \A k \in 1..Len(q) : q[k] # NoMessage
    BY ElementOfSeq, ChannelAssumption
  <2> QED BY <2>1 DEF NotAfter, Earlier
<1>6. \A m, m2 : Earlier(q, m, m2) => NotAfter(q, m, m2)
  BY LenProperties DEF Earlier, NotAfter
<1> HIDE DEF plan, n, d
<1>7. ASSUME NEW i \in 1..Len(wire')
      PROVE  /\ wire'[i][1] = NoMessage \/ IsQueued(q, wire'[i][1])
             /\ NotAfter(q, wire'[i][1], current')
             /\ \A j \in i + 1..Len(wire') : NotAfter(q, wire'[i][1], wire'[j][1])
             /\ \A a \in 1..Len(outgoing') : NotAfter(q, wire'[i][1], outgoing'[a])
  <2>1. CASE i \in 1..d /\ wire'[i] = wire[i]
    <3>1. wire[i][1] = NoMessage \/ IsQueued(q, wire[i][1])
      BY <2>1 DEF Placed, d
    <3>2. \A j \in 1..Len(plan) : NotAfter(q, wire[i][1], plan[j][1])
      BY <1>1, <2>1 DEF d
    <3>3. NotAfter(q, wire[i][1], current')
      BY <1>4, <1>5, <3>2
    <3>4. ASSUME NEW j \in i + 1..Len(wire')
          PROVE  NotAfter(q, wire[i][1], wire'[j][1])
      <4>1. j \in 1..Len(wire') /\ i < j
        BY <1>2, <1>3, <2>1
      <4>2. CASE j \in 1..d /\ wire'[j] = wire[j]
        BY <2>1, <4>1, <4>2 DEF InPlace, d
      <4>3. CASE j - d \in 1..Len(plan) /\ wire'[j] = plan[j - d]
        BY <3>2, <4>3
      <4> QED BY <1>2, <4>1, <4>2, <4>3
    <3>5. ASSUME NEW a \in 1..Len(outgoing')
          PROVE  NotAfter(q, wire[i][1], outgoing'[a])
      <4>1. taken + a \in 1..Len(o) /\ outgoing'[a] = o[taken + a]
        BY <1>2, <1>3, SMTT(30)
      <4> QED BY <2>1, <4>1 DEF InPlace, d
    <3> QED BY <2>1, <3>1, <3>3, <3>4, <3>5
  <2>2. CASE i > d /\ i - d \in 1..written /\ i - d \in 1..Len(plan)
             /\ wire'[i] = plan[i - d]
    <3> DEFINE e == i - d
    <3>1. e \in 1..Len(plan) /\ e <= written /\ e \in Nat /\ wire'[i] = plan[e]
      BY <2>2
    <3>2. NotAfter(q, plan[e][1], current')
      <4>1. CASE /\ written + 1 \in 1..Len(plan)
                 /\ current' = plan[written + 1][1]
        <5>1. written + 1 \in e..Len(plan)
          BY <1>3, <3>1, <4>1
        <5> QED BY <1>1, <3>1, <4>1, <5>1
      <4> QED BY <1>4, <1>5, <4>1
    <3>3. ASSUME NEW j \in i + 1..Len(wire')
          PROVE  NotAfter(q, plan[e][1], wire'[j][1])
      <4>1. j \in 1..Len(wire') /\ j > d /\ j - d > e
        BY <1>2, <1>3, <2>2
      <4>2. j - d \in 1..Len(plan) /\ wire'[j] = plan[j - d]
        BY <1>2, <4>1
      <4>3. j - d \in e..Len(plan)
        BY <1>3, <3>1, <4>1, <4>2
      <4> QED BY <1>1, <3>1, <4>2, <4>3
    <3>4. ASSUME NEW a \in 1..Len(outgoing')
          PROVE  NotAfter(q, plan[e][1], outgoing'[a])
      <4>1. taken + a \in taken + 1..Len(o) /\ outgoing'[a] = o[taken + a]
        BY <1>2
      <4>2. e <= n + 2 * taken
        BY <1>3, <3>1
      <4> QED BY <1>1, <1>6, <3>1, <4>1, <4>2
    <3> QED BY <1>1, <3>1, <3>2, <3>3, <3>4
  <2> QED BY <1>2, <2>1, <2>2
<1>8. ASSUME NEW a \in 1..Len(outgoing')
      PROVE  /\ IsQueued(q, outgoing'[a]) /\ Earlier(q, current', outgoing'[a])
             /\ \A b \in a + 1..Len(outgoing') : Earlier(q, outgoing'[a], outgoing'[b])
  <2>1. taken + a \in taken + 1..Len(o) /\ taken + a \in 1..Len(o)
        /\ outgoing'[a] = o[taken + a]
    BY <1>2, <1>3
  <2>2. IsQueued(q, outgoing'[a])
    BY <2>1 DEF Placed
  <2>3. Earlier(q, current', outgoing'[a])
    BY <1>1, <1>4, <1>5, <2>1
  <2>4. ASSUME NEW b \in a + 1..Len(outgoing')
        PROVE  Earlier(q, outgoing'[a], outgoing'[b])
    <3>1. outgoing' \in Seq(Messages) /\ Len(outgoing') \in Nat
      BY WrittenTypes, LenProperties
    <3>2. b \in 1..Len(outgoing') /\ a < b
      BY <3>1
    <3>3. taken + b \in 1..Len(o) /\ outgoing'[b] = o[taken + b] /\ taken + a < taken + b
      BY <1>2, <1>3, <3>1, <3>2
    <3> QED BY <2>1, <3>3 DEF InPlace
  <2> QED BY <2>2, <2>3, <2>4
<1>9. Len(wire') \in Nat /\ Len(outgoing') \in Nat
  BY WrittenTypes, LenProperties
<1>10. Placed(q, wire', current', outgoing')
  <2>1. current' = NoMessage \/ IsQueued(q, current')
    BY <1>1, <1>4
  <2> QED BY <1>7, <1>8, <2>1 DEF Placed
<1>11. InPlace(q, wire', current', outgoing')
  <2>1. \A i, j \in 1..Len(wire') : i < j => j \in i + 1..Len(wire')
    BY <1>9
  <2>2. \A a, b \in 1..Len(outgoing') : a < b => b \in a + 1..Len(outgoing')
    BY <1>9
  <2> QED BY <1>7, <1>8, <2>1, <2>2 DEF InPlace
<1> QED BY <1>10, <1>11

LEMMA OrderKept ==
    ASSUME TypeInv, OrderInv, Next
    PROVE  OrderInv'
<1>1. OutputOK /\ queued \in Seq(Messages) /\ outgoing \in Seq(Messages)
      /\ Placed(queued, wire, current, outgoing) /\ InPlace(queued, wire, current, outgoing)
  BY DEF TypeInv, OrderInv, OutputOK
<1> DEFINE T == Pieces \cup {Attempt, Crlf}
<1>2. wire \in Seq(T)
  BY <1>1 DEF OutputOK
<1>3. ASSUME NEW m \in Messages, NewMessage(m)
      PROVE  /\ Append(queued, m) \in Seq(Messages) /\ queued' = Append(queued, m)
             /\ Append(outgoing, m) \in Seq(Messages)
             /\ Placed(queued', wire, current, Append(outgoing, m))
             /\ InPlace(queued', wire, current, Append(outgoing, m))
  <2>1. ~IsQueued(queued, m) /\ queued' = Append(queued, m)
    BY <1>3 DEF NewMessage, IsQueued
  <2>2. Append(queued, m) \in Seq(Messages) /\ Append(outgoing, m) \in Seq(Messages)
    BY <1>1, AppendProperties
  <2>3. /\ Placed(Append(queued, m), wire, current, Append(outgoing, m))
        /\ InPlace(Append(queued, m), wire, current, Append(outgoing, m))
    BY <1>1, <1>2, <2>1, OrderGrows
  <2> QED BY <2>1, <2>2, <2>3
<1>4. ASSUME NEW o \in Seq(Messages), NEW watch \in BOOLEAN, queued' \in Seq(Messages),
             o = << >> => outgoing = << >>,
             Placed(queued', wire, current, o), InPlace(queued', wire, current, o),
             ProcessQueue(o, watch)
      PROVE  OrderInv'
  <2>1. PICK written \in 0..Len(Plan(o)), taken \in Nat : WritesUpTo(o, written, taken)
    BY <1>1, <1>4, QueueWrites
  <2>2. /\ Placed(queued', wire', current', outgoing')
        /\ InPlace(queued', wire', current', outgoing')
    BY <1>1, <1>4, <2>1, OrderWritten
  <2> QED BY <2>2 DEF OrderInv
<1>5. CASE Quiet
  <2>1. CASE wire' = wire
    BY <1>1, <1>5, <2>1 DEF Quiet, OrderInv
  <2>2. ASSUME NEW x \in {Attempt, Crlf}, wire' = Append(wire, x)
        PROVE  OrderInv'
    <3>1. x \in T /\ x[1] = NoMessage
      BY DEF Attempt, Crlf
    <3>2. /\ Len(wire') = Len(wire) + 1 /\ Len(wire) \in Nat
          /\ \A i \in 1..Len(wire) : wire'[i] = wire[i]
          /\ wire'[Len(wire) + 1] = x
      BY <1>2, <2>2, <3>1, AppendToQueue
    <3>3. \A n : NotAfter(queued, n, NoMessage) /\ NotAfter(queued, NoMessage, n)
      <4>1. \A k \in 1..Len(queued) : queued[k] # NoMessage
        BY <1>1, ElementOfSeq, ChannelAssumption
      <4> QED BY <4>1 DEF NotAfter
    <3>4. \A i \in 1..Len(wire') : \/ i \in 1..Len(wire) /\ wire'[i] = wire[i]
                                   \/ i = Len(wire) + 1 /\ wire'[i][1] = NoMessage
      BY <3>1, <3>2
    <3>5. UNCHANGED <<queued, current, outgoing>>
      BY <1>5 DEF Quiet
    <3>6. Placed(queued, wire', current, outgoing)
      BY <1>1, <3>4 DEF Placed
    <3>7. InPlace(queued, wire', current, outgoing)
      <4>1. ASSUME NEW i \in 1..Len(wire'), NEW j \in 1..Len(wire'), i < j
            PROVE  NotAfter(queued, wire'[i][1], wire'[j][1])
        <5>1. i \in 1..Len(wire) /\ wire'[i] = wire[i]
          BY <3>2, <4>1
        <5>2. CASE j \in 1..Len(wire) /\ wire'[j] = wire[j]
          BY <1>1, <4>1, <5>1, <5>2 DEF InPlace
        <5> QED BY <3>3, <3>4, <5>2
      <4>2. \A i \in 1..Len(wire') : NotAfter(queued, wire'[i][1], current)
        BY <1>1, <3>3, <3>4 DEF InPlace
      <4>3. \A i \in 1..Len(wire'), a \in 1..Len(outgoing) :
               NotAfter(queued, wire'[i][1], outgoing[a])
        BY <1>1, <3>3, <3>4 DEF InPlace
      <4> QED BY <1>1, <4>1, <4>2, <4>3 DEF InPlace
    <3> QED BY <3>5, <3>6, <3>7 DEF OrderInv
  <2> QED BY <1>5, <2>1, <2>2 DEF Quiet
<1>6. ASSUME NEW m \in Messages, Waits(m)
      PROVE  OrderInv'
  BY <1>3, <1>6 DEF Waits, OrderInv
<1>7. ASSUME NEW m \in Messages, Sends(m)
      PROVE  OrderInv'
  <2>1. NewMessage(m) /\ ProcessQueue(Append(outgoing, m), watchWrite)
    BY <1>7 DEF Sends
  <2>2. watchWrite \in BOOLEAN /\ Append(outgoing, m) # << >>
    <3>1. watchWrite \in BOOLEAN /\ outgoing \in Seq(Messages)
      BY <1>1 DEF OutputOK
    <3> QED BY <3>1, AppendToQueue
  <2> QED BY <1>3, <1>4, <2>1, <2>2
<1>8. ASSUME NEW watch \in BOOLEAN, Resumes(watch)
      PROVE  OrderInv'
  <2>1. UNCHANGED queued /\ ProcessQueue(outgoing, watch)
    BY <1>8 DEF Resumes
  <2> QED BY <1>1, <1>4, <2>1
<1> QED BY <1>1, <1>5, <1>6, <1>7, <1>8, StepKinds DEF OutputStep

\* What channel_process_queue puts on the wire is in the order in which the
\* transactions queued it, over every retry, partial write and error.
THEOREM WrittenInOrder == Spec => []InOrder
<1>1. Init => OrderInv
  <2> SUFFICES ASSUME Init
               PROVE  OrderInv
    OBVIOUS
  <2>1. Len(wire) = 0 /\ Len(queued) = 0 /\ Len(outgoing) = 0 /\ current = NoMessage
    BY DEF Init
  <2> QED BY <2>1 DEF OrderInv, Placed, InPlace, NotAfter
<1>2. TypeInv /\ OrderInv /\ [Next]_vars => OrderInv'
  <2> SUFFICES ASSUME TypeInv, OrderInv, [Next]_vars
               PROVE  OrderInv'
    OBVIOUS
  <2>1. CASE UNCHANGED vars
    BY <2>1 DEF vars, output, OrderInv
  <2> QED BY <2>1, OrderKept
<1>3. TypeInv /\ [Next]_vars => TypeInv'
  BY TypeInvKept
<1>4. TypeInv /\ OrderInv => InOrder
  <2> SUFFICES ASSUME TypeInv, OrderInv,
                      NEW i \in Completions, NEW j \in Completions,
                      NEW k \in 1..Len(queued), NEW n \in 1..Len(queued),
                      i < j, wire[i] = End(queued[k]), wire[j] = End(queued[n])
               PROVE  k <= n
    BY DEF InOrder
  <2>1. queued[k] \in Messages /\ queued[n] \in Messages
    BY ElementOfSeq DEF TypeInv
  <2>2. wire[i][1] = queued[k] /\ wire[j][1] = queued[n]
    BY <2>1, PieceFacts
  <2>3. i \in 1..Len(wire) /\ j \in 1..Len(wire)
    <3>1. Len(wire) \in Nat
      BY LenProperties DEF TypeInv, OutputOK
    <3> QED BY <3>1 DEF Completions
  <2> QED BY <2>2, <2>3 DEF OrderInv, InPlace, NotAfter
<1> QED BY <1>1, <1>2, <1>3, <1>4, TypeInvInit, PTL DEF Spec

-----------------------------------------------------------------------------
(***************************************************************************)
(* A message is not repeated unless a write of its own blocked and it is   *)
(* marshalled again.                                                       *)
(***************************************************************************)

\* What _send_message goes on with where it stopped, or never stopped at.
Single == {m \in Messages : m \in Large \/ blocks[m] = 0}

NotWritten(m, w) == \A i \in 1..Len(w) : w[i] # End(m)

Pending(m, q, c, o) ==
    c = m \/ (\E a \in 1..Len(o) : o[a] = m) \/ ~IsQueued(q, m)

OnceEach(S, q, w, c, o) ==
    \A m \in S :
        /\ \A i, j \in 1..Len(w) : w[i] = End(m) /\ w[j] = End(m) => i = j
        /\ Pending(m, q, c, o) => NotWritten(m, w)

OnceInv == OnceEach(Single, queued, wire, current, outgoing)

\* The order of the queue leaves no room for a second copy.
LEMMA NoCopies ==
    ASSUME NEW q \in Seq(Messages), NEW w, NEW c, NEW o \in Seq(Messages),
           Placed(q, w, c, o), InPlace(q, w, c, o)
    PROVE  /\ \A a \in 1..Len(o) : o[a] # c
           /\ \A a, b \in 1..Len(o) : o[a] = o[b] => a = b
<1>1. \A m : IsQueued(q, m) => ~Earlier(q, m, m)
  BY LenProperties DEF IsQueued, Earlier
<1>2. \A a \in 1..Len(o) : o[a] # c
  BY <1>1 DEF Placed, InPlace
<1>3. ASSUME NEW a \in 1..Len(o), NEW b \in 1..Len(o), o[a] = o[b]
      PROVE  a = b
  <2>1. ~(a < b) /\ ~(b < a)
    BY <1>1, <1>3 DEF Placed, InPlace
  <2> QED BY <2>1, LenProperties
<1> QED BY <1>2, <1>3

\* Where the plan has the end of a message that is written once.
LEMMA EndsOfPlan ==
    ASSUME OutputOK, NEW o \in Seq(Messages), NEW m \in Single,
           NEW e \in 1..Len(Plan(o))
    PROVE  /\ Plan(o)[e] = End(m) =>
                \/ e = Len(Rest) /\ m = current
                \/ \E a \in 1..Len(o) : o[a] = m /\ e = Len(Rest) + 2 * a
           /\ Plan(o)[e][1] = m =>
                \/ e <= Len(Rest) /\ m = current
                \/ \E a \in 1..Len(o) : o[a] = m /\ e <= Len(Rest) + 2 * a
                                        /\ e > Len(Rest)
<1> DEFINE n == Len(Rest)
           p == PiecesOf(o)
<1>1. n \in Nat /\ m \in Messages /\ (m = current => m \in Large)
  BY RestFacts, LenProperties, ChannelAssumption DEF Single, OutputOK
<1>2. CASE e <= n
  <2>1. e \in 1..n /\ Plan(o)[e] = Rest[e]
    BY <1>1, <1>2, PlanFacts, LenProperties
  <2>2. Rest[e][1] = current /\ (current \in Large => (Rest[e] = End(current) => e = n))
    BY <2>1, RestFacts
  <2>3. End(m)[1] = m
    BY <1>1, PieceFacts
  <2> QED BY <1>1, <1>2, <2>1, <2>2, <2>3
<1>3. CASE e > n
  <2> DEFINE i == e - n
             a == (i + 1) \div 2
  <2>1. i \in 1..2 * Len(o) /\ Plan(o)[e] = p[i]
    BY <1>3, PlanFacts
  <2>2. a \in 1..Len(o) /\ p[i][1] = o[a] /\ (p[i] = End(o[a]) => i = 2 * a)
    BY <2>1, PiecesOfFacts
  <2>3. End(m)[1] = m
    BY <1>1, PieceFacts
  <2>4. i <= 2 * a /\ e = n + i
    BY <1>1, <2>1
  <2> HIDE DEF a
  <2>5. Plan(o)[e] = End(m) => o[a] = m /\ e = n + 2 * a
    BY <2>1, <2>2, <2>3, <2>4
  <2>6. Plan(o)[e][1] = m => o[a] = m /\ e <= n + 2 * a
    BY <1>1, <2>1, <2>2, <2>4
  <2> QED BY <1>3, <2>2, <2>5, <2>6
<1> QED BY <1>1, <1>2, <1>3, PlanFacts, LenProperties

LEMMA OnceWritten ==
    ASSUME OutputOK, NEW q \in Seq(Messages), NEW o \in Seq(Messages),
           Placed(q, wire, current, o), InPlace(q, wire, current, o),
           OnceEach(Single, q, wire, current, o),
           NEW written \in 0..Len(Plan(o)), NEW taken \in Nat,
           WritesUpTo(o, written, taken)
    PROVE  OnceEach(Single, q, wire', current', outgoing')
<1> DEFINE plan == Plan(o)
           n == Len(Rest)
           d == Len(wire)
<1> SUFFICES ASSUME NEW m \in Single
             PROVE  /\ \A i, j \in 1..Len(wire') :
                          wire'[i] = End(m) /\ wire'[j] = End(m) => i = j
                    /\ Pending(m, q, current', outgoing') => NotWritten(m, wire')
  BY DEF OnceEach
<1>1. /\ \A i, j \in 1..d : wire[i] = End(m) /\ wire[j] = End(m) => i = j
      /\ current = m => NotWritten(m, wire)
      /\ \A a \in 1..Len(o) : o[a] = m => NotWritten(m, wire)
      /\ ~IsQueued(q, m) => NotWritten(m, wire)
  BY DEF OnceEach, Pending
<1>2. /\ Len(wire') = d + written /\ d \in Nat
      /\ \A i \in 1..Len(wire') :
            \/ i \in 1..d /\ wire'[i] = wire[i]
            \/ /\ i > d /\ i - d \in 1..written /\ i - d \in 1..Len(plan)
               /\ wire'[i] = plan[i - d]
      /\ \A a \in 1..Len(outgoing') :
            taken + a \in taken + 1..Len(o) /\ outgoing'[a] = o[taken + a]
  BY WrittenPieces
<1>3. /\ Len(plan) \in Nat /\ n \in Nat /\ Len(o) \in Nat /\ written <= n + 2 * taken
      /\ m # NoMessage /\ written \in Nat
  BY PlanFacts, RestFacts, LenProperties, ChannelAssumption DEF WritesUpTo, Single
<1>4. \/ current' = NoMessage
      \/ written + 1 \in 1..Len(plan) /\ current' = plan[written + 1][1]
  BY <1>3 DEF WritesUpTo
<1>5. \A e \in 1..Len(plan) :
         /\ plan[e] = End(m) => \/ e = n /\ m = current
                                \/ \E a \in 1..Len(o) : o[a] = m /\ e = n + 2 * a
         /\ plan[e][1] = m => \/ e <= n /\ m = current
                              \/ \E a \in 1..Len(o) :
                                    o[a] = m /\ e <= n + 2 * a /\ e > n
  BY EndsOfPlan
<1>6. /\ \A a \in 1..Len(o) : o[a] # current
      /\ \A a, b \in 1..Len(o) : o[a] = o[b] => a = b
  BY NoCopies
<1>7. /\ current = m => IsQueued(q, m)
      /\ \A a \in 1..Len(o) : o[a] = m => IsQueued(q, m)
  BY <1>3 DEF Placed
<1> HIDE DEF plan, n, d
\* A message that the plan ends was not on the wire, ...
<1>8. \A e \in 1..Len(plan) : plan[e] = End(m) => NotWritten(m, wire)
  BY <1>1, <1>5
<1>9. \A e, f \in 1..Len(plan) : plan[e] = End(m) /\ plan[f] = End(m) => e = f
  BY <1>5, <1>6, ZenonT(40)
<1>10. ASSUME NEW i \in 1..Len(wire'), NEW j \in 1..Len(wire'),
              wire'[i] = End(m), wire'[j] = End(m)
       PROVE  i = j
  <2>1. CASE i \in 1..d /\ wire'[i] = wire[i]
    <3>1. CASE j \in 1..d /\ wire'[j] = wire[j]
      BY <1>1, <1>10, <2>1, <3>1
    <3>2. CASE j - d \in 1..Len(plan) /\ wire'[j] = plan[j - d]
      BY <1>8, <1>10, <2>1, <3>2 DEF NotWritten, d
    <3> QED BY <1>2, <3>1, <3>2
  <2>2. CASE i - d \in 1..Len(plan) /\ wire'[i] = plan[i - d]
    <3>1. CASE j \in 1..d /\ wire'[j] = wire[j]
      BY <1>8, <1>10, <2>2, <3>1 DEF NotWritten, d
    <3>2. CASE j - d \in 1..Len(plan) /\ wire'[j] = plan[j - d]
      <4>1. i - d = j - d
        BY <1>9, <1>10, <2>2, <3>2
      <4> QED BY <1>2, <4>1
    <3> QED BY <1>2, <3>1, <3>2
  <2> QED BY <1>2, <2>1, <2>2
\* ... and one that is ended is neither stopped at nor left in the queue.
<1>11. ASSUME Pending(m, q, current', outgoing'), NEW i \in 1..Len(wire'),
              wire'[i] = End(m)
       PROVE  FALSE
  <2>1. CASE i \in 1..d /\ wire'[i] = wire[i]
    <3>1. ~NotWritten(m, wire)
      BY <1>11, <2>1 DEF NotWritten, d
    <3>2. current # m /\ IsQueued(q, m) /\ \A a \in 1..Len(o) : o[a] # m
      BY <1>1, <3>1
    <3>3. current' # m
      BY <1>3, <1>4, <1>5, <3>2
    <3>4. \A a \in 1..Len(outgoing') : outgoing'[a] # m
      <4>1. \A a \in 1..Len(outgoing') : taken + a \in 1..Len(o)
        BY <1>2, <1>3
      <4> QED BY <1>2, <3>2, <4>1
    <3> QED BY <1>11, <3>2, <3>3, <3>4 DEF Pending
  <2>2. CASE i - d \in 1..written /\ i - d \in 1..Len(plan) /\ wire'[i] = plan[i - d]
    <3> DEFINE e == i - d
    <3>1. e \in 1..Len(plan) /\ e \in Nat /\ e <= written /\ plan[e] = End(m)
      BY <1>11, <2>2
    <3> HIDE DEF e
    <3>2. CASE e = n /\ m = current
      <4>1. IsQueued(q, m) /\ \A a \in 1..Len(o) : o[a] # m
        BY <1>6, <1>7, <3>2
      <4>2. current' # m
        BY <1>3, <1>4, <1>5, <3>1, <3>2, <4>1
      <4>3. \A a \in 1..Len(outgoing') : outgoing'[a] # m
        <5>1. \A a \in 1..Len(outgoing') : taken + a \in 1..Len(o)
          BY <1>2, <1>3
        <5> QED BY <1>2, <4>1, <5>1
      <4> QED BY <1>11, <4>1, <4>2, <4>3 DEF Pending
    <3>3. ASSUME NEW a \in 1..Len(o), o[a] = m, e = n + 2 * a
          PROVE  FALSE
      <4>1. IsQueued(q, m) /\ m # current
        BY <1>6, <1>7, <3>3
      <4>2. current' # m
        <5> SUFFICES ASSUME current' = m
                     PROVE  FALSE
          OBVIOUS
        <5>1. written + 1 \in 1..Len(plan) /\ plan[written + 1][1] = m
          BY <1>3, <1>4
        <5>2. PICK b \in 1..Len(o) : o[b] = m /\ written + 1 <= n + 2 * b
          BY <1>5, <4>1, <5>1
        <5>3. b = a
          BY <1>6, <3>3, <5>2
        <5> QED BY <1>3, <3>1, <3>3, <5>2, <5>3
      <4>3. \A b \in 1..Len(outgoing') : outgoing'[b] # m
        <5> SUFFICES ASSUME NEW b \in 1..Len(outgoing'), outgoing'[b] = m
                     PROVE  FALSE
          OBVIOUS
        <5>1. taken + b \in taken + 1..Len(o) /\ outgoing'[b] = o[taken + b]
          BY <1>2
        <5>2. taken + b = a
          <6>1. taken + b \in 1..Len(o) /\ o[taken + b] = o[a]
            BY <1>3, <3>3, <5>1
          <6> QED BY <1>6, <3>3, <6>1
        <5>3. a >= taken + 1 /\ e <= n + 2 * taken /\ a \in Nat
          BY <1>3, <3>1, <5>1, <5>2
        <5> QED BY <1>3, <3>1, <3>3, <5>3
      <4> QED BY <1>11, <4>1, <4>2, <4>3 DEF Pending
    <3> QED BY <1>5, <3>1, <3>2, <3>3
  <2> QED BY <1>2, <2>1, <2>2
<1> QED BY <1>10, <1>11 DEF NotWritten

\* A blocked write is never forgotten.
LEMMA BlocksGrow ==
    ASSUME OutputOK, NEW messages, NEW watch, ProcessQueue(messages, watch)
    PROVE  Single' \subseteq Single
<1>1. blocks \in [Messages -> 0..MaxBlocks]
  BY DEF OutputOK
<1>2. CASE blocks' = blocks
  BY <1>2 DEF Single
<1>3. ASSUME NEW n, blocks' = [blocks EXCEPT ![n] = @ + 1]
      PROVE  Single' \subseteq Single
  <2>1. \A m \in Messages : blocks[m] \in Nat /\ (blocks'[m] = 0 => blocks[m] = 0)
    BY <1>1, <1>3, ChannelAssumption
  <2> QED BY <2>1 DEF Single
<1>4. CASE WriteUntilBlocked(messages, watch)
  BY <1>3, <1>4 DEF WriteUntilBlocked
<1> QED BY <1>2, <1>4 DEF ProcessQueue, NothingToWrite, WriteAll, WriteUntilError

LEMMA OnceKept ==
    ASSUME TypeInv, OrderInv, OnceInv, Next
    PROVE  OnceInv'
<1>1. /\ OutputOK /\ queued \in Seq(Messages) /\ outgoing \in Seq(Messages)
      /\ Placed(queued, wire, current, outgoing) /\ InPlace(queued, wire, current, outgoing)
      /\ OnceEach(Single, queued, wire, current, outgoing)
  BY DEF TypeInv, OrderInv, OnceInv, OutputOK
<1> DEFINE T == Pieces \cup {Attempt, Crlf}
<1>2. wire \in Seq(T)
  BY <1>1 DEF OutputOK
<1>3. ASSUME NEW m \in Messages, NewMessage(m)
      PROVE  /\ Append(queued, m) \in Seq(Messages) /\ queued' = Append(queued, m)
             /\ Append(outgoing, m) \in Seq(Messages)
             /\ Placed(queued', wire, current, Append(outgoing, m))
             /\ InPlace(queued', wire, current, Append(outgoing, m))
             /\ OnceEach(Single, queued', wire, current, Append(outgoing, m))
  <2>1. ~IsQueued(queued, m) /\ queued' = Append(queued, m)
    BY <1>3 DEF NewMessage, IsQueued
  <2>2. Append(queued, m) \in Seq(Messages) /\ Append(outgoing, m) \in Seq(Messages)
    BY <1>1, AppendProperties
  <2>3. /\ Placed(Append(queued, m), wire, current, Append(outgoing, m))
        /\ InPlace(Append(queued, m), wire, current, Append(outgoing, m))
    BY <1>1, <1>2, <2>1, OrderGrows
  <2> DEFINE o == Append(outgoing, m)
             q == Append(queued, m)
  <2>4. /\ Len(o) = Len(outgoing) + 1 /\ Len(outgoing) \in Nat
        /\ \A a \in 1..Len(outgoing) : o[a] = outgoing[a]
        /\ o[Len(outgoing) + 1] = m
    BY <1>1, AppendToQueue
  <2>5. \A n : IsQueued(queued, n) => IsQueued(q, n)
    BY <1>1, <2>1, QueuedLast
  <2> HIDE DEF o, q
  <2>6. \A n : Pending(n, q, current, o) => Pending(n, queued, current, outgoing)
    <3> SUFFICES ASSUME NEW n, Pending(n, q, current, o)
                 PROVE  Pending(n, queued, current, outgoing)
      OBVIOUS
    <3>1. CASE current = n
      BY <3>1 DEF Pending
    <3>2. ASSUME NEW a \in 1..Len(o), o[a] = n
          PROVE  Pending(n, queued, current, outgoing)
      BY <2>1, <2>4, <3>2 DEF Pending
    <3>3. CASE ~IsQueued(q, n)
      BY <2>5, <3>3 DEF Pending
    <3> QED BY <3>1, <3>2, <3>3 DEF Pending
  <2>7. OnceEach(Single, q, wire, current, o)
    BY <1>1, <2>6 DEF OnceEach
  <2> QED BY <2>1, <2>2, <2>3, <2>7 DEF o, q
<1>4. ASSUME NEW o \in Seq(Messages), NEW watch \in BOOLEAN, queued' \in Seq(Messages),
             o = << >> => outgoing = << >>,
             Placed(queued', wire, current, o), InPlace(queued', wire, current, o),
             OnceEach(Single, queued', wire, current, o),
             ProcessQueue(o, watch)
      PROVE  OnceInv'
  <2>1. PICK written \in 0..Len(Plan(o)), taken \in Nat : WritesUpTo(o, written, taken)
    BY <1>1, <1>4, QueueWrites
  <2>2. OnceEach(Single, queued', wire', current', outgoing')
    BY <1>1, <1>4, <2>1, OnceWritten
  <2>3. Single' \subseteq Single
    BY <1>1, <1>4, BlocksGrow
  <2> QED BY <2>2, <2>3 DEF OnceInv, OnceEach
<1>5. CASE Quiet
  <2>1. UNCHANGED <<queued, current, outgoing>> /\ Single' = Single
    BY <1>5 DEF Quiet, Single
  <2>2. CASE wire' = wire
    BY <1>1, <2>1, <2>2 DEF OnceInv
  <2>3. ASSUME NEW x \in {Attempt, Crlf}, wire' = Append(wire, x)
        PROVE  OnceInv'
    <3>1. x \in T /\ \A m \in Single : x # End(m)
      BY DEF Attempt, Crlf, End
    <3>2. /\ Len(wire') = Len(wire) + 1 /\ Len(wire) \in Nat
          /\ \A i \in 1..Len(wire) : wire'[i] = wire[i]
          /\ wire'[Len(wire) + 1] = x
      BY <1>2, <2>3, <3>1, AppendToQueue
    <3>3. \A m \in Single : \A i \in 1..Len(wire') :
             wire'[i] = End(m) => i \in 1..Len(wire) /\ wire[i] = End(m)
      BY <3>1, <3>2
    <3>4. OnceEach(Single, queued, wire', current, outgoing)
      <4> SUFFICES ASSUME NEW m \in Single
                   PROVE  /\ \A i, j \in 1..Len(wire') :
                                wire'[i] = End(m) /\ wire'[j] = End(m) => i = j
                          /\ Pending(m, queued, current, outgoing) => NotWritten(m, wire')
        BY DEF OnceEach
      <4>1. \A i, j \in 1..Len(wire) : wire[i] = End(m) /\ wire[j] = End(m) => i = j
        BY <1>1 DEF OnceEach
      <4>2. Pending(m, queued, current, outgoing) => NotWritten(m, wire)
        BY <1>1 DEF OnceEach
      <4> QED BY <3>3, <4>1, <4>2 DEF NotWritten
    <3> QED BY <2>1, <3>4 DEF OnceInv
  <2> QED BY <1>5, <2>2, <2>3 DEF Quiet
<1>6. ASSUME NEW m \in Messages, Waits(m)
      PROVE  OnceInv'
  BY <1>3, <1>6 DEF Waits, OnceInv, Single
<1>7. ASSUME NEW m \in Messages, Sends(m)
      PROVE  OnceInv'
  <2>1. NewMessage(m) /\ ProcessQueue(Append(outgoing, m), watchWrite)
    BY <1>7 DEF Sends
  <2>2. watchWrite \in BOOLEAN /\ Append(outgoing, m) # << >>
    <3>1. watchWrite \in BOOLEAN /\ outgoing \in Seq(Messages)
      BY <1>1 DEF OutputOK
    <3> QED BY <3>1, AppendToQueue
  <2> QED BY <1>3, <1>4, <2>1, <2>2
<1>8. ASSUME NEW watch \in BOOLEAN, Resumes(watch)
      PROVE  OnceInv'
  <2>1. UNCHANGED queued /\ ProcessQueue(outgoing, watch)
    BY <1>8 DEF Resumes
  <2> QED BY <1>1, <1>4, <2>1
<1> QED BY <1>1, <1>5, <1>6, <1>7, <1>8, StepKinds DEF OutputStep

\* A message reaches the peer twice only if it was marshalled again after a
\* write of its own blocked: a large one goes on where it stopped, and none is
\* repeated for another's sake, over every retry, partial write and error.
THEOREM WrittenOnce == Spec => []NothingRepeated
<1>1. Init => OrderInv /\ OnceInv
  <2> SUFFICES ASSUME Init
               PROVE  OrderInv /\ OnceInv
    OBVIOUS
  <2>1. Len(wire) = 0 /\ Len(queued) = 0 /\ Len(outgoing) = 0 /\ current = NoMessage
    BY DEF Init
  <2> QED BY <2>1 DEF OrderInv, Placed, InPlace, NotAfter, OnceInv, OnceEach, NotWritten
<1>2. TypeInv /\ OrderInv /\ OnceInv /\ [Next]_vars => OrderInv' /\ OnceInv'
  <2> SUFFICES ASSUME TypeInv, OrderInv, OnceInv, [Next]_vars
               PROVE  OrderInv' /\ OnceInv'
    OBVIOUS
  <2>1. CASE UNCHANGED vars
    BY <2>1 DEF vars, output, OrderInv, OnceInv, Single
  <2> QED BY <2>1, OrderKept, OnceKept
<1>3. TypeInv /\ [Next]_vars => TypeInv'
  BY TypeInvKept
<1>4. TypeInv /\ OnceInv => NothingRepeated
  <2> SUFFICES ASSUME TypeInv, OnceInv,
                      NEW i \in Completions, NEW j \in Completions,
                      NEW m \in Messages, wire[i] = End(m), wire[j] = End(m), i # j
               PROVE  m \notin Large /\ blocks[m] > 0
    BY DEF NothingRepeated
  <2>1. Len(wire) \in Nat /\ blocks[m] \in Nat
    BY LenProperties, ChannelAssumption DEF TypeInv, OutputOK
  <2>2. i \in 1..Len(wire) /\ j \in 1..Len(wire)
    BY <2>1 DEF Completions
  <2>3. m \notin Single
    BY <2>2 DEF OnceInv, OnceEach
  <2> QED BY <2>1, <2>3 DEF Single
<1> QED BY <1>1, <1>2, <1>3, <1>4, TypeInvInit, PTL DEF Spec

-----------------------------------------------------------------------------
(***************************************************************************)
(* The first connection.  Before it nothing is blocked, because nothing is *)
(* written without a socket; a later one does not ask for the write event  *)
(* of what was blocked before (belle_sip_channel_set_ready).               *)
(***************************************************************************)
Attempted == \E i \in 1..Len(wire) : wire[i] = Attempt

WatchInv ==
    /\ socket # "closed" \/ state = "CONNECTING" \/ outState # "IDLE" => Attempted
    /\ FirstConnection /\ outState # "IDLE" => watchWrite /\ state # "CONNECTING"

LEMMA QueueIsWatched ==
    ASSUME OutputOK, NEW messages \in Seq(Messages), NEW watch \in BOOLEAN,
           outState # "IDLE" => watch = TRUE,
           ProcessQueue(messages, watch)
    PROVE  outState' # "IDLE" => watchWrite'
<1>1. CASE NothingToWrite(messages, watch)
  BY <1>1 DEF NothingToWrite
<1>2. CASE WriteAll(messages)
  BY <1>2 DEF WriteAll
<1>3. CASE WriteUntilError(messages)
  BY <1>3 DEF WriteUntilError
<1>4. CASE WriteUntilBlocked(messages, watch)
  <2>1. PICK written \in 0..Len(blocked \o Resumed \o PiecesOf(messages)) - 1 :
           watchWrite' = IF written < Len(blocked) THEN watch ELSE TRUE
    BY <1>4 DEF WriteUntilBlocked
  <2>2. CASE written < Len(blocked)
    <3>1. Len(blocked) # 0
      BY <2>2
    <3>2. outState # "IDLE"
      BY <3>1, EmptySeq DEF OutputOK
    <3> QED BY <2>1, <2>2, <3>2
  <2>3. CASE ~(written < Len(blocked))
    BY <2>1, <2>3
  <2> QED BY <2>2, <2>3
<1> QED BY <1>1, <1>2, <1>3, <1>4 DEF ProcessQueue

\* A message is left in the middle only by a write over an open socket.
LEMMA BlockedHasSocket ==
    ASSUME NEW messages, NEW watch, ProcessQueue(messages, watch),
           outState' # "IDLE"
    PROVE  socket' # "closed"
<1>1. CASE NothingToWrite(messages, watch)
  BY <1>1 DEF NothingToWrite
<1>2. CASE WriteAll(messages)
  BY <1>2 DEF WriteAll
<1>3. CASE WriteUntilError(messages)
  BY <1>3 DEF WriteUntilError
<1>4. CASE WriteUntilBlocked(messages, watch)
  BY <1>4 DEF WriteUntilBlocked
<1> QED BY <1>1, <1>2, <1>3, <1>4 DEF ProcessQueue

\* What is on the wire stays there: a first connection was a first one before.
LEMMA WireStays ==
    ASSUME Len(wire) \in Nat, Len(wire') \in Nat, Len(wire) <= Len(wire'),
           \A i \in 1..Len(wire) : wire'[i] = wire[i]
    PROVE  /\ Attempted => Attempted'
           /\ FirstConnection' => FirstConnection
<1>1. \A i \in 1..Len(wire) : i \in 1..Len(wire')
  OBVIOUS
<1>2. Attempted => Attempted'
  BY <1>1 DEF Attempted
<1>3. FirstConnection' => FirstConnection
  BY <1>1 DEF FirstConnection
<1> QED BY <1>2, <1>3

LEMMA QueueKeepsWire ==
    ASSUME OutputOK, NEW o \in Seq(Messages), NEW watch \in BOOLEAN,
           o = << >> => outgoing = << >>, ProcessQueue(o, watch)
    PROVE  /\ Attempted => Attempted'
           /\ FirstConnection' => FirstConnection
<1>1. PICK written \in 0..Len(Plan(o)), taken \in Nat : WritesUpTo(o, written, taken)
  BY QueueWrites
<1>2. /\ Len(wire') = Len(wire) + written /\ Len(wire) \in Nat
      /\ \A i \in 1..Len(wire') : (i \in 1..Len(wire) /\ wire'[i] = wire[i]) \/ i > Len(wire)
  BY <1>1, WrittenPieces
<1>3. Len(wire') \in Nat /\ Len(wire) <= Len(wire')
  BY <1>2
<1>4. \A i \in 1..Len(wire) : wire'[i] = wire[i]
  BY <1>2, <1>3
<1> QED BY <1>2, <1>3, <1>4, WireStays

LEMMA AppendKeepsWire ==
    ASSUME OutputOK, NEW x \in {Attempt, Crlf}, wire' = Append(wire, x)
    PROVE  /\ Attempted => Attempted'
           /\ FirstConnection' => FirstConnection
           /\ x = Attempt => Attempted' /\ (FirstConnection' => ~Attempted)
<1> DEFINE T == Pieces \cup {Attempt, Crlf}
<1>1. /\ Len(wire') = Len(wire) + 1 /\ Len(wire) \in Nat
      /\ \A i \in 1..Len(wire) : wire'[i] = wire[i]
      /\ wire'[Len(wire) + 1] = x
  <2>1. wire \in Seq(T) /\ x \in T
    BY DEF OutputOK
  <2> HIDE DEF T
  <2> QED BY <2>1, AppendToQueue
<1>2. Len(wire) + 1 \in 1..Len(wire')
  BY <1>1
<1>3. x = Attempt => Attempted'
  BY <1>1, <1>2 DEF Attempted
<1>4. ASSUME x = Attempt, FirstConnection', NEW i \in 1..Len(wire), wire[i] = Attempt
      PROVE  FALSE
  <2>1. i \in 1..Len(wire') /\ wire'[i] = Attempt /\ i # Len(wire) + 1
    BY <1>1, <1>4
  <2>2. wire'[Len(wire) + 1] = Attempt
    BY <1>1, <1>4
  <2>3. \A k, l \in 1..Len(wire') : wire'[k] = Attempt /\ wire'[l] = Attempt => k = l
    BY <1>4 DEF FirstConnection
  <2> QED BY <1>2, <2>1, <2>2, <2>3
<1>5. Len(wire') \in Nat /\ Len(wire) <= Len(wire')
  BY <1>1
<1>6. (Attempted => Attempted') /\ (FirstConnection' => FirstConnection)
  BY <1>1, <1>5, WireStays
<1> QED BY <1>3, <1>4, <1>6 DEF Attempted

LEMMA WatchKept ==
    ASSUME TypeInv, WatchInv, Next
    PROVE  WatchInv'
<1>1. OutputOK /\ outgoing \in Seq(Messages) /\ watchWrite \in BOOLEAN
  BY DEF TypeInv, OutputOK
<1>2. ASSUME NEW o \in Seq(Messages), NEW watch \in BOOLEAN,
             o = << >> => outgoing = << >>,
             socket' # "closed" => Attempted,
             FirstConnection /\ outState # "IDLE" => watch = TRUE,
             ProcessQueue(o, watch)
      PROVE  WatchInv'
  <2>1. (Attempted => Attempted') /\ (FirstConnection' => FirstConnection)
    BY <1>1, <1>2, QueueKeepsWire
  <2>2. outState' # "IDLE" => socket' # "closed"
    BY <1>2, BlockedHasSocket
  <2>3. state' # "CONNECTING"
    BY <1>2 DEF ProcessQueue
  <2>4. FirstConnection' /\ outState' # "IDLE" => watchWrite'
    BY <1>1, <1>2, <2>1, QueueIsWatched
  <2> QED BY <1>2, <2>1, <2>2, <2>3, <2>4 DEF WatchInv
<1>3. ASSUME UNCHANGED <<outState, watchWrite, wire>>,
             state' = state \/ state' # "CONNECTING",
             socket' # "closed" => socket # "closed" \/ state = "CONNECTING"
      PROVE  WatchInv'
  <2>1. Attempted' = Attempted /\ FirstConnection' = FirstConnection
    BY <1>3 DEF Attempted, FirstConnection
  <2> QED BY <1>3, <2>1 DEF WatchInv
<1>4. ASSUME NEW soft \in BOOLEAN, NEW left, HandleError(soft, left), UNCHANGED output,
             left # "closed" => socket # "closed" \/ state = "CONNECTING"
      PROVE  WatchInv'
  BY <1>3, <1>4 DEF HandleError, output
<1>5. ASSUME NEW n, TryConnect(n), UNCHANGED outState
      PROVE  WatchInv'
  <2>1. CASE /\ state' = "CONNECTING" /\ wire' = Append(wire, Attempt)
    <3>1. Attempted' /\ (FirstConnection' => ~Attempted)
      BY <1>1, <2>1, AppendKeepsWire
    <3> QED BY <1>5, <3>1 DEF WatchInv
  <2>2. CASE UNCHANGED <<watchWrite, wire>> /\ state' # "CONNECTING" /\ socket' = "closed"
    BY <1>3, <1>5, <2>2
  <2> QED BY <1>5, <2>1, <2>2 DEF TryConnect
<1>6. ASSUME NEW m \in Messages, QueueMessage(m)
      PROVE  WatchInv'
  <2>1. CASE state = "READY"
    <3>1. Append(outgoing, m) \in Seq(Messages) /\ Append(outgoing, m) # << >>
      BY <1>1, AppendProperties
    <3>2. ProcessQueue(Append(outgoing, m), watchWrite) /\ UNCHANGED socket
      BY <1>6, <2>1 DEF QueueMessage
    <3> QED BY <1>1, <1>2, <3>1, <3>2 DEF WatchInv
  <2>2. CASE state # "READY"
    BY <1>3, <1>6, <2>2 DEF QueueMessage, Resolve, connection
  <2> QED BY <2>1, <2>2
<1>7. CASE Prepare
  BY <1>3, <1>7 DEF Prepare, Resolve, output
<1>8. CASE CheckDnsReusability
  BY <1>3, <1>8 DEF CheckDnsReusability, Resolve, output
<1>9. CASE NotifyServerError
  BY <1>4, <1>9 DEF NotifyServerError
<1>10. CASE NotifyTimeout
  BY <1>4, <1>10 DEF NotifyTimeout
<1>11. CASE KeepAlive
  <2>1. CASE wire' = Append(wire, Crlf) /\ UNCHANGED <<connection, outState, watchWrite>>
    <3>1. (Attempted => Attempted') /\ (FirstConnection' => FirstConnection)
      BY <1>1, <2>1, AppendKeepsWire
    <3> QED BY <2>1, <3>1 DEF WatchInv, connection
  <2>2. CASE HandleError(FALSE, "closed") /\ UNCHANGED output
    BY <1>4, <2>2
  <2> QED BY <1>11, <2>1, <2>2 DEF KeepAlive
<1>12. CASE Disconnect
  BY <1>3, <1>12 DEF Disconnect, output
<1>13. CASE ResolutionSucceeds
  <2>1. CASE (\E n \in 1..Addresses : TryConnect(n)) /\ UNCHANGED outState
    BY <1>5, <2>1
  <2>2. CASE UNCHANGED socket /\ ProcessQueue(outgoing, watchWrite)
    BY <1>1, <1>2, <2>2 DEF WatchInv
  <2>3. CASE socket' = "closed" /\ state' = "RETRY" /\ UNCHANGED output
    BY <1>3, <2>3 DEF output
  <2> QED BY <1>13, <2>1, <2>2, <2>3 DEF ResolutionSucceeds
<1>14. CASE ResolutionFails
  BY <1>4, <1>14 DEF ResolutionFails
<1>15. CASE ConnectNext
  <2>1. CASE TryConnect(peers)
    BY <1>5, <1>15, <2>1 DEF ConnectNext
  <2>2. CASE UNCHANGED <<state, socket, watchWrite, wire>>
    BY <1>3, <1>15, <2>2 DEF ConnectNext
  <2> QED BY <1>15, <2>1, <2>2 DEF ConnectNext
<1>16. CASE Connected
  <2>1. state = "CONNECTING" /\ ProcessQueue(outgoing, FALSE)
    BY <1>16 DEF Connected
  <2> QED BY <1>1, <1>2, <2>1 DEF WatchInv
<1>17. CASE ConnectionFails
  BY <1>4, <1>17 DEF ConnectionFails
<1>18. CASE Writable
  <2>1. socket # "closed" /\ ProcessQueue(outgoing, TRUE)
    BY <1>18 DEF Writable, Polled
  <2> QED BY <1>1, <1>2, <2>1 DEF WatchInv
<1>19. CASE ReadFails
  BY <1>4, <1>19 DEF ReadFails, Polled
<1>20. CASE UnexpectedEvent
  BY <1>4, <1>20 DEF UnexpectedEvent, Polled
<1>21. CASE NotifyErrorToListeners
  BY <1>3, <1>21 DEF NotifyErrorToListeners, output
<1> QED BY <1>6, <1>7, <1>8, <1>9, <1>10, <1>11, <1>12, <1>13, <1>14, <1>15, <1>16,
           <1>17, <1>18, <1>19, <1>20, <1>21 DEF Next, Use, Loop

\* A message that a write of send_message left in the blocked buffer is
\* continued when the socket accepts data again, as long as the channel is on
\* its first connection.
THEOREM BlockedStaysWatched == Spec => []BlockedIsWatched
<1>1. Init => WatchInv
  BY DEF Init, WatchInv
<1>2. TypeInv /\ WatchInv /\ [Next]_vars => WatchInv'
  <2> SUFFICES ASSUME TypeInv, WatchInv, [Next]_vars
               PROVE  WatchInv'
    OBVIOUS
  <2>1. CASE UNCHANGED vars
    BY <2>1 DEF vars, connection, output, WatchInv, Attempted, FirstConnection
  <2> QED BY <2>1, WatchKept
<1>3. TypeInv /\ [Next]_vars => TypeInv'
  BY TypeInvKept
<1>4. WatchInv => BlockedIsWatched
  BY DEF WatchInv, BlockedIsWatched
<1> QED BY <1>1, <1>2, <1>3, <1>4, TypeInvInit, PTL DEF Spec
=============================================================================
