-------------------------------- MODULE Zrtp --------------------------------
(***************************************************************************)
(* The ZRTP key agreement of two ends of a call (bzrtp/src/stateMachine.c  *)
(* and bzrtp.c), first channel, Diffie-Hellman mode, over UDP.  Each end   *)
(* keeps the secret of the last session with the other in a cache; one     *)
(* session follows another and may be ended anywhere by either end.        *)
(*                                                                         *)
(* A message stands for its packet.  What DHPart1, DHPart2, Confirm1 and   *)
(* Confirm2 carry is fixed when they are built, stored in selfPackets and  *)
(* sent again as it is, so a reader finds it in the sender's channel.      *)
(***************************************************************************)
EXTENDS Integers, SequencesExt

CONSTANTS
    Peers,         \* the two ends
    MaxSessions,   \* bound: sessions one after the other
    HelloMax,      \* HELLO_MAX_RETRANSMISSION_NUMBER
    MessageMax,    \* NON_HELLO_MAX_RETRANSMISSION_NUMBER
    MaxLosses      \* bound: packets lost in one session

ASSUME ZrtpAssumption ==
    /\ \A p \in Peers : \E q \in Peers : Peers = {p, q} /\ p # q
    /\ MaxSessions \in Nat \ {0} /\ HelloMax \in Nat /\ MessageMax \in Nat
    /\ MaxLosses \in Nat

VARIABLES
    session,   \* the number of the session
    lower,     \* the end whose Commit has the lower hvi
    chan,      \* the channel context, and what it uses of the ZRTP context
    link,      \* the packets each end sent that are under way, oldest first
    cache,     \* the secrets each end retained for the other (zidCache.c)
    lost,      \* packets lost in this session
    shared,    \* history: some session was completed by both ends
    halves     \* history: sessions only one end completed, since the last
               \* that both did

history == <<shared, halves>>
vars    == <<session, lower, chan, link, cache, lost, history>>

Other(p) == CHOOSE q \in Peers : q # p

-----------------------------------------------------------------------------
\* A retained secret is known by the session it was derived in.
None    == 0
Secrets == 0..MaxSessions

Messages == {"Hello", "HelloACK", "Commit", "DHPart1", "DHPart2",
             "Confirm1", "Confirm2", "Conf2ACK"}

\* "off" before bzrtp_startChannelEngine, "gone" once the context is destroyed.
ChannelStates ==
    {"off", "init", "waitingForHello", "waitingForHelloAck", "sendingCommit",
     "responderSendingDHPart1", "initiatorSendingDHPart2",
     "responderSendingConfirm1", "initiatorSendingConfirm2", "secure", "gone"}

\* The secrets an end has for s1, and the s0 it computed: a hash over s1, the
\* result of Diffie-Hellman, the messages and both ZIDs in the order of roles.
Pair  == [rs1 : Secrets, rs2 : Secrets]
Empty == [rs1 |-> None, rs2 |-> None]
S0    == [s1 : Secrets, initiator : Peers]

\* secrets is cachedSecret, offered the secrets whose hashes DHPart carries; s0
\* is empty until it is computed; srtp says which keys the application has.
ChannelContext ==
    [state : ChannelStates, timer : BOOLEAN, reset : BOOLEAN,
     firings : -1..(HelloMax + MessageMax + 1),
     role : {"initiator", "responder"}, secrets : Pair, offered : Pair,
     mismatch : BOOLEAN, s0 : SUBSET S0, srtp : SUBSET {"receiver", "sender"}]

TypeOK ==
    /\ session \in 1..MaxSessions
    /\ lower \in Peers
    /\ chan \in [Peers -> ChannelContext]
    /\ link \in [Peers -> Seq(Messages)]
    /\ cache \in [Peers -> Pair]
    /\ lost \in 0..MaxLosses
    /\ shared \in BOOLEAN
    /\ halves \in 0..MaxSessions

\* bzrtp_initChannelContext
NewChannel ==
    [state |-> "off", timer |-> FALSE, reset |-> FALSE, firings |-> 0,
     role |-> "initiator", secrets |-> Empty, offered |-> Empty,
     mismatch |-> FALSE, s0 |-> {}, srtp |-> {}]

Init ==
    /\ session = 1
    /\ lower \in Peers
    /\ chan = [p \in Peers |-> NewChannel]
    /\ link = [p \in Peers |-> <<>>]
    /\ cache = [p \in Peers |-> Empty]
    /\ lost = 0
    /\ shared = FALSE /\ halves = 0

-----------------------------------------------------------------------------
(***************************************************************************)
(* The pieces of the handlers, from a channel context to a channel context.*)
(***************************************************************************)
\* The timer of a state is started with the state, or stopped.
TimerOn(c)  == [c EXCEPT !.timer = TRUE, !.firings = 0]
TimerOff(c) == [c EXCEPT !.timer = FALSE]

Goes(c, state) == [c EXCEPT !.state = state]

\* bzrtp_responseToHelloMessage: the secrets are read from the cache, and the
\* DHPart packet that offers them is built.
ResponseToHello(c, p) == [c EXCEPT !.secrets = cache[p], !.offered = cache[p]]

\* state_keyAgreement_sendingCommit, DHPart1: the initiator looks for its rs1,
\* then for its rs2, among the two of the responder.  A hash of no secret is
\* random and matches nothing.
InitiatorChecks(c, offer) ==
    LET Matches(s) == s \in {offer.rs1, offer.rs2} \ {None}
        rs1  == c.secrets.rs1
        rs2  == c.secrets.rs2
        miss == rs1 # None /\ ~Matches(rs1)
    IN  [c EXCEPT
            !.secrets = [rs1 |-> IF miss THEN None ELSE rs1,
                         rs2 |-> IF miss /\ ~Matches(rs2) THEN None ELSE rs2],
            !.mismatch = miss /\ ~Matches(rs2)]

\* Mutant: the responder keeps its rs1 when it is its rs2 that matched.
ResponderKeepsRs1(c, offer) ==
    LET mine == {c.secrets.rs1, c.secrets.rs2} \ {None}
    IN  IF c.secrets.rs1 = None \/ mine \cap {offer.rs1, offer.rs2} # {} THEN c
        ELSE [c EXCEPT !.secrets = Empty, !.mismatch = TRUE]

\* state_keyAgreement_responderSendingDHPart1, DHPart2: the responder looks
\* for the initiator's rs1, then for its rs2, among its own two.
ResponderChecks(c, offer) ==
    LET Equal(s, o) == s # None /\ s = o
        rs1 == c.secrets.rs1
        rs2 == c.secrets.rs2
        Older == [c EXCEPT !.secrets.rs1 = None]
    IN  IF rs1 = None \/ Equal(rs1, offer.rs1) THEN c
        ELSE IF Equal(rs2, offer.rs1) THEN Older
        ELSE IF Equal(rs1, offer.rs2) THEN c
        ELSE IF Equal(rs2, offer.rs2) THEN Older
        ELSE [c EXCEPT !.secrets = Empty, !.mismatch = TRUE]

\* bzrtp_computeS0DHMMode
ComputeS0(c, p) ==
    [c EXCEPT !.s0 =
        {[s1 |-> IF c.secrets.rs1 # None THEN c.secrets.rs1 ELSE c.secrets.rs2,
          initiator |-> IF c.role = "initiator" THEN p ELSE Other(p)]}]

\* Mutant: the older secret is not retained.
RetainedNewestOnly(c, p) ==
    IF c.mismatch THEN cache[p] ELSE [rs1 |-> session, rs2 |-> None]

\* bzrtp_updateCachedSecrets: put off while a cache mismatch is not confirmed.
Retained(c, p) ==
    IF c.mismatch THEN cache[p] ELSE [rs1 |-> session, rs2 |-> c.secrets.rs1]

\* What the context keeps of them afterwards.
Forgotten(c) == IF c.mismatch THEN c ELSE [c EXCEPT !.secrets = Empty]

\* bzrtp_srtpSecretsAvailable
Given(c, part) == [c EXCEPT !.srtp = @ \cup {part}]

-----------------------------------------------------------------------------
(***************************************************************************)
(* Reception.  packetCheck drops what is not newer than the last packet    *)
(* that was accepted: accepting the k-th under way discards those before   *)
(* it.  A packet that is not expected changes nothing, not even that.      *)
(***************************************************************************)
Incoming(p) == link[Other(p)]

At(p, state) == chan[p].state = state

\* Bound: one copy of a packet is under way at a time.  A newer one stands for
\* the older, and a timer waits.
Without(l, m) ==
    IF \E i \in DOMAIN l : l[i] = m
    THEN RemoveAt(l, CHOOSE i \in DOMAIN l : l[i] = m)
    ELSE l

Put(l, m) == Append(Without(l, m), m)

Accept(p, k, c, sent) ==
    /\ chan' = [chan EXCEPT ![p] = c]
    /\ link' = [link EXCEPT ![Other(p)] = SubSeq(@, k + 1, Len(@)), ![p] = sent]
    /\ UNCHANGED <<session, lower, lost, history>>

Receive(p, k, m) == k \in DOMAIN Incoming(p) /\ Incoming(p)[k] = m

\* Mutant: the timer stopped by the HelloACK is not started for the Commit.
ToSendingCommitUntimed(c) == TimerOff(Goes(c, "sendingCommit"))

\* state_keyAgreement_sendingCommit, INIT
ToSendingCommit(c) == TimerOn(Goes(c, "sendingCommit"))

\* The first Hello: in state_discovery_init the HelloACK is still to come, in
\* state_discovery_waitingForHello it came before.
RecvHello(p, k) ==
    LET c == ResponseToHello(chan[p], p)
    IN  /\ Receive(p, k, "Hello")
        /\ \/ /\ At(p, "init")
              /\ Accept(p, k, TimerOn(Goes(c, "waitingForHelloAck")),
                        Put(link[p], "HelloACK"))
           \/ /\ At(p, "waitingForHello")
              /\ Accept(p, k, ToSendingCommit(c),
                        Put(Put(link[p], "HelloACK"), "Commit"))
        /\ UNCHANGED cache

RecvHelloAgain(p, k) ==
    /\ Receive(p, k, "Hello") /\ At(p, "waitingForHelloAck")
    /\ Accept(p, k, chan[p], Put(link[p], "HelloACK"))
    /\ UNCHANGED cache

RecvHelloACK(p, k) ==
    /\ Receive(p, k, "HelloACK")
    /\ \/ /\ At(p, "init")
          /\ Accept(p, k, TimerOff(Goes(chan[p], "waitingForHello")), link[p])
       \/ /\ At(p, "waitingForHelloAck")
          /\ Accept(p, k, ToSendingCommit(chan[p]), Put(link[p], "Commit"))
    /\ UNCHANGED cache

\* Mutant: an end that sent a Commit gives in to the other's, whatever the hvi.
RecvCommitAlwaysYields(p, k) ==
    LET responder ==
            [TimerOff(Goes(chan[p], "responderSendingDHPart1"))
                EXCEPT !.role = "responder"]
    IN  /\ Receive(p, k, "Commit")
        /\ At(p, "waitingForHelloAck") \/ At(p, "sendingCommit")
        /\ Accept(p, k, responder, Put(link[p], "DHPart1"))
        /\ UNCHANGED cache

\* bzrtp_turnIntoResponder, with the INIT of the next state.  An end that sent
\* a Commit of its own gives in if that has the lower hvi, else it ignores the
\* other.
RecvCommit(p, k) ==
    LET responder ==
            [TimerOff(Goes(chan[p], "responderSendingDHPart1"))
                EXCEPT !.role = "responder"]
    IN  /\ Receive(p, k, "Commit")
        /\ \/ /\ \/ At(p, "waitingForHelloAck")
                 \/ At(p, "sendingCommit") /\ lower = p
              /\ Accept(p, k, responder, Put(link[p], "DHPart1"))
           \/ /\ At(p, "sendingCommit") /\ lower # p
              /\ Accept(p, k, chan[p], link[p])
        /\ UNCHANGED cache

RecvCommitAgain(p, k) ==
    /\ Receive(p, k, "Commit") /\ At(p, "responderSendingDHPart1")
    /\ Accept(p, k, chan[p], Put(link[p], "DHPart1"))
    /\ UNCHANGED cache

RecvDHPart1(p, k) ==
    LET c == ComputeS0(InitiatorChecks(chan[p], chan[Other(p)].offered), p)
    IN  /\ Receive(p, k, "DHPart1")
        /\ \/ /\ At(p, "sendingCommit")
              /\ Accept(p, k, TimerOn(Goes(c, "initiatorSendingDHPart2")),
                        Put(link[p], "DHPart2"))
           \/ /\ At(p, "initiatorSendingDHPart2")
              /\ Accept(p, k, chan[p], link[p])
        /\ UNCHANGED cache

RecvDHPart2(p, k) ==
    LET c == ComputeS0(ResponderChecks(chan[p], chan[Other(p)].offered), p)
    IN  /\ Receive(p, k, "DHPart2")
        /\ \/ /\ At(p, "responderSendingDHPart1")
              /\ Accept(p, k, Goes(c, "responderSendingConfirm1"),
                        Put(link[p], "Confirm1"))
           \/ /\ At(p, "responderSendingConfirm1")
              /\ Accept(p, k, chan[p], Put(link[p], "Confirm1"))
        /\ UNCHANGED cache

\* The MAC of a Confirm is made with keys derived from s0: the parser refuses
\* one of a sender with another s0.
Authentic(p) == chan[p].s0 # {} /\ chan[p].s0 = chan[Other(p)].s0

\* Mutant: the initiator has both keys from Confirm1 on.
RecvConfirm1BothKeys(p, k) ==
    /\ Receive(p, k, "Confirm1")
    /\ \/ /\ At(p, "initiatorSendingDHPart2") /\ Authentic(p)
          /\ Accept(p, k,
                    [TimerOn(Goes(chan[p], "initiatorSendingConfirm2"))
                        EXCEPT !.srtp = {"receiver", "sender"}],
                    Put(link[p], "Confirm2"))
       \/ /\ At(p, "initiatorSendingConfirm2")
          /\ Accept(p, k, chan[p], link[p])
    /\ UNCHANGED cache

RecvConfirm1(p, k) ==
    /\ Receive(p, k, "Confirm1")
    /\ \/ /\ At(p, "initiatorSendingDHPart2") /\ Authentic(p)
          /\ Accept(p, k,
                    Given(TimerOn(Goes(chan[p], "initiatorSendingConfirm2")),
                          "receiver"),
                    Put(link[p], "Confirm2"))
       \/ /\ At(p, "initiatorSendingConfirm2")
          /\ Accept(p, k, chan[p], link[p])
    /\ UNCHANGED cache

RecvConfirm2(p, k) ==
    LET c == Given(Given(Forgotten(chan[p]), "receiver"), "sender")
    IN  /\ Receive(p, k, "Confirm2")
        /\ \/ /\ At(p, "responderSendingConfirm1") /\ Authentic(p)
              /\ Accept(p, k, Goes(c, "secure"), Put(link[p], "Conf2ACK"))
              /\ cache' = [cache EXCEPT ![p] = Retained(chan[p], p)]
           \/ /\ At(p, "secure") /\ chan[p].role = "responder"
              /\ Accept(p, k, chan[p], Put(link[p], "Conf2ACK"))
              /\ UNCHANGED cache

RecvConf2ACK(p, k) ==
    /\ Receive(p, k, "Conf2ACK") /\ At(p, "initiatorSendingConfirm2")
    /\ Accept(p, k,
              Given(TimerOff(Goes(Forgotten(chan[p]), "secure")), "sender"),
              link[p])
    /\ cache' = [cache EXCEPT ![p] = Retained(chan[p], p)]

Recv(p, k) ==
    \/ RecvHello(p, k)    \/ RecvHelloAgain(p, k)  \/ RecvHelloACK(p, k)
    \/ RecvCommit(p, k)   \/ RecvCommitAgain(p, k)
    \/ RecvDHPart1(p, k)  \/ RecvDHPart2(p, k)
    \/ RecvConfirm1(p, k) \/ RecvConfirm2(p, k)    \/ RecvConf2ACK(p, k)

\* What each state reads.
Expected(p, m) ==
    LET both == [init                     |-> {"Hello", "HelloACK"},
                 waitingForHello          |-> {"Hello"},
                 waitingForHelloAck       |-> {"Hello", "HelloACK", "Commit"},
                 sendingCommit            |-> {"Commit", "DHPart1"},
                 responderSendingDHPart1  |-> {"Commit", "DHPart2"},
                 initiatorSendingDHPart2  |-> {"DHPart1", "Confirm1"},
                 responderSendingConfirm1 |-> {"DHPart2", "Confirm2"},
                 initiatorSendingConfirm2 |-> {"Confirm1", "Conf2ACK"},
                 secure                   |-> IF chan[p].role = "responder"
                                              THEN {"Confirm2"} ELSE {},
                 off                      |-> Messages,
                 gone                     |-> {}]
    IN  /\ m \in both[chan[p].state]
        /\ m \in {"Confirm1", "Confirm2"} /\ ~At(p, "off") => Authentic(p)

Unexpected(p, k) ==
    /\ k \in DOMAIN Incoming(p) /\ ~Expected(p, Incoming(p)[k])
    /\ link' = [link EXCEPT ![Other(p)] = RemoveAt(@, k)]
    /\ UNCHANGED <<session, lower, chan, cache, lost, history>>

-----------------------------------------------------------------------------
(***************************************************************************)
(* Timers and the application.                                             *)
(***************************************************************************)
\* bzrtp_startChannelEngine, called when the media starts or by the first
\* packet that comes.
Start(p) ==
    /\ At(p, "off")
    /\ chan' = [chan EXCEPT ![p] = TimerOn(Goes(@, "init"))]
    /\ UNCHANGED <<session, lower, link, cache, lost, history>>

\* What a state sends again.
Repeated(state) ==
    CASE state \in {"init", "waitingForHelloAck"} -> "Hello"
      [] state = "sendingCommit"                  -> "Commit"
      [] state = "initiatorSendingDHPart2"        -> "DHPart2"
      [] state = "initiatorSendingConfirm2"       -> "Confirm2"

\* Mutant: the retransmissions are not counted.
TimerForEver(p) ==
    /\ chan[p].timer /\ chan[p].state # "waitingForHello"
    /\ Repeated(chan[p].state) \notin ToSet(link[p])
    /\ chan' = [chan EXCEPT ![p].firings = @ + 1]
    /\ link' = [link EXCEPT ![p] = Append(@, Repeated(chan[p].state))]
    /\ UNCHANGED <<session, lower, cache, lost, history>>

\* bzrtp_iterate: the last of the retransmissions stops the timer.  It does
\* nothing in state_discovery_waitingForHello.
MaxFirings(state) ==
    IF state \in {"init", "waitingForHello", "waitingForHelloAck"}
    THEN HelloMax ELSE MessageMax

Timer(p) ==
    LET c == chan[p]
    IN  /\ c.timer /\ c.state # "waitingForHello"
        /\ Repeated(c.state) \notin ToSet(link[p])
        /\ chan' = [chan EXCEPT
                        ![p].firings = @ + 1,
                        ![p].timer = c.firings + 1 <= MaxFirings(c.state)]
        /\ link' = [link EXCEPT ![p] = Append(@, Repeated(c.state))]
        /\ UNCHANGED <<session, lower, cache, lost, history>>

\* bzrtp_resetRetransmissionTimer, when ICE has found a path.  Bound: once in a
\* session, and when the timer has stopped; else it only gives retransmissions.
ResetTimer(p) ==
    /\ chan[p].state \notin {"off", "gone", "secure"}
    /\ chan[p].role = "initiator" /\ ~chan[p].timer
    /\ ~chan[p].reset
    /\ chan' = [chan EXCEPT ![p].reset = TRUE, ![p].timer = TRUE,
                            ![p].firings = -1]
    /\ UNCHANGED <<session, lower, link, cache, lost, history>>

\* bzrtp_SASVerified: the user compared the SAS after a cache mismatch.
SASVerified(p) ==
    LET c == [chan[p] EXCEPT !.mismatch = FALSE]
    IN  /\ At(p, "secure") /\ chan[p].mismatch
        /\ chan' = [chan EXCEPT ![p] = Forgotten(c)]
        /\ cache' = [cache EXCEPT ![p] = Retained(c, p)]
        /\ UNCHANGED <<session, lower, link, lost, history>>

\* bzrtp_destroyBzrtpContext: the call, or this end's application, ends.  The
\* rest of the record is kept for what is still under way.
Destroy(p) ==
    /\ chan[p].state # "gone"
    /\ chan' = [chan EXCEPT ![p] = TimerOff(Goes(@, "gone"))]
    /\ UNCHANGED <<session, lower, link, cache, lost, history>>

\* Another call between the two, with other ports.
NextSession ==
    LET updated == {p \in Peers : cache[p].rs1 = session}
    IN  /\ \A p \in Peers : At(p, "gone")
        /\ session < MaxSessions
        /\ session' = session + 1
        /\ lower' \in Peers
        /\ chan' = [p \in Peers |-> NewChannel]
        /\ link' = [p \in Peers |-> <<>>]
        /\ lost' = 0
        /\ shared' = (shared \/ updated = Peers)
        /\ halves' = IF updated = Peers THEN 0
                     ELSE IF updated = {} THEN halves ELSE halves + 1
        /\ UNCHANGED cache

\* The network loses a packet.
Lose(p, k) ==
    /\ k \in DOMAIN link[p]
    /\ lost < MaxLosses
    /\ lost' = lost + 1
    /\ link' = [link EXCEPT ![p] = RemoveAt(@, k)]
    /\ UNCHANGED <<session, lower, chan, cache, history>>

-----------------------------------------------------------------------------
Reads(p) == \E k \in DOMAIN Incoming(p) : Recv(p, k) \/ Unexpected(p, k)

Next ==
    \/ \E p \in Peers :
          \/ Reads(p) \/ Start(p) \/ Timer(p) \/ ResetTimer(p)
          \/ SASVerified(p) \/ Destroy(p)
          \/ \E k \in DOMAIN link[p] : Lose(p, k)
    \/ NextSession

Spec == Init /\ [][Next]_vars

-----------------------------------------------------------------------------
(***************************************************************************)
(* Properties.                                                             *)
(***************************************************************************)
\* The ends that went past sendingCommit.
Settled(p) == chan[p].state \in
    {"responderSendingDHPart1", "initiatorSendingDHPart2",
     "responderSendingConfirm1", "initiatorSendingConfirm2", "secure"}

\* Two ends past state_keyAgreement_sendingCommit have different roles: whether
\* the Commits crossed, came late or came again, the contention gives one
\* initiator and one responder (stateMachine.c:606).
RoleAgreement ==
    \A p \in Peers : Settled(p) /\ Settled(Other(p))
        => chan[p].role # chan[Other(p)].role

\* Both ends that computed s0 have the same: each compares its own two secrets
\* with the two hashes of the other, in an order of its own, and both pick the
\* same for s1, whichever updates of the caches earlier sessions missed
\* (stateMachine.c:485 and 785, bzrtp_computeS0DHMMode).
SameS0 ==
    \A p \in Peers : chan[p].s0 # {} /\ chan[Other(p)].s0 # {}
        => chan[p].s0 = chan[Other(p)].s0

\* An end that may send media with the keys has another that can decrypt it:
\* the order in which bzrtp_srtpSecretsAvailable is called at Confirm1,
\* Confirm2 and Conf2ACK (stateMachine.c:1247, 1270, 1347 and 1418).
SenderNeedsReceiver ==
    \A p \in Peers : "sender" \in chan[p].srtp
        => "receiver" \in chan[Other(p)].srtp

\* A cache mismatch, which warns of an intruder, is reported only after an
\* update of the cache was missed by one end: one is enough when no session
\* was completed before, else the second secret of the cache makes up for it
\* and it takes two in a row (stateMachine.c:551 and bzrtp_updateCachedSecrets).
MismatchTakesTwo ==
    \A p \in Peers : chan[p].mismatch => halves >= IF shared THEN 2 ELSE 1

\* The session does not come to rest before both ends are secure, unless one
\* used up its retransmissions: in every state that waits for a packet some
\* timer is on, of this end or of the other (bzrtp_iterate; the responder and
\* state_discovery_waitingForHello have none).
NoStuckSession ==
    LET Exhausted(p) == chan[p].firings > MaxFirings(chan[p].state)
    IN  (\A p \in Peers : /\ ~At(p, "off") /\ ~At(p, "gone")
                          /\ link[p] = <<>>
                          /\ ~chan[p].timer \/ At(p, "waitingForHello"))
        => \/ \A p \in Peers : At(p, "secure")
           \/ \E p \in Peers : Exhausted(p)
=============================================================================
