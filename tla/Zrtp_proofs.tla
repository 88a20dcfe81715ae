---------------------------- MODULE Zrtp_proofs ----------------------------
(***************************************************************************)
(* What the key agreement of two ends keeps, for every number of sessions, *)
(* losses and retransmissions.                                             *)
(***************************************************************************)
EXTENDS Zrtp, SequenceTheorems, TLAPS

-----------------------------------------------------------------------------
\* The invariant, by parts: the types with what bounds the counters, ...
Timed ==
    {"init", "waitingForHello", "waitingForHelloAck", "sendingCommit",
     "initiatorSendingDHPart2", "initiatorSendingConfirm2"}

Counted(c) == c.timer => c.firings <= MaxFirings(c.state) /\ c.state \in Timed

CountInv ==
    /\ TypeOK
    /\ \A p \in Peers : Counted(chan[p])
    /\ halves < session

\* ... who is initiator and who responder, known from the state, from the
\* other end and from what is under way, ...
Early == {"off", "init", "waitingForHello", "waitingForHelloAck"}

RoleInv ==
    \A p \in Peers :
        /\ At(p, "sendingCommit") \/ chan[p].state \in Early
              => chan[p].role = "initiator"
        /\ chan[p].state \in {"responderSendingDHPart1", "responderSendingConfirm1"}
              => chan[p].role = "responder"
        /\ chan[p].state \in {"initiatorSendingDHPart2", "initiatorSendingConfirm2"}
              => chan[p].role = "initiator"
        /\ chan[p].role = "responder"
              => /\ chan[Other(p)].role = "initiator"
                 /\ chan[Other(p)].state \notin Early
        /\ Settled(p) /\ chan[p].role = "initiator"
              => chan[Other(p)].role = "responder"
        /\ "Commit" \in ToSet(link[p])
              => /\ chan[p].state \notin Early
                 /\ chan[p].role = "responder" => lower = p
        /\ "DHPart1" \in ToSet(link[p]) => chan[p].role = "responder"

\* ... and who can decrypt.
KeyInv ==
    \A p \in Peers :
        /\ chan[p].state \in {"initiatorSendingConfirm2", "secure"}
              => "receiver" \in chan[p].srtp
        /\ "Confirm2" \in ToSet(link[p]) \/ "Conf2ACK" \in ToSet(link[p])
              => "receiver" \in chan[p].srtp
        /\ "sender" \in chan[p].srtp => "receiver" \in chan[Other(p)].srtp

ZrtpInv == CountInv /\ RoleInv /\ KeyInv

-----------------------------------------------------------------------------
\* There are two ends.
LEMMA TwoEnds ==
    ASSUME NEW p \in Peers
    PROVE  /\ Other(p) \in Peers /\ Other(p) # p /\ Other(Other(p)) = p
           /\ \A q \in Peers : q = p \/ q = Other(p)
BY ZrtpAssumption DEF Other

\* What a link contains after a packet was read from it: nothing new.
LEMMA ReadLink ==
    ASSUME NEW l \in Seq(Messages), NEW k \in DOMAIN l
    PROVE  /\ SubSeq(l, k + 1, Len(l)) \in Seq(Messages)
           /\ ToSet(SubSeq(l, k + 1, Len(l))) \subseteq ToSet(l)
BY SubSeqProperties DEF ToSet

LEMMA RemovedFromLink ==
    ASSUME NEW l \in Seq(Messages), NEW k \in DOMAIN l
    PROVE  /\ RemoveAt(l, k) \in Seq(Messages)
           /\ ToSet(RemoveAt(l, k)) \subseteq ToSet(l)
<1> DEFINE a == SubSeq(l, 1, k - 1)
           b == SubSeq(l, k + 1, Len(l))
<1>1. /\ a \in Seq(Messages) /\ Len(a) = k - 1
      /\ \A i \in 1..Len(a) : a[i] = l[i]
  BY SubSeqProperties
<1>2. /\ b \in Seq(Messages) /\ Len(b) = Len(l) - k
      /\ \A i \in 1..Len(b) : b[i] = l[k + i]
  BY SubSeqProperties
<1>3. RemoveAt(l, k) = a \o b
  BY DEF RemoveAt
<1> HIDE DEF a, b
<1>4. /\ a \o b \in Seq(Messages)
      /\ \A i \in DOMAIN (a \o b) :
            (a \o b)[i] = IF i <= k - 1 THEN l[i] ELSE l[i + 1]
  BY <1>1, <1>2, ConcatProperties
<1>5. \A i \in DOMAIN (a \o b) :
         i \in DOMAIN l /\ (~(i <= k - 1) => i + 1 \in DOMAIN l)
  BY <1>1, <1>2, ConcatProperties
<1>6. \A i \in DOMAIN (a \o b) : i <= k - 1 => (a \o b)[i] \in ToSet(l)
  BY <1>4, <1>5 DEF ToSet
<1>7. \A i \in DOMAIN (a \o b) : ~(i <= k - 1) => (a \o b)[i] \in ToSet(l)
  BY <1>4, <1>5 DEF ToSet
<1> QED BY <1>3, <1>4, <1>6, <1>7 DEF ToSet

\* What a link contains after a packet was sent over it: that packet more.
LEMMA SentOverLink ==
    ASSUME NEW l \in Seq(Messages), NEW m \in Messages
    PROVE  /\ Put(l, m) \in Seq(Messages)
           /\ ToSet(Put(l, m)) \subseteq ToSet(l) \cup {m}
           /\ Append(l, m) \in Seq(Messages)
           /\ ToSet(Append(l, m)) \subseteq ToSet(l) \cup {m}
<1>1. \A s \in Seq(Messages) : /\ Append(s, m) \in Seq(Messages)
                               /\ ToSet(Append(s, m)) \subseteq ToSet(s) \cup {m}
  BY AppendProperties DEF ToSet
<1>2. /\ Without(l, m) \in Seq(Messages)
      /\ ToSet(Without(l, m)) \subseteq ToSet(l)
  BY RemovedFromLink DEF Without
<1> QED BY <1>1, <1>2 DEF Put

\* The operations on secrets leave the control of a channel alone.
SameControl(c, d) ==
    /\ d.state = c.state /\ d.timer = c.timer /\ d.firings = c.firings
    /\ d.role = c.role /\ d.srtp = c.srtp

LEMMA SecretsOnly ==
    ASSUME TypeOK, NEW c \in ChannelContext, NEW o \in Pair, NEW p \in Peers
    PROVE  /\ \A d \in {ResponseToHello(c, p), InitiatorChecks(c, o),
                        ResponderChecks(c, o), ComputeS0(c, p), Forgotten(c)} :
                 d \in ChannelContext /\ SameControl(c, d)
           /\ Retained(c, p) \in Pair
<1> USE DEF ChannelContext, SameControl, Pair
<1>1. None \in Secrets /\ session \in Secrets /\ cache[p] \in Pair
  BY ZrtpAssumption DEF None, Secrets, TypeOK
<1>2. Empty \in Pair
  BY <1>1 DEF Empty
<1>3. ResponseToHello(c, p) \in ChannelContext /\ SameControl(c, ResponseToHello(c, p))
  BY <1>1 DEF ResponseToHello
<1>4. InitiatorChecks(c, o) \in ChannelContext /\ SameControl(c, InitiatorChecks(c, o))
  BY <1>1 DEF InitiatorChecks
<1>5. ResponderChecks(c, o) \in ChannelContext /\ SameControl(c, ResponderChecks(c, o))
  BY <1>1, <1>2 DEF ResponderChecks
<1>6. ComputeS0(c, p) \in ChannelContext /\ SameControl(c, ComputeS0(c, p))
  BY TwoEnds DEF ComputeS0, S0
<1>7. Forgotten(c) \in ChannelContext /\ SameControl(c, Forgotten(c))
  BY <1>2 DEF Forgotten
<1>8. Retained(c, p) \in Pair
  BY <1>1 DEF Retained
<1> QED BY <1>3, <1>4, <1>5, <1>6, <1>7, <1>8

\* Entering a state, its timer and the keys for the application.
LEMMA ControlOnly ==
    ASSUME NEW c \in ChannelContext, NEW s \in ChannelStates,
           NEW part \in {"receiver", "sender"}
    PROVE  /\ Goes(c, s) = [c EXCEPT !.state = s] /\ Goes(c, s) \in ChannelContext
           /\ Given(c, part) = [c EXCEPT !.srtp = c.srtp \cup {part}]
           /\ Given(c, part) \in ChannelContext
           /\ TimerOn(c) = [c EXCEPT !.timer = TRUE, !.firings = 0]
           /\ TimerOn(c) \in ChannelContext
           /\ c.state \in Timed => Counted(TimerOn(c))
           /\ TimerOff(c) = [c EXCEPT !.timer = FALSE]
           /\ TimerOff(c) \in ChannelContext /\ Counted(TimerOff(c))
<1> USE DEF ChannelContext
<1>1. Goes(c, s) = [c EXCEPT !.state = s] /\ Goes(c, s) \in ChannelContext
  BY DEF Goes
<1>2. /\ Given(c, part) = [c EXCEPT !.srtp = c.srtp \cup {part}]
      /\ Given(c, part) \in ChannelContext
  BY DEF Given
<1>3. 0 \in -1..(HelloMax + MessageMax + 1) /\ 0 <= HelloMax /\ 0 <= MessageMax
  BY ZrtpAssumption
<1>4. /\ TimerOn(c) = [c EXCEPT !.timer = TRUE, !.firings = 0]
      /\ TimerOn(c) \in ChannelContext
  BY <1>3 DEF TimerOn
<1>5. c.state \in Timed => Counted(TimerOn(c))
  BY <1>3, <1>4 DEF Counted, MaxFirings
<1>6. /\ TimerOff(c) = [c EXCEPT !.timer = FALSE]
      /\ TimerOff(c) \in ChannelContext /\ Counted(TimerOff(c))
  BY DEF TimerOff, Counted
<1> QED BY <1>1, <1>2, <1>4, <1>5, <1>6

\* What an end that accepts a packet changes.
LEMMA Accepted ==
    ASSUME TypeOK, NEW p \in Peers, NEW k \in DOMAIN Incoming(p),
           NEW c \in ChannelContext, NEW sent \in Seq(Messages),
           NEW S \in SUBSET Messages, ToSet(sent) \subseteq ToSet(link[p]) \cup S,
           Accept(p, k, c, sent)
    PROVE  /\ chan' \in [Peers -> ChannelContext]
           /\ chan'[p] = c /\ chan'[Other(p)] = chan[Other(p)]
           /\ link' \in [Peers -> Seq(Messages)]
           /\ ToSet(link'[p]) \subseteq ToSet(link[p]) \cup S
           /\ ToSet(link'[Other(p)]) \subseteq ToSet(link[Other(p)])
           /\ UNCHANGED <<session, lower, lost, history>>
<1>1. Other(p) \in Peers /\ Other(p) # p
  BY TwoEnds
<1>2. link[Other(p)] \in Seq(Messages) /\ k \in DOMAIN link[Other(p)]
  BY <1>1 DEF TypeOK, Incoming
<1>3. link' = [link EXCEPT ![Other(p)] = SubSeq(@, k + 1, Len(@)), ![p] = sent]
  BY DEF Accept
<1>4. /\ link' \in [Peers -> Seq(Messages)]
      /\ link'[p] = sent
      /\ link'[Other(p)] = SubSeq(link[Other(p)], k + 1, Len(link[Other(p)]))
  BY <1>1, <1>2, <1>3, ReadLink DEF TypeOK
<1> QED BY <1>1, <1>2, <1>4, ReadLink DEF TypeOK, Accept

-----------------------------------------------------------------------------
\* When end p goes on to the context c and sends the packets S, the invariant
\* asks this of c, with what it had and what the other end has.
MayBecome(p, c, S) ==
    LET d == chan[p]
        o == chan[Other(p)]
    IN  /\ c.state = "sendingCommit" \/ c.state \in Early => c.role = "initiator"
        /\ c.state \in {"responderSendingDHPart1", "responderSendingConfirm1"}
              => c.role = "responder"
        /\ c.state \in {"initiatorSendingDHPart2", "initiatorSendingConfirm2"}
              => c.role = "initiator"
        /\ c.state \in Early => d.state \in Early
        /\ \/ c.role = d.role
           \/ /\ c.role = "responder" /\ o.role = "initiator" /\ o.state \notin Early
              /\ "Commit" \in ToSet(link[p]) => lower = p
        /\ c.role = "initiator"
              => \/ c.state \in Early \cup {"sendingCommit", "gone"}
                 \/ o.role = "responder"
        /\ "Commit" \in S => c.role = "initiator" /\ c.state \notin Early
        /\ "DHPart1" \in S => c.role = "responder"
        /\ d.srtp \subseteq c.srtp
        /\ c.state \in {"initiatorSendingConfirm2", "secure"}
              => "receiver" \in c.srtp
        /\ S \cap {"Confirm2", "Conf2ACK"} # {} => "receiver" \in c.srtp
        /\ "sender" \in c.srtp => "receiver" \in o.srtp

LEMMA EndStep ==
    ASSUME ZrtpInv, NEW p \in Peers, NEW c \in ChannelContext, Counted(c),
           NEW S, MayBecome(p, c, S),
           chan' \in [Peers -> ChannelContext],
           chan'[p] = c, chan'[Other(p)] = chan[Other(p)],
           link' \in [Peers -> Seq(Messages)],
           ToSet(link'[p]) \subseteq ToSet(link[p]) \cup S,
           ToSet(link'[Other(p)]) \subseteq ToSet(link[Other(p)]),
           cache' \in [Peers -> Pair], lost' \in 0..MaxLosses,
           UNCHANGED <<session, lower, history>>
    PROVE  ZrtpInv'
<1> DEFINE o == Other(p)
<1>1. /\ o \in Peers /\ o # p /\ Other(o) = p
      /\ \A q \in Peers : q = p \/ q = o
  BY TwoEnds
<1>2. CountInv'
  BY <1>1 DEF ZrtpInv, CountInv, TypeOK, Counted, MaxFirings, history
<1>3. RoleInv'
  <2> USE DEF RoleInv, At, Settled, MayBecome
  <2>1. lower' = lower
    OBVIOUS
  <2>2. c.role \in {"initiator", "responder"} /\ c.state \in ChannelStates
    BY DEF ChannelContext
  <2> QED BY <1>1, <2>1, <2>2 DEF ZrtpInv, ChannelStates, Early
<1>4. KeyInv'
  <2> DEFINE Keys(q) ==
               /\ chan[q].state \in {"initiatorSendingConfirm2", "secure"}
                     => "receiver" \in chan[q].srtp
               /\ "Confirm2" \in ToSet(link[q]) \/ "Conf2ACK" \in ToSet(link[q])
                     => "receiver" \in chan[q].srtp
               /\ "sender" \in chan[q].srtp => "receiver" \in chan[Other(q)].srtp
  <2>1. Keys(p) /\ Keys(o)
    BY <1>1 DEF ZrtpInv, KeyInv
  <2>2. Keys(p)'
    BY <1>1, <2>1 DEF MayBecome
  <2>3. Keys(o)'
    BY <1>1, <2>1 DEF MayBecome
  <2> QED BY <1>1, <2>2, <2>3 DEF KeyInv
<1> QED BY <1>2, <1>3, <1>4 DEF ZrtpInv
LEMMA ReceptionStep ==
    ASSUME ZrtpInv, NEW p \in Peers, NEW k \in DOMAIN Incoming(p),
           NEW c \in ChannelContext, Counted(c),
           NEW sent \in Seq(Messages), NEW S \in SUBSET Messages,
           ToSet(sent) \subseteq ToSet(link[p]) \cup S,
           MayBecome(p, c, S), Accept(p, k, c, sent),
           cache' \in [Peers -> Pair]
    PROVE  ZrtpInv'
<1>1. TypeOK
  BY DEF ZrtpInv, CountInv
<1>2. lost' \in 0..MaxLosses /\ UNCHANGED <<session, lower, history>>
  BY <1>1 DEF Accept, TypeOK
<1> HIDE DEF ZrtpInv
<1> QED BY <1>1, <1>2, Accepted, EndStep

\* What is known of an end and of what the other sent to it.
LEMMA EndFacts ==
    ASSUME ZrtpInv, NEW p \in Peers
    PROVE  /\ TypeOK /\ Other(p) \in Peers /\ Other(p) # p
           /\ chan[p] \in ChannelContext /\ chan[Other(p)] \in ChannelContext
           /\ Counted(chan[p]) /\ chan[p].state \in ChannelStates
           /\ chan[p].role \in {"initiator", "responder"}
           /\ link[p] \in Seq(Messages) /\ cache \in [Peers -> Pair]
           /\ MayBecome(p, chan[p], {})
           /\ chan[Other(p)].offered \in Pair
           /\ \A k \in DOMAIN Incoming(p) : Incoming(p)[k] \in ToSet(link[Other(p)])
<1>1. Other(p) \in Peers /\ Other(p) # p
  BY TwoEnds
<1>2. TypeOK /\ Counted(chan[p]) /\ RoleInv /\ KeyInv
  BY DEF ZrtpInv, CountInv
<1>3. /\ chan[p] \in ChannelContext /\ chan[Other(p)] \in ChannelContext
      /\ link[p] \in Seq(Messages) /\ cache \in [Peers -> Pair]
  BY <1>1, <1>2 DEF TypeOK
<1>4. /\ chan[p].state \in ChannelStates /\ chan[p].role \in {"initiator", "responder"}
      /\ chan[Other(p)].offered \in Pair
  BY <1>3 DEF ChannelContext
<1>5. MayBecome(p, chan[p], {})
  <2>1. \/ chan[p].role # "initiator"
        \/ chan[p].state \in Early \cup {"sendingCommit", "gone"}
        \/ chan[Other(p)].role = "responder"
    BY <1>2, <1>4 DEF RoleInv, Settled, ChannelStates, Early
  <2> QED BY <1>2, <2>1 DEF MayBecome, RoleInv, KeyInv, At
<1>6. \A k \in DOMAIN Incoming(p) : Incoming(p)[k] \in ToSet(link[Other(p)])
  BY DEF Incoming, ToSet
<1> QED BY <1>1, <1>2, <1>3, <1>4, <1>5, <1>6

\* The usual receptions: no answer, or one.
LEMMA SilentStep ==
    ASSUME ZrtpInv, NEW p \in Peers, NEW k \in DOMAIN Incoming(p),
           NEW c \in ChannelContext, Counted(c), MayBecome(p, c, {}),
           Accept(p, k, c, link[p]), cache' \in [Peers -> Pair]
    PROVE  ZrtpInv'
<1> link[p] \in Seq(Messages)
  BY EndFacts
<1> HIDE DEF ZrtpInv
<1> QED BY ReceptionStep

LEMMA AnswerStep ==
    ASSUME ZrtpInv, NEW p \in Peers, NEW k \in DOMAIN Incoming(p),
           NEW c \in ChannelContext, Counted(c),
           NEW m \in Messages, MayBecome(p, c, {m}),
           Accept(p, k, c, Put(link[p], m)), cache' \in [Peers -> Pair]
    PROVE  ZrtpInv'
<1>1. link[p] \in Seq(Messages)
  BY EndFacts
<1>2. /\ Put(link[p], m) \in Seq(Messages)
      /\ ToSet(Put(link[p], m)) \subseteq ToSet(link[p]) \cup {m}
  BY <1>1, SentOverLink
<1> HIDE DEF ZrtpInv
<1> QED BY <1>2, ReceptionStep

\* A state that is entered with its timer, or without one.
LEMMA Entered ==
    ASSUME NEW c \in ChannelContext, NEW s \in ChannelStates,
           NEW t, t = TimerOff(Goes(c, s)) \/ (t = TimerOn(Goes(c, s)) /\ s \in Timed)
    PROVE  /\ t \in ChannelContext /\ Counted(t)
           /\ t.state = s /\ t.role = c.role /\ t.srtp = c.srtp
<1>1. Goes(c, s) \in ChannelContext /\ Goes(c, s) = [c EXCEPT !.state = s]
  BY ControlOnly
<1>2. /\ Goes(c, s).state = s /\ Goes(c, s).role = c.role
      /\ Goes(c, s).srtp = c.srtp
  BY <1>1 DEF ChannelContext
<1>3. t \in ChannelContext /\ Counted(t)
  BY <1>1, <1>2, ControlOnly
<1>4. t.state = s /\ t.role = c.role /\ t.srtp = c.srtp
  BY <1>1, <1>2 DEF ChannelContext, TimerOn, TimerOff
<1> QED BY <1>3, <1>4

-----------------------------------------------------------------------------
\* Hello and HelloACK: nothing is decided yet.
LEMMA DiscoveryKeeps ==
    ASSUME ZrtpInv, NEW p \in Peers, NEW k \in DOMAIN Incoming(p),
           RecvHello(p, k) \/ RecvHelloAgain(p, k) \/ RecvHelloACK(p, k)
    PROVE  ZrtpInv'
<1> DEFINE d == chan[p]
           h == ResponseToHello(d, p)
           l == Put(link[p], "HelloACK")
<1>0. /\ "Hello" \in Messages /\ "HelloACK" \in Messages /\ "Commit" \in Messages
      /\ {"sendingCommit", "waitingForHello", "waitingForHelloAck"} \subseteq ChannelStates
  BY DEF Messages, ChannelStates
<1>1. /\ TypeOK /\ d \in ChannelContext /\ Counted(d)
      /\ link[p] \in Seq(Messages) /\ MayBecome(p, d, {})
  BY EndFacts
<1>2. h \in ChannelContext /\ SameControl(d, h)
  <2>1. Empty \in Pair
    BY ZrtpAssumption DEF Empty, Pair, Secrets, None
  <2> QED BY <1>1, <2>1, SecretsOnly
<1>3. cache' \in [Peers -> Pair]
  BY EndFacts DEF RecvHello, RecvHelloAgain, RecvHelloACK
<1> HIDE DEF h
<1>4. CASE RecvHello(p, k) /\ At(p, "init")
  <2> DEFINE c == TimerOn(Goes(h, "waitingForHelloAck"))
  <2>1. /\ c \in ChannelContext /\ Counted(c)
        /\ c.state = "waitingForHelloAck" /\ c.role = d.role /\ c.srtp = d.srtp
    BY <1>0, <1>2, Entered DEF SameControl, Timed
  <2>2. Accept(p, k, c, l)
    BY <1>4 DEF RecvHello, At, h
  <2> HIDE DEF c
  <2>3. MayBecome(p, c, {"HelloACK"})
    BY <1>1, <1>4, <2>1 DEF MayBecome, At, Early
  <2> QED BY <1>0, <1>3, <2>1, <2>2, <2>3, AnswerStep
<1>5. CASE RecvHello(p, k) /\ At(p, "waitingForHello")
  <2> DEFINE c == ToSendingCommit(h)
  <2>1. /\ c \in ChannelContext /\ Counted(c)
        /\ c.state = "sendingCommit" /\ c.role = d.role /\ c.srtp = d.srtp
    BY <1>0, <1>2, Entered DEF SameControl, ToSendingCommit, Timed
  <2>2. Accept(p, k, c, Put(l, "Commit"))
    BY <1>5 DEF RecvHello, At, h
  <2> HIDE DEF c
  <2>3. MayBecome(p, c, {"HelloACK", "Commit"})
    BY <1>1, <1>5, <2>1 DEF MayBecome, At, Early
  <2>4. l \in Seq(Messages) /\ ToSet(l) \subseteq ToSet(link[p]) \cup {"HelloACK"}
    BY <1>0, <1>1, SentOverLink
  <2> HIDE DEF l
  <2>5. Put(l, "Commit") \in Seq(Messages) /\ ToSet(Put(l, "Commit")) \subseteq ToSet(l) \cup {"Commit"}
    BY <1>0, <2>4, SentOverLink
  <2>6. ToSet(Put(l, "Commit")) \subseteq ToSet(link[p]) \cup {"HelloACK", "Commit"}
    BY <2>4, <2>5
  <2>7. {"HelloACK", "Commit"} \in SUBSET Messages
    BY <1>0
  <2> QED BY <1>3, <2>1, <2>2, <2>3, <2>5, <2>6, <2>7, ReceptionStep
<1>6. CASE RecvHelloAgain(p, k)
  <2>1. MayBecome(p, d, {"HelloACK"})
    BY <1>1 DEF MayBecome
  <2>2. Accept(p, k, d, l)
    BY <1>6 DEF RecvHelloAgain
  <2> QED BY <1>0, <1>1, <1>3, <2>1, <2>2, AnswerStep
<1>7. CASE RecvHelloACK(p, k) /\ At(p, "init")
  <2> DEFINE c == TimerOff(Goes(d, "waitingForHello"))
  <2>1. /\ c \in ChannelContext /\ Counted(c)
        /\ c.state = "waitingForHello" /\ c.role = d.role /\ c.srtp = d.srtp
    BY <1>0, <1>1, Entered DEF Timed
  <2>2. Accept(p, k, c, link[p])
    BY <1>7 DEF RecvHelloACK, At
  <2> HIDE DEF c
  <2>3. MayBecome(p, c, {})
    BY <1>1, <1>7, <2>1 DEF MayBecome, At, Early
  <2> QED BY <1>3, <2>1, <2>2, <2>3, SilentStep
<1>8. CASE RecvHelloACK(p, k) /\ At(p, "waitingForHelloAck")
  <2> DEFINE c == ToSendingCommit(d)
  <2>1. /\ c \in ChannelContext /\ Counted(c)
        /\ c.state = "sendingCommit" /\ c.role = d.role /\ c.srtp = d.srtp
    BY <1>0, <1>1, Entered DEF ToSendingCommit, Timed
  <2>2. Accept(p, k, c, Put(link[p], "Commit"))
    BY <1>8 DEF RecvHelloACK, At
  <2> HIDE DEF c
  <2>3. MayBecome(p, c, {"Commit"})
    BY <1>1, <1>8, <2>1 DEF MayBecome, At, Early
  <2> QED BY <1>0, <1>3, <2>1, <2>2, <2>3, AnswerStep
<1> QED BY <1>4, <1>5, <1>6, <1>7, <1>8 DEF RecvHello, RecvHelloACK

\* Commit: the contention makes one end the responder.  When p gives in, the
\* other end is the initiator: it sent a Commit, and of two ends that sent one
\* only that with the lower hvi becomes responder.
LEMMA CommitKeeps ==
    ASSUME ZrtpInv, NEW p \in Peers, NEW k \in DOMAIN Incoming(p),
           RecvCommit(p, k) \/ RecvCommitAgain(p, k)
    PROVE  ZrtpInv'
<1> DEFINE d == chan[p]
           o == chan[Other(p)]
           g == TimerOff(Goes(d, "responderSendingDHPart1"))
           c == [g EXCEPT !.role = "responder"]
<1>0. "DHPart1" \in Messages /\ "responderSendingDHPart1" \in ChannelStates
  BY DEF Messages, ChannelStates
<1>1. /\ d \in ChannelContext /\ Counted(d) /\ MayBecome(p, d, {})
      /\ "Commit" \in ToSet(link[Other(p)])
      /\ o.role \in {"initiator", "responder"}
  <2>1. Incoming(p)[k] = "Commit"
    BY DEF RecvCommit, RecvCommitAgain, Receive
  <2>2. Other(p) \in Peers
    BY TwoEnds
  <2> QED BY <2>1, <2>2, EndFacts
<1>2. cache' \in [Peers -> Pair]
  BY EndFacts DEF RecvCommit, RecvCommitAgain
<1>3. CASE /\ RecvCommit(p, k)
           /\ At(p, "waitingForHelloAck") \/ (At(p, "sendingCommit") /\ lower = p)
  <2>1. /\ g \in ChannelContext /\ Counted(g)
        /\ g.state = "responderSendingDHPart1" /\ g.srtp = d.srtp
    BY <1>0, <1>1, Entered DEF Timed
  <2>2. Accept(p, k, c, Put(link[p], "DHPart1"))
    BY <1>3 DEF RecvCommit, At
  <2> HIDE DEF g
  <2>3. /\ c \in ChannelContext /\ Counted(c)
        /\ c.state = g.state /\ c.role = "responder" /\ c.srtp = g.srtp
    BY <2>1 DEF ChannelContext, Counted
  <2> HIDE DEF c
  <2>4. o.role = "initiator" /\ o.state \notin Early
    BY <1>1, <1>3, TwoEnds DEF ZrtpInv, RoleInv, At, Early
  <2>5. "Commit" \in ToSet(link[p]) => lower = p
    BY <1>3 DEF ZrtpInv, RoleInv, At, Early
  <2>6. MayBecome(p, c, {"DHPart1"})
    BY <1>1, <1>3, <2>1, <2>3, <2>4, <2>5 DEF MayBecome, At, Early
  <2> QED BY <1>0, <1>2, <2>2, <2>3, <2>6, AnswerStep
<1>4. CASE RecvCommit(p, k) /\ At(p, "sendingCommit") /\ lower # p
  <2>1. Accept(p, k, d, link[p])
    BY <1>4 DEF RecvCommit, At
  <2> QED BY <1>1, <1>2, <2>1, SilentStep
<1>5. CASE RecvCommitAgain(p, k)
  <2>1. Accept(p, k, d, Put(link[p], "DHPart1")) /\ d.state = "responderSendingDHPart1"
    BY <1>5 DEF RecvCommitAgain, At
  <2>2. MayBecome(p, d, {"DHPart1"})
    BY <1>1, <2>1 DEF MayBecome
  <2> QED BY <1>0, <1>1, <1>2, <2>1, <2>2, AnswerStep
<1>6. RecvCommit(p, k) => At(p, "waitingForHelloAck") \/ At(p, "sendingCommit")
  BY DEF RecvCommit
<1> QED BY <1>3, <1>4, <1>5, <1>6

\* DHPart1 comes from a responder, so that who reads it is the initiator.
LEMMA DHPartKeeps ==
    ASSUME ZrtpInv, NEW p \in Peers, NEW k \in DOMAIN Incoming(p),
           RecvDHPart1(p, k) \/ RecvDHPart2(p, k)
    PROVE  ZrtpInv'
<1> DEFINE d == chan[p]
           i == ComputeS0(InitiatorChecks(d, chan[Other(p)].offered), p)
           r == ComputeS0(ResponderChecks(d, chan[Other(p)].offered), p)
<1>0. /\ "DHPart2" \in Messages /\ "Confirm1" \in Messages
      /\ {"initiatorSendingDHPart2", "responderSendingConfirm1"} \subseteq ChannelStates
  BY DEF Messages, ChannelStates
<1>1. /\ TypeOK /\ d \in ChannelContext /\ Counted(d) /\ MayBecome(p, d, {})
      /\ chan[Other(p)].offered \in Pair
      /\ Incoming(p)[k] \in ToSet(link[Other(p)])
  BY EndFacts
<1>2. cache' \in [Peers -> Pair]
  BY EndFacts DEF RecvDHPart1, RecvDHPart2
<1>3. /\ i \in ChannelContext /\ SameControl(d, i)
      /\ r \in ChannelContext /\ SameControl(d, r)
  <2> DEFINE a == InitiatorChecks(d, chan[Other(p)].offered)
             b == ResponderChecks(d, chan[Other(p)].offered)
  <2>1. /\ a \in ChannelContext /\ SameControl(d, a)
        /\ b \in ChannelContext /\ SameControl(d, b)
    BY <1>1, SecretsOnly
  <2> HIDE DEF a, b
  <2>2. /\ ComputeS0(a, p) \in ChannelContext /\ SameControl(a, ComputeS0(a, p))
        /\ ComputeS0(b, p) \in ChannelContext /\ SameControl(b, ComputeS0(b, p))
    BY <1>1, <2>1, SecretsOnly
  <2> QED BY <2>1, <2>2 DEF SameControl, a, b
<1>4. CASE RecvDHPart1(p, k) /\ At(p, "sendingCommit")
  <2> DEFINE c == TimerOn(Goes(i, "initiatorSendingDHPart2"))
  <2>1. Accept(p, k, c, Put(link[p], "DHPart2"))
    BY <1>4 DEF RecvDHPart1, At
  <2> HIDE DEF i
  <2>2. /\ c \in ChannelContext /\ Counted(c) /\ c.state = "initiatorSendingDHPart2"
        /\ c.role = d.role /\ c.srtp = d.srtp
    BY <1>0, <1>3, Entered DEF SameControl, Timed
  <2> HIDE DEF c
  <2>3. chan[Other(p)].role = "responder" /\ d.role = "initiator"
    BY <1>1, <1>4, TwoEnds DEF ZrtpInv, RoleInv, RecvDHPart1, Receive, At
  <2>4. MayBecome(p, c, {"DHPart2"})
    BY <1>1, <1>4, <2>2, <2>3 DEF MayBecome, Early
  <2> QED BY <1>0, <1>2, <2>1, <2>2, <2>4, AnswerStep
<1>5. CASE RecvDHPart1(p, k) /\ At(p, "initiatorSendingDHPart2")
  <2>1. Accept(p, k, d, link[p])
    BY <1>5 DEF RecvDHPart1, At
  <2> QED BY <1>1, <1>2, <2>1, SilentStep
<1>6. CASE RecvDHPart2(p, k) /\ At(p, "responderSendingDHPart1")
  <2> DEFINE c == Goes(r, "responderSendingConfirm1")
  <2>1. Accept(p, k, c, Put(link[p], "Confirm1"))
    BY <1>6 DEF RecvDHPart2, At
  <2> HIDE DEF r
  <2>2. c = [r EXCEPT !.state = "responderSendingConfirm1"] /\ c \in ChannelContext
    BY <1>0, <1>3, ControlOnly
  <2>3. /\ c.state = "responderSendingConfirm1"
        /\ c.role = r.role /\ c.srtp = r.srtp
        /\ c.timer = r.timer /\ c.firings = r.firings
    BY <1>3, <2>2 DEF ChannelContext
  <2> HIDE DEF c
  <2>4. Counted(c)
    BY <1>1, <1>3, <1>6, <2>3 DEF Counted, SameControl, MaxFirings, At, Timed
  <2>5. MayBecome(p, c, {"Confirm1"})
    BY <1>1, <1>3, <1>6, <2>3 DEF MayBecome, SameControl, At, Early, ZrtpInv, RoleInv
  <2> QED BY <1>0, <1>2, <2>1, <2>2, <2>4, <2>5, AnswerStep
<1>7. CASE RecvDHPart2(p, k) /\ At(p, "responderSendingConfirm1")
  <2>1. Accept(p, k, d, Put(link[p], "Confirm1"))
    BY <1>7 DEF RecvDHPart2, At
  <2>2. MayBecome(p, d, {"Confirm1"})
    BY <1>1 DEF MayBecome
  <2> QED BY <1>0, <1>1, <1>2, <2>1, <2>2, AnswerStep
<1> QED BY <1>4, <1>5, <1>6, <1>7 DEF RecvDHPart1, RecvDHPart2

\* Confirm1, Confirm2 and Conf2ACK: each is sent by an end that can decrypt.
LEMMA ConfirmKeeps ==
    ASSUME ZrtpInv, NEW p \in Peers, NEW k \in DOMAIN Incoming(p),
           RecvConfirm1(p, k) \/ RecvConfirm2(p, k) \/ RecvConf2ACK(p, k)
    PROVE  ZrtpInv'
<1> DEFINE d == chan[p]
           f == Forgotten(d)
<1>0. /\ "Confirm2" \in Messages /\ "Conf2ACK" \in Messages
      /\ {"initiatorSendingConfirm2", "secure"} \subseteq ChannelStates
  BY DEF Messages, ChannelStates
<1>1. /\ TypeOK /\ d \in ChannelContext /\ Counted(d) /\ MayBecome(p, d, {})
      /\ Incoming(p)[k] \in ToSet(link[Other(p)])
      /\ cache \in [Peers -> Pair]
  BY EndFacts
<1>2. f \in ChannelContext /\ SameControl(d, f) /\ Retained(d, p) \in Pair
  <2>1. Empty \in Pair
    BY ZrtpAssumption DEF Empty, Pair, Secrets, None
  <2> QED BY <1>1, <2>1, SecretsOnly
<1>3. cache' \in [Peers -> Pair]
  BY <1>1, <1>2 DEF RecvConfirm1, RecvConfirm2, RecvConf2ACK
<1> HIDE DEF f
<1>4. CASE RecvConfirm1(p, k) /\ At(p, "initiatorSendingDHPart2")
  <2> DEFINE t == TimerOn(Goes(d, "initiatorSendingConfirm2"))
             c == Given(t, "receiver")
  <2>1. Accept(p, k, c, Put(link[p], "Confirm2"))
    BY <1>4 DEF RecvConfirm1, At
  <2>2. /\ t \in ChannelContext /\ Counted(t) /\ t.state = "initiatorSendingConfirm2"
        /\ t.role = d.role /\ t.srtp = d.srtp
    BY <1>0, <1>1, Entered DEF Timed
  <2> HIDE DEF t
  <2>3. c = [t EXCEPT !.srtp = t.srtp \cup {"receiver"}] /\ c \in ChannelContext
    BY <1>0, <2>2, ControlOnly
  <2>4. /\ c.state = t.state /\ c.role = t.role /\ c.srtp = t.srtp \cup {"receiver"}
        /\ Counted(c)
    BY <2>2, <2>3 DEF ChannelContext, Counted
  <2> HIDE DEF c
  <2>5. MayBecome(p, c, {"Confirm2"})
    BY <1>1, <1>4, <2>2, <2>4 DEF MayBecome, At, Early
  <2> QED BY <1>0, <1>3, <2>1, <2>3, <2>4, <2>5, AnswerStep
<1>5. CASE RecvConfirm1(p, k) /\ At(p, "initiatorSendingConfirm2")
  <2>1. Accept(p, k, d, link[p])
    BY <1>5 DEF RecvConfirm1, At
  <2> QED BY <1>1, <1>3, <2>1, SilentStep
<1>6. CASE RecvConfirm2(p, k) /\ At(p, "responderSendingConfirm1")
  <2> DEFINE t == Given(f, "receiver")
             b == Given(t, "sender")
             c == Goes(b, "secure")
  <2>1. Accept(p, k, c, Put(link[p], "Conf2ACK"))
    BY <1>6 DEF RecvConfirm2, At, f
  <2>2. t = [f EXCEPT !.srtp = f.srtp \cup {"receiver"}] /\ t \in ChannelContext
    BY <1>0, <1>2, ControlOnly
  <2>3. b = [t EXCEPT !.srtp = t.srtp \cup {"sender"}] /\ b \in ChannelContext
    BY <1>0, <2>2, ControlOnly
  <2>4. c = [b EXCEPT !.state = "secure"] /\ c \in ChannelContext
    BY <1>0, <2>3, ControlOnly
  <2> HIDE DEF t, b, c
  <2>5. /\ c.state = "secure" /\ c.role = f.role
        /\ c.srtp = f.srtp \cup {"receiver", "sender"}
        /\ c.timer = f.timer /\ c.firings = f.firings
    BY <1>2, <2>2, <2>3, <2>4 DEF ChannelContext
  <2>6. Counted(c)
    BY <1>1, <1>2, <1>6, <2>5 DEF Counted, SameControl, MaxFirings, At, Timed
  <2>7. "receiver" \in chan[Other(p)].srtp /\ d.role = "responder"
    BY <1>1, <1>6, TwoEnds DEF RecvConfirm2, Receive, At, ZrtpInv, KeyInv, RoleInv
  <2>8. MayBecome(p, c, {"Conf2ACK"})
    BY <1>1, <1>2, <1>6, <2>5, <2>7 DEF MayBecome, SameControl, At, Early
  <2> QED BY <1>0, <1>3, <2>1, <2>4, <2>6, <2>8, AnswerStep
<1>7. CASE RecvConfirm2(p, k) /\ At(p, "secure")
  <2>1. Accept(p, k, d, Put(link[p], "Conf2ACK"))
    BY <1>7 DEF RecvConfirm2, At
  <2>2. MayBecome(p, d, {"Conf2ACK"})
    BY <1>1, <1>7 DEF MayBecome, At
  <2> QED BY <1>0, <1>1, <1>3, <2>1, <2>2, AnswerStep
<1>8. CASE RecvConf2ACK(p, k)
  <2> DEFINE t == TimerOff(Goes(f, "secure"))
             c == Given(t, "sender")
  <2>1. Accept(p, k, c, link[p])
    BY <1>8 DEF RecvConf2ACK, f
  <2>2. /\ t \in ChannelContext /\ Counted(t) /\ t.state = "secure"
        /\ t.role = f.role /\ t.srtp = f.srtp
    BY <1>0, <1>2, Entered DEF Timed
  <2> HIDE DEF t
  <2>3. c = [t EXCEPT !.srtp = t.srtp \cup {"sender"}] /\ c \in ChannelContext
    BY <1>0, <2>2, ControlOnly
  <2>4. /\ c.state = t.state /\ c.role = t.role /\ c.srtp = t.srtp \cup {"sender"}
        /\ Counted(c)
    BY <2>2, <2>3 DEF ChannelContext, Counted
  <2> HIDE DEF c
  <2>5. /\ "receiver" \in chan[Other(p)].srtp
        /\ d.state = "initiatorSendingConfirm2" /\ "receiver" \in d.srtp
    BY <1>1, <1>8, TwoEnds DEF RecvConf2ACK, Receive, At, ZrtpInv, KeyInv
  <2>6. MayBecome(p, c, {})
    BY <1>1, <1>2, <2>2, <2>4, <2>5 DEF MayBecome, SameControl, Early
  <2> QED BY <1>3, <2>1, <2>3, <2>4, <2>6, SilentStep
<1> QED BY <1>4, <1>5, <1>6, <1>7, <1>8 DEF RecvConfirm1, RecvConfirm2

-----------------------------------------------------------------------------
\* A step of one end that receives nothing.
LEMMA LocalKeeps ==
    ASSUME ZrtpInv, NEW p \in Peers,
           \/ Start(p) \/ Timer(p) \/ ResetTimer(p)
           \/ SASVerified(p) \/ Destroy(p)
    PROVE  ZrtpInv'
<1> DEFINE d == chan[p]
<1>0. {"init", "gone"} \subseteq ChannelStates
  BY DEF ChannelStates
<1>1. /\ TypeOK /\ d \in ChannelContext /\ Counted(d) /\ MayBecome(p, d, {})
      /\ Other(p) \in Peers /\ Other(p) # p /\ d.state \in ChannelStates
  BY EndFacts
<1>2. /\ chan \in [Peers -> ChannelContext] /\ link \in [Peers -> Seq(Messages)]
      /\ cache \in [Peers -> Pair] /\ lost \in 0..MaxLosses
  BY <1>1 DEF TypeOK
<1>3. ASSUME NEW c \in ChannelContext, Counted(c), MayBecome(p, c, {}),
             chan' = [chan EXCEPT ![p] = c], link' = link,
             cache' \in [Peers -> Pair], UNCHANGED <<session, lower, lost, history>>
      PROVE  ZrtpInv'
  <2>1. /\ chan' \in [Peers -> ChannelContext]
        /\ chan'[p] = c /\ chan'[Other(p)] = chan[Other(p)]
    BY <1>1, <1>2, <1>3
  <2>2. /\ lost' \in 0..MaxLosses /\ UNCHANGED <<session, lower, history>>
        /\ link' \in [Peers -> Seq(Messages)]
        /\ ToSet(link'[p]) \subseteq ToSet(link[p]) \cup {}
        /\ ToSet(link'[Other(p)]) \subseteq ToSet(link[Other(p)])
    BY <1>2, <1>3
  <2> HIDE DEF ZrtpInv
  <2> QED BY <1>3, <2>1, <2>2, EndStep
<1>4. CASE Start(p)
  <2> DEFINE c == TimerOn(Goes(d, "init"))
  <2>1. /\ c \in ChannelContext /\ Counted(c)
        /\ c.state = "init" /\ c.role = d.role /\ c.srtp = d.srtp
    BY <1>0, <1>1, Entered DEF Timed
  <2>2. chan' = [chan EXCEPT ![p] = c]
    BY <1>4 DEF Start
  <2> HIDE DEF c
  <2>3. MayBecome(p, c, {})
    BY <1>1, <1>4, <2>1 DEF MayBecome, Early, Start, At
  <2> QED BY <1>2, <1>3, <1>4, <2>1, <2>2, <2>3 DEF Start
<1>5. CASE Destroy(p)
  <2> DEFINE c == TimerOff(Goes(d, "gone"))
  <2>1. /\ c \in ChannelContext /\ Counted(c)
        /\ c.state = "gone" /\ c.role = d.role /\ c.srtp = d.srtp
    BY <1>0, <1>1, Entered DEF Timed
  <2>2. chan' = [chan EXCEPT ![p] = c]
    BY <1>5 DEF Destroy
  <2> HIDE DEF c
  <2>3. MayBecome(p, c, {})
    BY <1>1, <2>1 DEF MayBecome, Early
  <2> QED BY <1>2, <1>3, <1>5, <2>1, <2>2, <2>3 DEF Destroy
<1>6. CASE ResetTimer(p)
  <2> DEFINE c == [d EXCEPT !.reset = TRUE, !.timer = TRUE, !.firings = -1]
  <2>1. /\ -1 \in -1..(HelloMax + MessageMax + 1)
        /\ -1 <= HelloMax /\ -1 <= MessageMax
    BY ZrtpAssumption
  <2>2. /\ c \in ChannelContext
        /\ c.state = d.state /\ c.role = d.role /\ c.srtp = d.srtp /\ c.firings = -1
    BY <1>1, <2>1 DEF ChannelContext
  <2>3. chan' = [chan EXCEPT ![p] = c]
    BY <1>1, <1>2, <1>6 DEF ResetTimer
  <2> HIDE DEF c
  <2>4. Counted(c) /\ MayBecome(p, c, {})
    BY <1>1, <1>6, <2>1, <2>2
       DEF Counted, MaxFirings, MayBecome, ResetTimer, ChannelStates, Timed
  <2> QED BY <1>2, <1>3, <1>6, <2>2, <2>3, <2>4 DEF ResetTimer
<1>7. CASE SASVerified(p)
  <2> DEFINE s == [d EXCEPT !.mismatch = FALSE]
             c == Forgotten(s)
  <2>1. s \in ChannelContext /\ SameControl(d, s)
    BY <1>1 DEF ChannelContext, SameControl
  <2>2. chan' = [chan EXCEPT ![p] = c] /\ cache' = [cache EXCEPT ![p] = Retained(s, p)]
    BY <1>7 DEF SASVerified
  <2> HIDE DEF s
  <2>3. c \in ChannelContext /\ SameControl(s, c) /\ Retained(s, p) \in Pair
    <3>1. Empty \in Pair
      BY ZrtpAssumption DEF Empty, Pair, Secrets, None
    <3> QED BY <1>1, <2>1, <3>1, SecretsOnly
  <2> HIDE DEF c
  <2>4. Counted(c) /\ MayBecome(p, c, {})
    BY <1>1, <2>1, <2>3 DEF Counted, MaxFirings, MayBecome, SameControl
  <2> QED BY <1>2, <1>3, <1>7, <2>2, <2>3, <2>4 DEF SASVerified
<1>8. CASE Timer(p)
  <2> DEFINE m == Repeated(d.state)
             c == [d EXCEPT !.firings = @ + 1,
                            !.timer = d.firings + 1 <= MaxFirings(d.state)]
  <2>1. d.timer /\ d.firings <= MaxFirings(d.state)
    BY <1>1, <1>8 DEF Timer, Counted
  <2>2. /\ d.firings \in -1..(HelloMax + MessageMax + 1)
        /\ d.firings + 1 \in -1..(HelloMax + MessageMax + 1)
    BY <1>1, <2>1, ZrtpAssumption DEF ChannelContext, MaxFirings
  <2>3. (d.firings + 1 <= MaxFirings(d.state)) \in BOOLEAN
    OBVIOUS
  <2>4. /\ c \in ChannelContext
        /\ c.state = d.state /\ c.role = d.role /\ c.srtp = d.srtp
        /\ c.firings = d.firings + 1
        /\ c.timer = (d.firings + 1 <= MaxFirings(d.state))
    BY <1>1, <2>2, <2>3 DEF ChannelContext
  <2>5. chan' = [chan EXCEPT ![p] = c] /\ link' = [link EXCEPT ![p] = Append(@, m)]
    BY <1>1, <1>2, <1>8 DEF Timer
  <2> HIDE DEF c
  <2>6. Counted(c)
    BY <1>1, <2>1, <2>4 DEF Counted
  <2>7. /\ m \in {"Hello", "Commit", "DHPart2", "Confirm2"}
        /\ m = "Commit" => d.state = "sendingCommit"
        /\ m = "Confirm2" => d.state = "initiatorSendingConfirm2"
    BY <1>1, <1>8 DEF Repeated, Timer, Counted, Timed
  <2>8. MayBecome(p, c, {m})
    BY <1>1, <2>4, <2>7 DEF MayBecome, Early
  <2>9. m \in Messages
    BY <2>7 DEF Messages
  <2> HIDE DEF m
  <2>10. /\ Append(link[p], m) \in Seq(Messages)
         /\ ToSet(Append(link[p], m)) \subseteq ToSet(link[p]) \cup {m}
    BY <1>2, <2>9, SentOverLink
  <2>11. /\ chan' \in [Peers -> ChannelContext]
         /\ chan'[p] = c /\ chan'[Other(p)] = chan[Other(p)]
         /\ link' \in [Peers -> Seq(Messages)]
         /\ link'[p] = Append(link[p], m) /\ link'[Other(p)] = link[Other(p)]
    BY <1>1, <1>2, <2>4, <2>5, <2>10
  <2>12. /\ cache' \in [Peers -> Pair] /\ lost' \in 0..MaxLosses
         /\ UNCHANGED <<session, lower, history>>
    BY <1>2, <1>8 DEF Timer
  <2>13. /\ ToSet(link'[p]) \subseteq ToSet(link[p]) \cup {m}
         /\ ToSet(link'[Other(p)]) \subseteq ToSet(link[Other(p)])
    BY <2>10, <2>11
  <2> HIDE DEF ZrtpInv
  <2> QED BY <2>4, <2>6, <2>8, <2>11, <2>12, <2>13, EndStep
<1> QED BY <1>4, <1>5, <1>6, <1>7, <1>8

\* A packet of end q that is lost, or refused by who reads it.
LEMMA NetworkKeeps ==
    ASSUME ZrtpInv, NEW q \in Peers, NEW k \in DOMAIN link[q],
           link' = [link EXCEPT ![q] = RemoveAt(@, k)],
           lost' \in 0..MaxLosses, UNCHANGED <<session, lower, chan, cache, history>>
    PROVE  ZrtpInv'
<1>1. /\ TypeOK /\ chan[q] \in ChannelContext /\ Counted(chan[q])
      /\ MayBecome(q, chan[q], {}) /\ Other(q) \in Peers /\ Other(q) # q
      /\ link[q] \in Seq(Messages) /\ cache \in [Peers -> Pair]
  BY EndFacts
<1>2. /\ RemoveAt(link[q], k) \in Seq(Messages)
      /\ ToSet(RemoveAt(link[q], k)) \subseteq ToSet(link[q])
  BY <1>1, RemovedFromLink
<1>3. /\ link' \in [Peers -> Seq(Messages)]
      /\ link'[q] = RemoveAt(link[q], k) /\ link'[Other(q)] = link[Other(q)]
  BY <1>1, <1>2 DEF TypeOK
<1>4. /\ chan' \in [Peers -> ChannelContext]
      /\ chan'[q] = chan[q] /\ chan'[Other(q)] = chan[Other(q)]
      /\ cache' \in [Peers -> Pair] /\ UNCHANGED <<session, lower, history>>
  BY <1>1 DEF TypeOK
<1>5. /\ ToSet(link'[q]) \subseteq ToSet(link[q]) \cup {}
      /\ ToSet(link'[Other(q)]) \subseteq ToSet(link[Other(q)])
  BY <1>2, <1>3
<1> HIDE DEF ZrtpInv
<1> QED BY <1>1, <1>3, <1>4, <1>5, EndStep

-----------------------------------------------------------------------------
\* Between two sessions, and before the first, everything but the caches is new.
LEMMA FreshChannel ==
    /\ NewChannel \in ChannelContext /\ Counted(NewChannel)
    /\ NewChannel.state = "off" /\ NewChannel.role = "initiator"
    /\ NewChannel.srtp = {}
    /\ <<>> \in Seq(Messages) /\ ToSet(<<>>) = {}
    /\ Empty \in Pair
<1>1. None \in Secrets /\ Empty \in Pair
  BY ZrtpAssumption DEF None, Secrets, Empty, Pair
<1>2. 0 \in -1..(HelloMax + MessageMax + 1)
  BY ZrtpAssumption
<1>3. NewChannel \in ChannelContext
  BY <1>1, <1>2 DEF NewChannel, ChannelContext, ChannelStates
<1> QED BY <1>1, <1>3 DEF NewChannel, Counted, ToSet

LEMMA FreshKeeps ==
    ASSUME chan' = [q \in Peers |-> NewChannel], link' = [q \in Peers |-> <<>>]
    PROVE  /\ RoleInv' /\ KeyInv' /\ \A q \in Peers : Counted(chan'[q])
           /\ chan' \in [Peers -> ChannelContext] /\ link' \in [Peers -> Seq(Messages)]
<1>1. \A q \in Peers : /\ chan'[q] = NewChannel /\ link'[q] = <<>>
                       /\ Other(q) \in Peers
  BY TwoEnds
<1>2. RoleInv'
  BY <1>1, FreshChannel DEF RoleInv, At, Settled
<1>3. KeyInv'
  BY <1>1, FreshChannel DEF KeyInv
<1> QED BY <1>1, <1>2, <1>3, FreshChannel

LEMMA InitKeeps == Init => ZrtpInv
<1> SUFFICES ASSUME Init
             PROVE  ZrtpInv
  OBVIOUS
<1>1. \A q \in Peers : /\ chan[q] = NewChannel /\ link[q] = <<>>
                       /\ Other(q) \in Peers
  BY TwoEnds DEF Init
<1>2. RoleInv
  BY <1>1, FreshChannel DEF RoleInv, At, Settled
<1>3. KeyInv
  BY <1>1, FreshChannel DEF KeyInv
<1>4. /\ chan \in [Peers -> ChannelContext] /\ link \in [Peers -> Seq(Messages)]
      /\ cache \in [Peers -> Pair]
  BY FreshChannel DEF Init
<1>5. /\ session \in 1..MaxSessions /\ halves \in 0..MaxSessions
      /\ halves < session /\ lost \in 0..MaxLosses
  BY ZrtpAssumption DEF Init
<1>6. lower \in Peers /\ shared \in BOOLEAN
  BY DEF Init
<1>7. CountInv
  BY <1>1, <1>4, <1>5, <1>6, FreshChannel DEF CountInv, TypeOK
<1> QED BY <1>2, <1>3, <1>7 DEF ZrtpInv

LEMMA SessionKeeps == ZrtpInv /\ NextSession => ZrtpInv'
<1> SUFFICES ASSUME ZrtpInv, NextSession
             PROVE  ZrtpInv'
  OBVIOUS
<1>1. /\ RoleInv' /\ KeyInv' /\ \A q \in Peers : Counted(chan'[q])
      /\ chan' \in [Peers -> ChannelContext] /\ link' \in [Peers -> Seq(Messages)]
  BY FreshKeeps DEF NextSession
<1>2. /\ session \in 1..MaxSessions /\ halves \in 0..MaxSessions /\ halves < session
      /\ shared \in BOOLEAN /\ cache \in [Peers -> Pair]
  BY DEF ZrtpInv, CountInv, TypeOK
<1>3. /\ session' = session + 1 /\ session < MaxSessions /\ lower' \in Peers
      /\ halves' \in {0, halves, halves + 1} /\ shared' \in BOOLEAN
      /\ lost' = 0 /\ cache' = cache
  BY <1>2 DEF NextSession
<1>4. CountInv'
  BY <1>1, <1>2, <1>3, ZrtpAssumption DEF CountInv, TypeOK
<1> QED BY <1>1, <1>4 DEF ZrtpInv

-----------------------------------------------------------------------------
LEMMA StepKeeps == ZrtpInv /\ [Next]_vars => ZrtpInv'
<1> SUFFICES ASSUME ZrtpInv, [Next]_vars
             PROVE  ZrtpInv'
  OBVIOUS
<1>1. ASSUME NEW p \in Peers, NEW k \in DOMAIN Incoming(p), Recv(p, k)
      PROVE  ZrtpInv'
  BY <1>1, DiscoveryKeeps, CommitKeeps, DHPartKeeps, ConfirmKeeps DEF Recv
<1>2. ASSUME NEW p \in Peers, NEW k \in DOMAIN Incoming(p), Unexpected(p, k)
      PROVE  ZrtpInv'
  <2>1. /\ Other(p) \in Peers /\ k \in DOMAIN link[Other(p)]
        /\ link' = [link EXCEPT ![Other(p)] = RemoveAt(@, k)]
        /\ UNCHANGED <<session, lower, chan, cache, history>> /\ lost' = lost
    BY <1>2, TwoEnds DEF Unexpected, Incoming
  <2>2. lost' \in 0..MaxLosses
    BY <2>1 DEF ZrtpInv, CountInv, TypeOK
  <2> HIDE DEF ZrtpInv
  <2> QED BY <2>1, <2>2, NetworkKeeps
<1>3. ASSUME NEW p \in Peers, NEW k \in DOMAIN link[p], Lose(p, k)
      PROVE  ZrtpInv'
  <2>1. lost' \in 0..MaxLosses
    BY <1>3, ZrtpAssumption DEF Lose, ZrtpInv, CountInv, TypeOK
  <2> HIDE DEF ZrtpInv
  <2> QED BY <1>3, <2>1, NetworkKeeps DEF Lose
<1>4. ASSUME NEW p \in Peers,
             \/ Start(p) \/ Timer(p) \/ ResetTimer(p)
             \/ SASVerified(p) \/ Destroy(p)
      PROVE  ZrtpInv'
  BY <1>4, LocalKeeps
<1>5. CASE NextSession
  BY <1>5, SessionKeeps
<1>6. CASE UNCHANGED vars
  BY <1>6 DEF vars, history, ZrtpInv, CountInv, TypeOK, RoleInv, KeyInv, At, Settled
<1> QED BY <1>1, <1>2, <1>3, <1>4, <1>5, <1>6 DEF Next, Reads

LEMMA Invariant == Spec => []ZrtpInv
BY InitKeeps, StepKeeps, PTL DEF Spec

\* The contexts, the packets under way and the caches keep their types, and no
\* end sends a packet more often than its limit allows, whatever is lost and
\* whenever bzrtp_resetRetransmissionTimer is called (bzrtp_iterate).
THEOREM TypeCorrect == Spec => []TypeOK
BY Invariant, PTL DEF ZrtpInv, CountInv

\* One initiator, one responder: the commit contention decides alike at both
\* ends (state_keyAgreement_sendingCommit, bzrtp_turnIntoResponder).
THEOREM RolesAgree == Spec => []RoleAgreement
<1>1. ZrtpInv => RoleAgreement
  <2> SUFFICES ASSUME ZrtpInv, NEW p \in Peers, Settled(p), Settled(Other(p))
               PROVE  chan[p].role # chan[Other(p)].role
    BY DEF RoleAgreement
  <2>1. chan[p].role \in {"initiator", "responder"}
    BY EndFacts
  <2> QED BY <2>1 DEF ZrtpInv, RoleInv
<1> QED BY <1>1, Invariant, PTL

\* Who may send can be decrypted: the keys are given to the application in an
\* order that no loss or repetition upsets (bzrtp_srtpSecretsAvailable).
THEOREM SendersAreHeard == Spec => []SenderNeedsReceiver
<1>1. ZrtpInv => SenderNeedsReceiver
  BY DEF ZrtpInv, KeyInv, SenderNeedsReceiver
<1> QED BY <1>1, Invariant, PTL
=============================================================================
