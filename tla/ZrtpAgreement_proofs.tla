------------------------ MODULE ZrtpAgreement_proofs ------------------------
(***************************************************************************)
(* What two ends of the key agreement come to: the same s0, no warning of  *)
(* an intruder that is not due, and no session that comes to rest half way.*)
(***************************************************************************)
EXTENDS Zrtp_proofs

-----------------------------------------------------------------------------
(***************************************************************************)
(* The steps of an end, by what the invariants below see of them: with d   *)
(* its context and o that of the other end, end p goes on to the context   *)
(* c, retains the pair kept and sends the packets of S.                    *)
(***************************************************************************)
\* The secrets, and what was made of them, are left alone.
SameSecrets(c, d) ==
    /\ c.offered = d.offered /\ c.secrets = d.secrets /\ c.s0 = d.s0
    /\ c.mismatch => d.mismatch

\* It reads what it knows, and repeats what it sent.
Repeats(c, d, S) ==
    /\ c = d
    /\ \/ S = {}
       \/ S = {"HelloACK"} /\ d.state = "waitingForHelloAck"
       \/ S = {"DHPart1"}  /\ d.state = "responderSendingDHPart1"
       \/ S = {"Confirm1"} /\ d.state = "responderSendingConfirm1"
       \/ S = {"Conf2ACK"} /\ d.state = "secure" /\ d.role = "responder"

\* The first Hello: the secrets are read from the cache and offered.
Meets(p, c, d, S) ==
    /\ \/ d.state = "init" /\ c.state = "waitingForHelloAck" /\ S = {"HelloACK"}
       \/ /\ d.state = "waitingForHello" /\ c.state = "sendingCommit"
          /\ S = {"HelloACK", "Commit"}
    /\ c.timer /\ c.role = d.role
    /\ c.offered = cache[p] /\ c.secrets = cache[p]
    /\ c.s0 = d.s0 /\ (c.mismatch => d.mismatch)

\* The first HelloACK.
IsMet(c, d, S) ==
    /\ \/ d.state = "init" /\ c.state = "waitingForHello" /\ S = {}
       \/ /\ d.state = "waitingForHelloAck" /\ c.state = "sendingCommit" /\ c.timer
          /\ S = {"Commit"}
    /\ c.role = d.role /\ SameSecrets(c, d)

\* The Commit of the initiator.
Yields(c, d, S) ==
    /\ d.state \in {"waitingForHelloAck", "sendingCommit"}
    /\ c.state = "responderSendingDHPart1" /\ c.role = "responder"
    /\ S = {"DHPart1"}
    /\ SameSecrets(c, d)

\* DHPart1 and DHPart2: the secrets are compared and s0 is computed.
Compares(p, c, d, o, S) ==
    /\ \/ /\ d.state = "sendingCommit" /\ c.state = "initiatorSendingDHPart2"
          /\ c.timer /\ S = {"DHPart2"}
          /\ LET x == InitiatorChecks(d, o.offered)
             IN  /\ c.secrets = x.secrets /\ (c.mismatch => x.mismatch)
                 /\ c.s0 = ComputeS0(x, p).s0
       \/ /\ d.state = "responderSendingDHPart1"
          /\ c.state = "responderSendingConfirm1" /\ S = {"Confirm1"}
          /\ LET x == ResponderChecks(d, o.offered)
             IN  /\ c.secrets = x.secrets /\ (c.mismatch => x.mismatch)
                 /\ c.s0 = ComputeS0(x, p).s0
    /\ c.role = d.role /\ c.offered = d.offered

\* Confirm1.
Confirms(c, d, S) ==
    /\ d.state = "initiatorSendingDHPart2" /\ c.state = "initiatorSendingConfirm2"
    /\ c.timer /\ c.role = d.role /\ S = {"Confirm2"}
    /\ SameSecrets(c, d)

\* Confirm2 and Conf2ACK: the secret of this session is retained.
Secures(p, c, d, kept, S) ==
    /\ \/ d.state = "responderSendingConfirm1" /\ S = {"Conf2ACK"}
       \/ d.state = "initiatorSendingConfirm2" /\ S = {}
    /\ c.state = "secure" /\ c.role = d.role
    /\ c.offered = d.offered /\ c.s0 = d.s0 /\ (c.mismatch => d.mismatch)
    /\ kept = Retained(d, p)

\* The timers and the end of the session.
Waits(c, d, S) ==
    /\ \/ c.state = d.state /\ S = {}
       \/ c.state = d.state /\ S \in {{"Hello"}, {"Commit"}, {"Confirm2"}}
       \/ /\ c.state = d.state /\ d.state = "initiatorSendingDHPart2"
          /\ S = {"DHPart2"}
       \/ d.state = "off" /\ c.state = "init" /\ S = {}
       \/ c.state = "gone" /\ S = {}
    /\ c.role = d.role /\ SameSecrets(c, d)
    /\ c.timer \/ c.state \notin Timed \/ c.firings > MaxFirings(c.state)

\* The user confirms a mismatch.
Approves(c, d, kept, S) ==
    /\ d.state = "secure" /\ c.state = "secure" /\ d.mismatch /\ ~c.mismatch
    /\ c.role = d.role /\ c.offered = d.offered /\ c.s0 = d.s0
    /\ kept = [rs1 |-> session, rs2 |-> d.secrets.rs1]
    /\ S = {}

\* A packet m that is read, and what an end does by itself.
Turn(p, m, c, d, o, kept, S) ==
    \/ kept = cache[p] /\ Repeats(c, d, S)
    \/ kept = cache[p] /\ m = "Hello" /\ Meets(p, c, d, S)
    \/ kept = cache[p] /\ m = "HelloACK" /\ IsMet(c, d, S)
    \/ kept = cache[p] /\ m = "Commit" /\ Yields(c, d, S)
    \/ /\ kept = cache[p] /\ Compares(p, c, d, o, S)
       /\ m = (IF d.state = "sendingCommit" THEN "DHPart1" ELSE "DHPart2")
    \/ kept = cache[p] /\ m = "Confirm1" /\ Confirms(c, d, S)
    \/ /\ Secures(p, c, d, kept, S)
       /\ m = (IF d.state = "responderSendingConfirm1" THEN "Confirm2" ELSE "Conf2ACK")

Alone(p, c, d, kept, S) ==
    \/ kept = cache[p] /\ Repeats(c, d, S)
    \/ kept = cache[p] /\ Waits(c, d, S)
    \/ Approves(c, d, kept, S)

\* Nothing else changes, but that packets are read and lost.
OnlyEnd(p, S) ==
    /\ chan'[Other(p)] = chan[Other(p)] /\ cache'[Other(p)] = cache[Other(p)]
    /\ ToSet(link'[p]) \subseteq ToSet(link[p]) \cup S
    /\ ToSet(link'[Other(p)]) \subseteq ToSet(link[Other(p)])
    /\ UNCHANGED <<session, lower, history>>

LEMMA Answers ==
    ASSUME TypeOK, NEW p \in Peers, NEW k \in DOMAIN Incoming(p), NEW c, NEW S,
           NEW sent, ToSet(sent) \subseteq ToSet(link[p]) \cup S,
           Accept(p, k, c, sent),
           cache'[Other(p)] = cache[Other(p)]
    PROVE  chan'[p] = c /\ OnlyEnd(p, S)
<1>1. Other(p) \in Peers /\ Other(p) # p
  BY TwoEnds
<1>2. link[Other(p)] \in Seq(Messages) /\ k \in DOMAIN link[Other(p)]
  BY <1>1 DEF TypeOK, Incoming
<1>3. link'[p] = sent
  BY <1>1 DEF Accept, TypeOK
<1>4. link'[Other(p)] = SubSeq(link[Other(p)], k + 1, Len(link[Other(p)]))
  BY <1>1 DEF Accept, TypeOK
<1>5. chan'[p] = c /\ chan'[Other(p)] = chan[Other(p)]
  BY <1>1 DEF Accept, TypeOK
<1> QED BY <1>2, <1>3, <1>4, <1>5, ReadLink DEF Accept, OnlyEnd

LEMMA Sends ==
    ASSUME TypeOK, NEW p \in Peers, NEW m \in Messages, NEW n \in Messages
    PROVE  /\ ToSet(Put(link[p], m)) \subseteq ToSet(link[p]) \cup {m}
           /\ ToSet(Put(Put(link[p], m), n)) \subseteq ToSet(link[p]) \cup {m, n}
           /\ ToSet(Append(link[p], m)) \subseteq ToSet(link[p]) \cup {m}
<1>1. link[p] \in Seq(Messages)
  BY DEF TypeOK
<1>2. /\ Put(link[p], m) \in Seq(Messages)
      /\ ToSet(Put(link[p], m)) \subseteq ToSet(link[p]) \cup {m}
      /\ ToSet(Append(link[p], m)) \subseteq ToSet(link[p]) \cup {m}
  BY <1>1, SentOverLink
<1>3. ToSet(Put(Put(link[p], m), n)) \subseteq ToSet(Put(link[p], m)) \cup {n}
  BY <1>2, SentOverLink
<1> QED BY <1>2, <1>3

-----------------------------------------------------------------------------
\* Every reception is such a turn.
LEMMA DiscoveryTurns ==
    ASSUME ZrtpInv, NEW p \in Peers, NEW k \in DOMAIN Incoming(p),
           RecvHello(p, k) \/ RecvHelloAgain(p, k) \/ RecvHelloACK(p, k)
    PROVE  \E S \in SUBSET Messages :
              /\ Turn(p, Incoming(p)[k], chan'[p], chan[p], chan[Other(p)], cache'[p], S)
              /\ OnlyEnd(p, S)
<1> DEFINE d == chan[p]
           h == ResponseToHello(d, p)
<1>0. /\ "Hello" \in Messages /\ "HelloACK" \in Messages /\ "Commit" \in Messages
      /\ {"HelloACK", "Commit"} \in SUBSET Messages
  BY DEF Messages
<1>1. /\ TypeOK /\ d \in ChannelContext /\ link[p] \in Seq(Messages)
      /\ cache[p] \in Pair
  BY EndFacts
<1>2. cache' = cache
  BY DEF RecvHello, RecvHelloAgain, RecvHelloACK
<1>3. /\ ToSet(link[p]) \subseteq ToSet(link[p]) \cup {}
      /\ ToSet(Put(link[p], "HelloACK")) \subseteq ToSet(link[p]) \cup {"HelloACK"}
      /\ ToSet(Put(link[p], "Commit")) \subseteq ToSet(link[p]) \cup {"Commit"}
      /\ ToSet(Put(Put(link[p], "HelloACK"), "Commit"))
            \subseteq ToSet(link[p]) \cup {"HelloACK", "Commit"}
  BY <1>0, <1>1, Sends
<1>4. CASE RecvHello(p, k) /\ At(p, "init")
  <2> DEFINE c == TimerOn(Goes(h, "waitingForHelloAck"))
  <2>1. Accept(p, k, c, Put(link[p], "HelloACK")) /\ Incoming(p)[k] = "Hello"
    BY <1>4 DEF RecvHello, At, Receive
  <2>2. Meets(p, c, d, {"HelloACK"})
    BY <1>1, <1>4 DEF Meets, At, TimerOn, Goes, ResponseToHello, ChannelContext
  <2> HIDE DEF c
  <2>3. chan'[p] = c /\ OnlyEnd(p, {"HelloACK"})
    BY <1>1, <1>2, <1>3, <2>1, Answers
  <2> QED BY <1>0, <1>2, <2>1, <2>2, <2>3 DEF Turn
<1>5. CASE RecvHello(p, k) /\ At(p, "waitingForHello")
  <2> DEFINE c == ToSendingCommit(h)
  <2>1. /\ Accept(p, k, c, Put(Put(link[p], "HelloACK"), "Commit"))
        /\ Incoming(p)[k] = "Hello"
    BY <1>5 DEF RecvHello, At, Receive
  <2>2. Meets(p, c, d, {"HelloACK", "Commit"})
    BY <1>1, <1>5
       DEF Meets, At, ToSendingCommit, TimerOn, Goes, ResponseToHello, ChannelContext
  <2> HIDE DEF c
  <2>3. chan'[p] = c /\ OnlyEnd(p, {"HelloACK", "Commit"})
    BY <1>1, <1>2, <1>3, <2>1, Answers
  <2> QED BY <1>0, <1>2, <2>1, <2>2, <2>3 DEF Turn
<1>6. CASE RecvHelloAgain(p, k)
  <2>1. Accept(p, k, d, Put(link[p], "HelloACK")) /\ d.state = "waitingForHelloAck"
    BY <1>6 DEF RecvHelloAgain, At
  <2>2. chan'[p] = d /\ OnlyEnd(p, {"HelloACK"})
    BY <1>1, <1>2, <1>3, <2>1, Answers
  <2>3. Repeats(d, d, {"HelloACK"})
    BY <2>1 DEF Repeats
  <2> QED BY <1>0, <1>2, <2>2, <2>3 DEF Turn
<1>7. CASE RecvHelloACK(p, k) /\ At(p, "init")
  <2> DEFINE c == TimerOff(Goes(d, "waitingForHello"))
  <2>1. Accept(p, k, c, link[p]) /\ Incoming(p)[k] = "HelloACK"
    BY <1>7 DEF RecvHelloACK, At, Receive
  <2>2. IsMet(c, d, {})
    BY <1>1, <1>7 DEF IsMet, SameSecrets, At, TimerOff, Goes, ChannelContext
  <2> HIDE DEF c
  <2>3. chan'[p] = c /\ OnlyEnd(p, {})
    BY <1>1, <1>2, <1>3, <2>1, Answers
  <2> QED BY <1>0, <1>2, <2>1, <2>2, <2>3 DEF Turn
<1>8. CASE RecvHelloACK(p, k) /\ At(p, "waitingForHelloAck")
  <2> DEFINE c == ToSendingCommit(d)
  <2>1. Accept(p, k, c, Put(link[p], "Commit")) /\ Incoming(p)[k] = "HelloACK"
    BY <1>8 DEF RecvHelloACK, At, Receive
  <2>2. IsMet(c, d, {"Commit"})
    BY <1>1, <1>8
       DEF IsMet, SameSecrets, At, ToSendingCommit, TimerOn, Goes, ChannelContext
  <2> HIDE DEF c
  <2>3. chan'[p] = c /\ OnlyEnd(p, {"Commit"})
    BY <1>1, <1>2, <1>3, <2>1, Answers
  <2> QED BY <1>0, <1>2, <2>1, <2>2, <2>3 DEF Turn
<1> QED BY <1>4, <1>5, <1>6, <1>7, <1>8 DEF RecvHello, RecvHelloACK

LEMMA CommitTurns ==
    ASSUME ZrtpInv, NEW p \in Peers, NEW k \in DOMAIN Incoming(p),
           RecvCommit(p, k) \/ RecvCommitAgain(p, k)
    PROVE  \E S \in SUBSET Messages :
              /\ Turn(p, Incoming(p)[k], chan'[p], chan[p], chan[Other(p)], cache'[p], S)
              /\ OnlyEnd(p, S)
<1> DEFINE d == chan[p]
           c == [TimerOff(Goes(d, "responderSendingDHPart1"))
                    EXCEPT !.role = "responder"]
<1>0. "DHPart1" \in Messages
  BY DEF Messages
<1>1. /\ TypeOK /\ d \in ChannelContext /\ link[p] \in Seq(Messages)
      /\ cache' = cache
  BY EndFacts DEF RecvCommit, RecvCommitAgain
<1>2. /\ ToSet(link[p]) \subseteq ToSet(link[p]) \cup {}
      /\ ToSet(Put(link[p], "DHPart1")) \subseteq ToSet(link[p]) \cup {"DHPart1"}
  BY <1>0, <1>1, Sends
<1>3. CASE /\ RecvCommit(p, k)
           /\ At(p, "waitingForHelloAck") \/ (At(p, "sendingCommit") /\ lower = p)
  <2>1. Accept(p, k, c, Put(link[p], "DHPart1")) /\ Incoming(p)[k] = "Commit"
    BY <1>3 DEF RecvCommit, At, Receive
  <2>2. Yields(c, d, {"DHPart1"})
    BY <1>1, <1>3 DEF Yields, SameSecrets, At, TimerOff, Goes, ChannelContext
  <2> HIDE DEF c
  <2>3. chan'[p] = c /\ OnlyEnd(p, {"DHPart1"})
    BY <1>1, <1>2, <2>1, Answers
  <2> QED BY <1>0, <1>1, <2>1, <2>2, <2>3 DEF Turn
<1>4. CASE RecvCommit(p, k) /\ At(p, "sendingCommit") /\ lower # p
  <2>1. Accept(p, k, d, link[p])
    BY <1>4 DEF RecvCommit, At
  <2>2. chan'[p] = d /\ OnlyEnd(p, {})
    BY <1>1, <1>2, <2>1, Answers
  <2> QED BY <1>1, <2>2 DEF Turn, Repeats
<1>5. CASE RecvCommitAgain(p, k)
  <2>1. Accept(p, k, d, Put(link[p], "DHPart1")) /\ d.state = "responderSendingDHPart1"
    BY <1>5 DEF RecvCommitAgain, At
  <2>2. chan'[p] = d /\ OnlyEnd(p, {"DHPart1"})
    BY <1>1, <1>2, <2>1, Answers
  <2>3. Repeats(d, d, {"DHPart1"})
    BY <2>1 DEF Repeats
  <2> QED BY <1>0, <1>1, <2>2, <2>3 DEF Turn
<1>6. RecvCommit(p, k) => At(p, "waitingForHelloAck") \/ At(p, "sendingCommit")
  BY DEF RecvCommit
<1> QED BY <1>3, <1>4, <1>5, <1>6

LEMMA DHPartTurns ==
    ASSUME ZrtpInv, NEW p \in Peers, NEW k \in DOMAIN Incoming(p),
           RecvDHPart1(p, k) \/ RecvDHPart2(p, k)
    PROVE  \E S \in SUBSET Messages :
              /\ Turn(p, Incoming(p)[k], chan'[p], chan[p], chan[Other(p)], cache'[p], S)
              /\ OnlyEnd(p, S)
<1> DEFINE d == chan[p]
           o == chan[Other(p)]
           x == InitiatorChecks(d, o.offered)
           y == ResponderChecks(d, o.offered)
<1>0. "DHPart2" \in Messages /\ "Confirm1" \in Messages
  BY DEF Messages
<1>1. /\ TypeOK /\ d \in ChannelContext /\ link[p] \in Seq(Messages)
      /\ o.offered \in Pair /\ cache' = cache
  BY EndFacts DEF RecvDHPart1, RecvDHPart2
<1>2. /\ ToSet(link[p]) \subseteq ToSet(link[p]) \cup {}
      /\ ToSet(Put(link[p], "DHPart2")) \subseteq ToSet(link[p]) \cup {"DHPart2"}
      /\ ToSet(Put(link[p], "Confirm1")) \subseteq ToSet(link[p]) \cup {"Confirm1"}
  BY <1>0, <1>1, Sends
<1>3. /\ x \in ChannelContext /\ SameControl(x, d) /\ x.offered = d.offered
      /\ y \in ChannelContext /\ SameControl(y, d) /\ y.offered = d.offered
  <2>1. x \in ChannelContext /\ SameControl(d, x) /\ y \in ChannelContext /\ SameControl(d, y)
    BY <1>1, SecretsOnly
  <2>2. x.offered = d.offered
    BY <1>1 DEF InitiatorChecks, ChannelContext
  <2>3. y.offered = d.offered
    BY <1>1 DEF ResponderChecks, ChannelContext
  <2> QED BY <2>1, <2>2, <2>3 DEF SameControl
<1>4. CASE RecvDHPart1(p, k) /\ At(p, "sendingCommit")
  <2> DEFINE c == TimerOn(Goes(ComputeS0(x, p), "initiatorSendingDHPart2"))
  <2>1. Accept(p, k, c, Put(link[p], "DHPart2")) /\ Incoming(p)[k] = "DHPart1"
    BY <1>4 DEF RecvDHPart1, At, Receive
  <2> HIDE DEF x
  <2>2. /\ c.state = "initiatorSendingDHPart2" /\ c.timer /\ c.role = d.role
        /\ c.offered = d.offered /\ c.secrets = x.secrets /\ (c.mismatch => x.mismatch)
        /\ c.s0 = ComputeS0(x, p).s0
    BY <1>3 DEF SameControl, TimerOn, Goes, ComputeS0, ChannelContext
  <2> HIDE DEF c
  <2>3. Compares(p, c, d, o, {"DHPart2"})
    BY <1>4, <2>2 DEF Compares, At, x
  <2>4. chan'[p] = c /\ OnlyEnd(p, {"DHPart2"})
    BY <1>1, <1>2, <2>1, Answers
  <2> QED BY <1>0, <1>1, <1>4, <2>1, <2>3, <2>4 DEF Turn, At
<1>5. CASE RecvDHPart1(p, k) /\ At(p, "initiatorSendingDHPart2")
  <2>1. Accept(p, k, d, link[p])
    BY <1>5 DEF RecvDHPart1, At
  <2>2. chan'[p] = d /\ OnlyEnd(p, {})
    BY <1>1, <1>2, <2>1, Answers
  <2> QED BY <1>1, <2>2 DEF Turn, Repeats
<1>6. CASE RecvDHPart2(p, k) /\ At(p, "responderSendingDHPart1")
  <2> DEFINE c == Goes(ComputeS0(y, p), "responderSendingConfirm1")
  <2>1. Accept(p, k, c, Put(link[p], "Confirm1")) /\ Incoming(p)[k] = "DHPart2"
    BY <1>6 DEF RecvDHPart2, At, Receive
  <2> HIDE DEF y
  <2>2. /\ c.state = "responderSendingConfirm1" /\ c.role = d.role
        /\ c.offered = d.offered /\ c.secrets = y.secrets /\ (c.mismatch => y.mismatch)
        /\ c.s0 = ComputeS0(y, p).s0
    BY <1>3 DEF SameControl, Goes, ComputeS0, ChannelContext
  <2> HIDE DEF c
  <2>3. Compares(p, c, d, o, {"Confirm1"})
    BY <1>6, <2>2 DEF Compares, At, y
  <2>4. chan'[p] = c /\ OnlyEnd(p, {"Confirm1"})
    BY <1>1, <1>2, <2>1, Answers
  <2> QED BY <1>0, <1>1, <1>6, <2>1, <2>3, <2>4 DEF Turn, At
<1>7. CASE RecvDHPart2(p, k) /\ At(p, "responderSendingConfirm1")
  <2>1. Accept(p, k, d, Put(link[p], "Confirm1")) /\ d.state = "responderSendingConfirm1"
    BY <1>7 DEF RecvDHPart2, At
  <2>2. chan'[p] = d /\ OnlyEnd(p, {"Confirm1"})
    BY <1>1, <1>2, <2>1, Answers
  <2>3. Repeats(d, d, {"Confirm1"})
    BY <2>1 DEF Repeats
  <2> QED BY <1>0, <1>1, <2>2, <2>3 DEF Turn
<1> QED BY <1>4, <1>5, <1>6, <1>7 DEF RecvDHPart1, RecvDHPart2

LEMMA ConfirmTurns ==
    ASSUME ZrtpInv, NEW p \in Peers, NEW k \in DOMAIN Incoming(p),
           RecvConfirm1(p, k) \/ RecvConfirm2(p, k) \/ RecvConf2ACK(p, k)
    PROVE  \E S \in SUBSET Messages :
              /\ Turn(p, Incoming(p)[k], chan'[p], chan[p], chan[Other(p)], cache'[p], S)
              /\ OnlyEnd(p, S)
<1> DEFINE d == chan[p]
           f == Forgotten(d)
<1>0. "Confirm2" \in Messages /\ "Conf2ACK" \in Messages
  BY DEF Messages
<1>1. /\ TypeOK /\ d \in ChannelContext /\ link[p] \in Seq(Messages)
      /\ cache \in [Peers -> Pair] /\ Other(p) # p
  BY EndFacts
<1>2. /\ ToSet(link[p]) \subseteq ToSet(link[p]) \cup {}
      /\ ToSet(Put(link[p], "Confirm2")) \subseteq ToSet(link[p]) \cup {"Confirm2"}
      /\ ToSet(Put(link[p], "Conf2ACK")) \subseteq ToSet(link[p]) \cup {"Conf2ACK"}
  BY <1>0, <1>1, Sends
<1>3. /\ f \in ChannelContext /\ SameControl(d, f)
      /\ f.offered = d.offered /\ f.s0 = d.s0 /\ (f.mismatch => d.mismatch)
  <2>1. Empty \in Pair
    BY ZrtpAssumption DEF Empty, Pair, Secrets, None
  <2>2. f \in ChannelContext /\ SameControl(d, f)
    BY <1>1, <2>1, SecretsOnly
  <2>3. f.offered = d.offered /\ f.s0 = d.s0 /\ (f.mismatch => d.mismatch)
    BY <1>1 DEF Forgotten, ChannelContext
  <2> QED BY <2>2, <2>3
<1>4. CASE RecvConfirm1(p, k) /\ At(p, "initiatorSendingDHPart2")
  <2> DEFINE c == Given(TimerOn(Goes(d, "initiatorSendingConfirm2")), "receiver")
  <2>1. /\ Accept(p, k, c, Put(link[p], "Confirm2")) /\ Incoming(p)[k] = "Confirm1"
        /\ cache' = cache
    BY <1>4 DEF RecvConfirm1, At, Receive
  <2>2. Confirms(c, d, {"Confirm2"})
    BY <1>1, <1>4
       DEF Confirms, SameSecrets, At, Given, TimerOn, Goes, ChannelContext
  <2> HIDE DEF c
  <2>3. chan'[p] = c /\ OnlyEnd(p, {"Confirm2"})
    BY <1>1, <1>2, <2>1, Answers
  <2> QED BY <1>0, <2>1, <2>2, <2>3 DEF Turn
<1>5. CASE RecvConfirm1(p, k) /\ At(p, "initiatorSendingConfirm2")
  <2>1. Accept(p, k, d, link[p]) /\ cache' = cache
    BY <1>5 DEF RecvConfirm1, At
  <2>2. chan'[p] = d /\ OnlyEnd(p, {})
    BY <1>1, <1>2, <2>1, Answers
  <2> QED BY <2>1, <2>2 DEF Turn, Repeats
<1>6. CASE RecvConfirm2(p, k) /\ At(p, "responderSendingConfirm1")
  <2> DEFINE c == Goes(Given(Given(f, "receiver"), "sender"), "secure")
  <2>1. /\ Accept(p, k, c, Put(link[p], "Conf2ACK")) /\ Incoming(p)[k] = "Confirm2"
        /\ cache' = [cache EXCEPT ![p] = Retained(d, p)]
    BY <1>6 DEF RecvConfirm2, At, Receive
  <2> HIDE DEF f
  <2>2. /\ c.state = "secure" /\ c.role = f.role /\ c.offered = f.offered
        /\ c.s0 = f.s0 /\ (c.mismatch => f.mismatch)
    BY <1>3 DEF Given, Goes, ChannelContext
  <2> HIDE DEF c
  <2>3. cache'[p] = Retained(d, p) /\ cache'[Other(p)] = cache[Other(p)]
    BY <1>1, <2>1, TwoEnds
  <2>4. Secures(p, c, d, cache'[p], {"Conf2ACK"})
    BY <1>3, <1>6, <2>2, <2>3 DEF Secures, SameControl, At
  <2>5. chan'[p] = c /\ OnlyEnd(p, {"Conf2ACK"})
    BY <1>1, <1>2, <2>1, <2>3, Answers
  <2> QED BY <1>0, <1>6, <2>1, <2>4, <2>5 DEF Turn, At
<1>7. CASE RecvConfirm2(p, k) /\ At(p, "secure")
  <2>1. /\ Accept(p, k, d, Put(link[p], "Conf2ACK")) /\ cache' = cache
        /\ d.state = "secure" /\ d.role = "responder"
    BY <1>7 DEF RecvConfirm2, At
  <2>2. chan'[p] = d /\ OnlyEnd(p, {"Conf2ACK"})
    BY <1>1, <1>2, <2>1, Answers
  <2>3. Repeats(d, d, {"Conf2ACK"})
    BY <2>1 DEF Repeats
  <2> QED BY <1>0, <2>1, <2>2, <2>3 DEF Turn
<1>8. CASE RecvConf2ACK(p, k)
  <2> DEFINE c == Given(TimerOff(Goes(f, "secure")), "sender")
  <2>1. /\ Accept(p, k, c, link[p]) /\ Incoming(p)[k] = "Conf2ACK"
        /\ d.state = "initiatorSendingConfirm2"
        /\ cache' = [cache EXCEPT ![p] = Retained(d, p)]
    BY <1>8 DEF RecvConf2ACK, At, Receive
  <2> HIDE DEF f
  <2>2. /\ c.state = "secure" /\ c.role = f.role /\ c.offered = f.offered
        /\ c.s0 = f.s0 /\ (c.mismatch => f.mismatch)
    BY <1>3 DEF Given, TimerOff, Goes, ChannelContext
  <2> HIDE DEF c
  <2>3. cache'[p] = Retained(d, p) /\ cache'[Other(p)] = cache[Other(p)]
    BY <1>1, <2>1, TwoEnds
  <2>4. Secures(p, c, d, cache'[p], {})
    BY <1>3, <2>1, <2>2, <2>3 DEF Secures, SameControl
  <2>5. chan'[p] = c /\ OnlyEnd(p, {})
    BY <1>1, <1>2, <2>1, <2>3, Answers
  <2> QED BY <2>1, <2>4, <2>5 DEF Turn
<1> QED BY <1>4, <1>5, <1>6, <1>7, <1>8 DEF RecvConfirm1, RecvConfirm2

LEMMA LocalTurns ==
    ASSUME ZrtpInv, NEW p \in Peers,
           \/ Start(p) \/ Timer(p) \/ ResetTimer(p)
           \/ SASVerified(p) \/ Destroy(p)
    PROVE  \E S \in SUBSET Messages :
              Alone(p, chan'[p], chan[p], cache'[p], S) /\ OnlyEnd(p, S)
<1> DEFINE d == chan[p]
<1>1. /\ TypeOK /\ d \in ChannelContext /\ link[p] \in Seq(Messages)
      /\ cache \in [Peers -> Pair] /\ Other(p) # p /\ Other(p) \in Peers
      /\ Counted(d)
  BY EndFacts
<1>2. /\ chan \in [Peers -> ChannelContext] /\ link \in [Peers -> Seq(Messages)]
  BY <1>1 DEF TypeOK
<1>3. ASSUME NEW c, chan' = [chan EXCEPT ![p] = c], link' = link,
             cache' \in {cache, [cache EXCEPT ![p] = cache'[p]]},
             UNCHANGED <<session, lower, history>>
      PROVE  chan'[p] = c /\ OnlyEnd(p, {})
  BY <1>1, <1>2, <1>3 DEF OnlyEnd
<1>4. CASE Start(p)
  <2> DEFINE c == TimerOn(Goes(d, "init"))
  <2>1. chan' = [chan EXCEPT ![p] = c] /\ cache' = cache
    BY <1>4 DEF Start
  <2>2. Waits(c, d, {})
    BY <1>1, <1>4 DEF Waits, SameSecrets, Start, At, TimerOn, Goes, ChannelContext
  <2> HIDE DEF c
  <2>3. chan'[p] = c /\ OnlyEnd(p, {})
    BY <1>3, <1>4, <2>1 DEF Start
  <2> QED BY <2>1, <2>2, <2>3 DEF Alone
<1>5. CASE Destroy(p)
  <2> DEFINE c == TimerOff(Goes(d, "gone"))
  <2>1. chan' = [chan EXCEPT ![p] = c] /\ cache' = cache
    BY <1>5 DEF Destroy
  <2>2. Waits(c, d, {})
    BY <1>1 DEF Waits, SameSecrets, TimerOff, Goes, ChannelContext, Timed
  <2> HIDE DEF c
  <2>3. chan'[p] = c /\ OnlyEnd(p, {})
    BY <1>3, <1>5, <2>1 DEF Destroy
  <2> QED BY <2>1, <2>2, <2>3 DEF Alone
<1>6. CASE ResetTimer(p)
  <2> DEFINE c == [d EXCEPT !.reset = TRUE, !.timer = TRUE, !.firings = -1]
  <2>1. chan' = [chan EXCEPT ![p] = c] /\ cache' = cache
    BY <1>1, <1>2, <1>6 DEF ResetTimer
  <2>2. Waits(c, d, {})
    BY <1>1 DEF Waits, SameSecrets, ChannelContext
  <2> HIDE DEF c
  <2>3. chan'[p] = c /\ OnlyEnd(p, {})
    BY <1>3, <1>6, <2>1 DEF ResetTimer
  <2> QED BY <2>1, <2>2, <2>3 DEF Alone
<1>7. CASE SASVerified(p)
  <2> DEFINE s == [d EXCEPT !.mismatch = FALSE]
             c == Forgotten(s)
  <2>1. chan' = [chan EXCEPT ![p] = c] /\ cache' = [cache EXCEPT ![p] = Retained(s, p)]
    BY <1>7 DEF SASVerified
  <2>2. /\ c.state = d.state /\ c.role = d.role /\ c.offered = d.offered
        /\ c.s0 = d.s0 /\ ~c.mismatch
        /\ Retained(s, p) = [rs1 |-> session, rs2 |-> d.secrets.rs1]
    BY <1>1 DEF Forgotten, Retained, ChannelContext
  <2>3. cache'[p] = [rs1 |-> session, rs2 |-> d.secrets.rs1]
    BY <1>1, <2>1, <2>2
  <2>4. Approves(c, d, cache'[p], {})
    BY <1>7, <2>2, <2>3 DEF Approves, SASVerified, At
  <2>5. cache' = [cache EXCEPT ![p] = cache'[p]]
    BY <1>1, <2>1
  <2> HIDE DEF c
  <2>6. chan'[p] = c /\ OnlyEnd(p, {})
    BY <1>3, <1>7, <2>1, <2>5 DEF SASVerified
  <2> QED BY <2>4, <2>6 DEF Alone
<1>8. CASE Timer(p)
  <2> DEFINE m == Repeated(d.state)
             t == (d.firings + 1 <= MaxFirings(d.state))
             c == [d EXCEPT !.firings = @ + 1, !.timer = t]
  <2>1. /\ chan' = [chan EXCEPT ![p] = c] /\ cache' = cache
        /\ link' = [link EXCEPT ![p] = Append(@, m)]
    BY <1>1, <1>2, <1>8 DEF Timer
  <2>2. d.firings \in Int /\ MaxFirings(d.state) \in Int
    BY <1>1, ZrtpAssumption DEF ChannelContext, MaxFirings
  <2>3. t \/ d.firings + 1 > MaxFirings(d.state)
    BY <2>2
  <2>4. t \in BOOLEAN
    OBVIOUS
  <2> HIDE DEF t
  <2>5. /\ c.state = d.state /\ c.role = d.role /\ SameSecrets(c, d)
        /\ c.timer = t /\ c.firings = d.firings + 1
    BY <1>1, <2>4 DEF SameSecrets, ChannelContext
  <2> HIDE DEF c
  <2>6. /\ m \in {"Hello", "Commit", "DHPart2", "Confirm2"}
        /\ m = "DHPart2" => d.state = "initiatorSendingDHPart2"
    BY <1>1, <1>8 DEF Repeated, Timer, Counted, Timed
  <2>7. m \in Messages
    BY <2>6 DEF Messages
  <2> HIDE DEF m
  <2>8. {m} \in {{"Hello"}, {"Commit"}, {"Confirm2"}} \/ m = "DHPart2"
    BY <2>6
  <2>9. c.timer \/ c.firings > MaxFirings(c.state)
    BY <2>3, <2>5
  <2>10. Waits(c, d, {m})
    BY <2>5, <2>6, <2>8, <2>9 DEF Waits
  <2>11. chan'[p] = c /\ OnlyEnd(p, {m})
    <3>1. ToSet(Append(link[p], m)) \subseteq ToSet(link[p]) \cup {m}
      BY <1>1, <2>7, SentOverLink
    <3>2. link'[p] = Append(link[p], m) /\ link'[Other(p)] = link[Other(p)]
      BY <1>1, <1>2, <2>1
    <3>3. chan'[p] = c /\ chan'[Other(p)] = chan[Other(p)]
      BY <1>1, <1>2, <2>1
    <3> QED BY <1>8, <3>1, <3>2, <3>3 DEF OnlyEnd, Timer
  <2>12. {m} \in SUBSET Messages
    BY <2>7
  <2> QED BY <2>1, <2>10, <2>11, <2>12 DEF Alone
<1> QED BY <1>4, <1>5, <1>6, <1>7, <1>8

\* What the network loses, and what is refused, only leaves the links.
LEMMA NetworkTurns ==
    ASSUME ZrtpInv, NEW p \in Peers, NEW k \in DOMAIN link[p],
           link' = [link EXCEPT ![p] = RemoveAt(@, k)],
           UNCHANGED <<session, lower, chan, cache, history>>
    PROVE  Alone(p, chan'[p], chan[p], cache'[p], {}) /\ OnlyEnd(p, {})
<1>1. link \in [Peers -> Seq(Messages)] /\ Other(p) \in Peers /\ Other(p) # p
  BY EndFacts DEF TypeOK
<1>2. ToSet(RemoveAt(link[p], k)) \subseteq ToSet(link[p])
  BY <1>1, RemovedFromLink
<1> QED BY <1>1, <1>2 DEF Alone, Repeats, OnlyEnd

\* Every step but that to another session is a turn of one end.
LEMMA Steps ==
    ASSUME ZrtpInv, [Next]_vars
    PROVE  \/ \E p \in Peers, S \in SUBSET Messages :
                 /\ OnlyEnd(p, S)
                 /\ \/ Alone(p, chan'[p], chan[p], cache'[p], S)
                    \/ \E m \in ToSet(link[Other(p)]) :
                          Turn(p, m, chan'[p], chan[p], chan[Other(p)], cache'[p], S)
           \/ NextSession
<1>1. ASSUME NEW p \in Peers, NEW k \in DOMAIN Incoming(p), Recv(p, k)
      PROVE  \E S \in SUBSET Messages :
                /\ OnlyEnd(p, S)
                /\ \E m \in ToSet(link[Other(p)]) :
                      Turn(p, m, chan'[p], chan[p], chan[Other(p)], cache'[p], S)
  <2>1. Incoming(p)[k] \in ToSet(link[Other(p)])
    BY EndFacts
  <2>2. PICK S \in SUBSET Messages :
           /\ Turn(p, Incoming(p)[k], chan'[p], chan[p], chan[Other(p)], cache'[p], S)
           /\ OnlyEnd(p, S)
    BY <1>1, DiscoveryTurns, CommitTurns, DHPartTurns, ConfirmTurns DEF Recv
  <2> QED BY <2>1, <2>2
<1>2. ASSUME NEW p \in Peers, NEW k \in DOMAIN Incoming(p), Unexpected(p, k)
      PROVE  \E q \in Peers : /\ OnlyEnd(q, {})
                              /\ Alone(q, chan'[q], chan[q], cache'[q], {})
  <2>1. /\ Other(p) \in Peers /\ k \in DOMAIN link[Other(p)]
        /\ link' = [link EXCEPT ![Other(p)] = RemoveAt(@, k)]
        /\ UNCHANGED <<session, lower, chan, cache, history>>
    BY <1>2, TwoEnds DEF Unexpected, Incoming
  <2> QED BY <2>1, NetworkTurns
<1>3. ASSUME NEW p \in Peers, NEW k \in DOMAIN link[p], Lose(p, k)
      PROVE  OnlyEnd(p, {}) /\ Alone(p, chan'[p], chan[p], cache'[p], {})
  BY <1>3, NetworkTurns DEF Lose
<1>4. ASSUME NEW p \in Peers,
             \/ Start(p) \/ Timer(p) \/ ResetTimer(p)
             \/ SASVerified(p) \/ Destroy(p)
      PROVE  \E S \in SUBSET Messages :
                Alone(p, chan'[p], chan[p], cache'[p], S) /\ OnlyEnd(p, S)
  BY <1>4, LocalTurns
<1>5. CASE UNCHANGED vars
  <2>1. PICK p \in Peers : TRUE
    BY DEF ZrtpInv, CountInv, TypeOK
  <2>2. OnlyEnd(p, {}) /\ Alone(p, chan'[p], chan[p], cache'[p], {})
    BY <1>5 DEF vars, history, OnlyEnd, Alone, Repeats
  <2> QED BY <2>2
<1> QED BY <1>1, <1>2, <1>3, <1>4, <1>5 DEF Next, Reads

-----------------------------------------------------------------------------
(***************************************************************************)
(* No session comes to rest half way.                                      *)
(***************************************************************************)
\* The timer of a state stops when it is used up.  An end whose HelloACK is
\* under way, or was read, answers the next Hello with all that follows; the
\* responder is secure before it sends a Conf2ACK.
Unmet == {"off", "init", "waitingForHello"}

Over == {"secure", "gone"}

TimersRun(c) ==
    c.state \in Timed \ {"waitingForHello"} /\ ~c.timer
        => c.firings > MaxFirings(c.state)

SecureInitiator(c) == c.state = "secure" /\ c.role = "initiator"

StuckInv ==
    \A p \in Peers :
        /\ TimersRun(chan[p])
        /\ "HelloACK" \in ToSet(link[p]) \/ At(Other(p), "waitingForHello")
              => chan[p].state \notin Unmet
        /\ "Conf2ACK" \in ToSet(link[p]) \/ SecureInitiator(chan[Other(p)])
              => chan[p].state \in Over /\ chan[p].role = "responder"

\* What a turn does of this.
Progress(p, c, d, S) ==
    /\ TimersRun(d) => TimersRun(c)
    /\ "HelloACK" \in S => c.state \notin Unmet
    /\ c.state \in Unmet => d.state \in Unmet
    /\ c.state = "waitingForHello"
          => d.state = "waitingForHello" \/ "HelloACK" \in ToSet(link[Other(p)])
    /\ "Conf2ACK" \in S => c.state \in Over /\ c.role = "responder"
    /\ d.state \in Over /\ d.role = "responder"
          => c.state \in Over /\ c.role = "responder"
    /\ SecureInitiator(c)
          => SecureInitiator(d) \/ "Conf2ACK" \in ToSet(link[Other(p)])

LEMMA TurnsProgress ==
    ASSUME ZrtpInv, NEW p \in Peers, NEW S \in SUBSET Messages, NEW c, NEW kept,
           \/ Alone(p, c, chan[p], kept, S)
           \/ \E m \in ToSet(link[Other(p)]) :
                 Turn(p, m, c, chan[p], chan[Other(p)], kept, S)
    PROVE  Progress(p, c, chan[p], S)
<1> DEFINE d == chan[p]
           o == chan[Other(p)]
<1>1. /\ d.state = "responderSendingConfirm1" => d.role = "responder"
      /\ d.role \in {"initiator", "responder"}
  BY EndFacts DEF ZrtpInv, RoleInv
<1> HIDE DEF d, o
<1> USE DEF Progress, Unmet, Over, TimersRun, Timed, SecureInitiator
<1>2. ASSUME Alone(p, c, d, kept, S)
      PROVE  Progress(p, c, d, S)
  <2>1. CASE Repeats(c, d, S)
    BY <2>1 DEF Repeats
  <2>2. CASE Waits(c, d, S)
    BY <2>2 DEF Waits
  <2>3. CASE Approves(c, d, kept, S)
    BY <2>3 DEF Approves
  <2> QED BY <1>2, <2>1, <2>2, <2>3 DEF Alone
<1>3. ASSUME NEW m \in ToSet(link[Other(p)]), Turn(p, m, c, d, o, kept, S)
      PROVE  Progress(p, c, d, S)
  <2>1. CASE Repeats(c, d, S)
    BY <2>1 DEF Repeats
  <2>2. CASE m = "Hello" /\ Meets(p, c, d, S)
    BY <2>2 DEF Meets
  <2>3. CASE m = "HelloACK" /\ IsMet(c, d, S)
    BY <1>3, <2>3 DEF IsMet
  <2>4. CASE m = "Commit" /\ Yields(c, d, S)
    BY <2>4 DEF Yields
  <2>5. CASE Compares(p, c, d, o, S)
    BY <2>5 DEF Compares
  <2>6. CASE m = "Confirm1" /\ Confirms(c, d, S)
    BY <2>6 DEF Confirms
  <2>7. CASE /\ Secures(p, c, d, kept, S)
             /\ m = (IF d.state = "responderSendingConfirm1" THEN "Confirm2" ELSE "Conf2ACK")
    BY <1>1, <1>3, <2>7 DEF Secures
  <2> QED BY <1>3, <2>1, <2>2, <2>3, <2>4, <2>5, <2>6, <2>7 DEF Turn
<1> QED BY <1>2, <1>3 DEF d, o

LEMMA StuckKeeps == ZrtpInv /\ StuckInv /\ [Next]_vars => StuckInv'
<1> SUFFICES ASSUME ZrtpInv, StuckInv, [Next]_vars
             PROVE  StuckInv'
  OBVIOUS
<1>1. ASSUME NEW p \in Peers, NEW S \in SUBSET Messages, OnlyEnd(p, S),
             \/ Alone(p, chan'[p], chan[p], cache'[p], S)
             \/ \E m \in ToSet(link[Other(p)]) :
                   Turn(p, m, chan'[p], chan[p], chan[Other(p)], cache'[p], S)
      PROVE  StuckInv'
  <2> DEFINE o == Other(p)
  <2>1. /\ o \in Peers /\ o # p /\ Other(o) = p
        /\ \A q \in Peers : q = p \/ q = o
    BY TwoEnds
  <2>2. Progress(p, chan'[p], chan[p], S)
    BY <1>1, TurnsProgress
  <2>3. /\ chan'[o] = chan[o]
        /\ ToSet(link'[p]) \subseteq ToSet(link[p]) \cup S
        /\ ToSet(link'[o]) \subseteq ToSet(link[o])
    BY <1>1 DEF OnlyEnd
  <2> DEFINE Rests(q) ==
               /\ TimersRun(chan[q])
               /\ "HelloACK" \in ToSet(link[q]) \/ At(Other(q), "waitingForHello")
                     => chan[q].state \notin Unmet
               /\ "Conf2ACK" \in ToSet(link[q]) \/ SecureInitiator(chan[Other(q)])
                     => chan[q].state \in Over /\ chan[q].role = "responder"
  <2>4. Rests(p) /\ Rests(o)
    BY <2>1 DEF StuckInv
  <2>5. TimersRun(chan[p])' /\ TimersRun(chan[o])'
    BY <2>2, <2>3, <2>4 DEF Progress, TimersRun, MaxFirings
  <2>6. Rests(p)'
    BY <2>1, <2>2, <2>3, <2>4, <2>5 DEF Progress, At
  <2>7. Rests(o)'
    BY <2>1, <2>2, <2>3, <2>4, <2>5 DEF Progress, At, Unmet
  <2> QED BY <2>1, <2>6, <2>7 DEF StuckInv
<1>2. CASE NextSession
  <2>1. \A q \in Peers : /\ chan'[q] = NewChannel /\ ToSet(link'[q]) = {}
                         /\ Other(q) \in Peers
    BY <1>2, TwoEnds, FreshChannel DEF NextSession
  <2> QED BY <2>1, FreshChannel
       DEF StuckInv, TimersRun, Timed, At, Unmet, SecureInitiator
<1> QED BY <1>1, <1>2, Steps

\* A session rests only when both ends are secure, or when one has used up its
\* retransmissions: wherever an end without a timer waits, the other has one
\* (bzrtp_iterate, state_discovery_waitingForHello and the responder's states).
THEOREM NeverStuck == Spec => []NoStuckSession
<1>1. Init => StuckInv
  <2> SUFFICES ASSUME Init
               PROVE  StuckInv
    OBVIOUS
  <2>1. \A q \in Peers : /\ chan[q] = NewChannel /\ ToSet(link[q]) = {}
                         /\ Other(q) \in Peers
    BY TwoEnds, FreshChannel DEF Init
  <2> QED BY <2>1, FreshChannel
       DEF StuckInv, TimersRun, Timed, At, Unmet, SecureInitiator
<1>2. ZrtpInv /\ StuckInv => NoStuckSession
  <2> SUFFICES ASSUME ZrtpInv, StuckInv,
                      \A p \in Peers : /\ ~At(p, "off") /\ ~At(p, "gone")
                                       /\ link[p] = <<>>
                                       /\ ~chan[p].timer \/ At(p, "waitingForHello"),
                      \A p \in Peers : ~(chan[p].firings > MaxFirings(chan[p].state))
               PROVE  \A p \in Peers : At(p, "secure")
    BY DEF NoStuckSession
  <2> TAKE p \in Peers
  <2> DEFINE o == Other(p)
  <2>1. /\ o \in Peers /\ Other(o) = p
        /\ chan[p].state \in ChannelStates /\ chan[o].state \in ChannelStates
        /\ chan[p].role \in {"initiator", "responder"}
        /\ chan[o].role \in {"initiator", "responder"}
    BY TwoEnds, EndFacts
  <2> DEFINE Silent == {"responderSendingDHPart1", "responderSendingConfirm1", "secure"}
  <2>2. /\ chan[p].state \in Silent \cup {"waitingForHello"}
        /\ chan[o].state \in Silent \cup {"waitingForHello"}
    BY <2>1 DEF StuckInv, TimersRun, Timed, ChannelStates, At
  <2>3. /\ chan[p].state = "waitingForHello" => chan[o].state \in Silent
        /\ chan[o].state = "waitingForHello" => chan[p].state \in Silent
    BY <2>1, <2>2 DEF StuckInv, At, Unmet
  <2>4. /\ chan[p].state \in {"responderSendingDHPart1", "responderSendingConfirm1"}
              => chan[p].role = "responder"
        /\ chan[o].state \in {"responderSendingDHPart1", "responderSendingConfirm1"}
              => chan[o].role = "responder"
    BY <2>1 DEF ZrtpInv, RoleInv
  <2>5. /\ chan[p].state \in Silent /\ chan[p].role = "initiator" => chan[o].state \in Over
        /\ chan[o].state \in Silent /\ chan[o].role = "initiator" => chan[p].state \in Over
    BY <2>1, <2>4 DEF StuckInv, SecureInitiator
  <2>6. /\ chan[p].state \in Silent /\ chan[p].role = "responder"
              => chan[o].role = "initiator" /\ chan[o].state \notin Early
        /\ chan[o].state \in Silent /\ chan[o].role = "responder"
              => chan[p].role = "initiator" /\ chan[p].state \notin Early
    BY <2>1 DEF ZrtpInv, RoleInv
  <2> QED BY <2>1, <2>2, <2>3, <2>4, <2>5, <2>6 DEF At, Over, Early
<1> QED BY <1>1, <1>2, StuckKeeps, Invariant, PTL DEF Spec

-----------------------------------------------------------------------------
(***************************************************************************)
(* The same s0.                                                            *)
(***************************************************************************)
\* What both ends mean by s1: the newest secret of the initiator that is one
\* of the responder's.
Common(i, r) ==
    IF i.rs1 \in {r.rs1, r.rs2} \ {None} THEN i.rs1
    ELSE IF i.rs2 \in {r.rs1, r.rs2} \ {None} THEN i.rs2
    ELSE None

First(s) == IF s.rs1 # None THEN s.rs1 ELSE s.rs2

\* There is no older secret without a newer one.
Newest(s) == s.rs1 = None => s.rs2 = None

\* The initiator and the responder compare in an order of their own, and find
\* the same.
LEMMA InitiatorFinds ==
    ASSUME NEW c \in ChannelContext, NEW r \in Pair, Newest(c.secrets)
    PROVE  First(InitiatorChecks(c, r).secrets) = Common(c.secrets, r)
<1>1. c.secrets \in Pair /\ None \in Secrets
  BY ZrtpAssumption DEF ChannelContext, None, Secrets
<1> DEFINE i1 == c.secrets.rs1
           i2 == c.secrets.rs2
           miss == i1 # None /\ ~(i1 \in {r.rs1, r.rs2} \ {None})
           none == i2 \notin {r.rs1, r.rs2} \ {None}
<1>2. InitiatorChecks(c, r).secrets =
         [rs1 |-> IF miss THEN None ELSE i1,
          rs2 |-> IF miss /\ none THEN None ELSE i2]
  BY DEF InitiatorChecks, ChannelContext
<1> QED BY <1>1, <1>2 DEF First, Common, Newest, Pair

LEMMA ResponderFinds ==
    ASSUME NEW c \in ChannelContext, NEW i \in Pair, Newest(c.secrets)
    PROVE  First(ResponderChecks(c, i).secrets) = Common(i, c.secrets)
<1>1. c.secrets \in Pair /\ None \in Secrets
  BY ZrtpAssumption DEF ChannelContext, None, Secrets
<1> DEFINE r1 == c.secrets.rs1
           r2 == c.secrets.rs2
           x  == ResponderChecks(c, i).secrets
<1>2. \/ /\ r1 = None \/ r1 = i.rs1
         /\ x = c.secrets
      \/ /\ r1 # None /\ r1 # i.rs1 /\ r2 # None /\ r2 = i.rs1
         /\ x.rs1 = None /\ x.rs2 = r2
      \/ /\ r1 # None /\ r1 # i.rs1 /\ (r2 = None \/ r2 # i.rs1) /\ r1 = i.rs2
         /\ x = c.secrets
      \/ /\ r1 # None /\ r1 # i.rs1 /\ (r2 = None \/ r2 # i.rs1) /\ r1 # i.rs2
         /\ r2 # None /\ r2 = i.rs2
         /\ x.rs1 = None /\ x.rs2 = r2
      \/ /\ r1 # None /\ r1 # i.rs1 /\ (r2 = None \/ r2 # i.rs1) /\ r1 # i.rs2
         /\ r2 = None \/ r2 # i.rs2
         /\ x.rs1 = None /\ x.rs2 = None
  BY <1>1 DEF ResponderChecks, ChannelContext, Pair, Empty
<1> QED BY <1>1, <1>2 DEF First, Common, Newest, Pair

\* An end that computed s0 has what both offered in common, in it, and the
\* other one made its choice of roles before; a DHPart2 comes from such an end.
InitiatorOf(p) == IF chan[p].role = "initiator" THEN p ELSE Other(p)

Agreed(p) ==
    [s1        |-> Common(chan[InitiatorOf(p)].offered,
                          chan[Other(InitiatorOf(p))].offered),
     initiator |-> InitiatorOf(p)]

Undecided == Early \cup {"sendingCommit"}

S0Inv ==
    \A p \in Peers :
        /\ Newest(cache[p]) /\ Newest(chan[p].offered)
        /\ chan[p].state \in {"waitingForHelloAck", "sendingCommit",
                              "responderSendingDHPart1"}
              => chan[p].secrets = chan[p].offered
        /\ chan[p].state \in Undecided \cup {"responderSendingDHPart1"}
              => chan[p].s0 = {}
        /\ chan[p].s0 # {}
              => /\ chan[p].s0 = {Agreed(p)}
                 /\ chan[Other(p)].role # chan[p].role
                 /\ chan[Other(p)].state \notin Undecided
        /\ "DHPart2" \in ToSet(link[p])
              => chan[p].role = "initiator" /\ chan[p].state \notin Undecided

\* What a turn does of this: s0 stays, or is computed by an end whose role,
\* like that of the other end, is decided.
Computed(p, c, o) ==
    /\ c.state \notin Undecided \cup {"responderSendingDHPart1"}
    /\ o.state \notin Undecided /\ o.role # c.role
    /\ c.role \in {"initiator", "responder"}
    /\ c.role = "initiator"
          => c.s0 = {[s1 |-> Common(c.offered, o.offered), initiator |-> p]}
    /\ c.role = "responder"
          => c.s0 = {[s1 |-> Common(o.offered, c.offered), initiator |-> Other(p)]}

SecretStep(p, c, d, o, kept, S) ==
    /\ kept = cache[p] \/ kept.rs1 = session
    /\ \/ c.offered = d.offered
       \/ c.offered = cache[p] /\ c.secrets = cache[p] /\ d.state \in Early
    /\ c.state \in {"waitingForHelloAck", "sendingCommit", "responderSendingDHPart1"}
          => c.secrets = c.offered
    /\ c.state \in Undecided => d.state \in Undecided
    /\ c.state \in Undecided \cup {"responderSendingDHPart1"}
          => d.state \in Undecided \cup {"responderSendingDHPart1"}
    /\ c.role = d.role \/ d.state \in Undecided
    /\ c.s0 = d.s0 \/ Computed(p, c, o)
    /\ "DHPart2" \in S => c.state \notin Undecided /\ c.role = "initiator"

LEMMA TurnsCompute ==
    ASSUME ZrtpInv, S0Inv, NEW p \in Peers, NEW S \in SUBSET Messages, NEW c, NEW kept,
           \/ Alone(p, c, chan[p], kept, S)
           \/ \E m \in ToSet(link[Other(p)]) :
                 Turn(p, m, c, chan[p], chan[Other(p)], kept, S)
    PROVE  SecretStep(p, c, chan[p], chan[Other(p)], kept, S)
<1> DEFINE d == chan[p]
           o == chan[Other(p)]
           Offering == {"waitingForHelloAck", "sendingCommit", "responderSendingDHPart1"}
<1>1. /\ d \in ChannelContext /\ d.offered \in Pair /\ o.offered \in Pair
      /\ d.role \in {"initiator", "responder"}
      /\ o.role \in {"initiator", "responder"}
      /\ d.state = "responderSendingDHPart1" => d.role = "responder"
      /\ d.state \in {"sendingCommit", "initiatorSendingDHPart2"} => d.role = "initiator"
      /\ o.role = "responder" => o.state \notin Undecided
      /\ "DHPart1" \in ToSet(link[Other(p)]) => o.role = "responder"
  BY EndFacts, TwoEnds DEF ZrtpInv, RoleInv, At, Undecided, ChannelContext
<1>2. /\ Newest(d.offered)
      /\ d.state \in Offering => d.secrets = d.offered
      /\ "DHPart2" \in ToSet(link[Other(p)])
            => o.role = "initiator" /\ o.state \notin Undecided
  BY TwoEnds DEF S0Inv
<1> HIDE DEF d, o
<1> USE DEF SecretStep, Undecided, Early
<1>3. ASSUME Alone(p, c, d, kept, S)
      PROVE  SecretStep(p, c, d, o, kept, S)
  <2>1. CASE kept = cache[p] /\ Repeats(c, d, S)
    BY <1>2, <2>1 DEF Repeats
  <2>2. CASE kept = cache[p] /\ Waits(c, d, S)
    BY <1>1, <1>2, <2>2 DEF Waits, SameSecrets
  <2>3. CASE Approves(c, d, kept, S)
    BY <1>2, <2>3 DEF Approves
  <2> QED BY <1>3, <2>1, <2>2, <2>3 DEF Alone
<1>4. ASSUME NEW m \in ToSet(link[Other(p)]), Turn(p, m, c, d, o, kept, S)
      PROVE  SecretStep(p, c, d, o, kept, S)
  <2>1. CASE kept = cache[p] /\ Repeats(c, d, S)
    BY <1>2, <2>1 DEF Repeats
  <2>2. CASE kept = cache[p] /\ Meets(p, c, d, S)
    BY <1>2, <2>2 DEF Meets
  <2>3. CASE kept = cache[p] /\ IsMet(c, d, S)
    BY <1>2, <2>3 DEF IsMet, SameSecrets
  <2>4. CASE kept = cache[p] /\ Yields(c, d, S)
    BY <1>2, <2>4 DEF Yields, SameSecrets
  <2>5. CASE /\ kept = cache[p] /\ Compares(p, c, d, o, S)
             /\ m = (IF d.state = "sendingCommit" THEN "DHPart1" ELSE "DHPart2")
    <3>1. CASE d.state = "sendingCommit"
      <4> DEFINE x == InitiatorChecks(d, o.offered)
      <4>1. /\ c.state = "initiatorSendingDHPart2" /\ S = {"DHPart2"}
            /\ c.s0 = ComputeS0(x, p).s0 /\ c.role = d.role /\ c.offered = d.offered
        BY <2>5, <3>1 DEF Compares
      <4>2. d.role = "initiator" /\ o.role = "responder" /\ o.state \notin Undecided
        BY <1>1, <1>4, <2>5, <3>1
      <4>3. First(x.secrets) = Common(c.offered, o.offered)
        BY <1>1, <1>2, <3>1, <4>1, InitiatorFinds
      <4>4. x \in ChannelContext /\ x.role = d.role
        BY <1>1, SecretsOnly, EndFacts DEF SameControl
      <4> HIDE DEF x
      <4>5. c.s0 = {[s1 |-> First(x.secrets), initiator |-> p]}
        BY <4>1, <4>2, <4>4 DEF ComputeS0, First, ChannelContext
      <4>6. Computed(p, c, o)
        BY <4>1, <4>2, <4>3, <4>5 DEF Computed
      <4> QED BY <2>5, <3>1, <4>1, <4>2, <4>6
    <3>2. CASE d.state = "responderSendingDHPart1"
      <4> DEFINE x == ResponderChecks(d, o.offered)
      <4>1. /\ c.state = "responderSendingConfirm1" /\ S = {"Confirm1"}
            /\ c.s0 = ComputeS0(x, p).s0 /\ c.role = d.role /\ c.offered = d.offered
        BY <2>5, <3>2 DEF Compares
      <4>2. d.role = "responder" /\ o.role = "initiator" /\ o.state \notin Undecided
        BY <1>1, <1>2, <1>4, <2>5, <3>2
      <4>3. First(x.secrets) = Common(o.offered, c.offered)
        BY <1>1, <1>2, <3>2, <4>1, ResponderFinds
      <4>4. x \in ChannelContext /\ x.role = d.role
        BY <1>1, SecretsOnly, EndFacts DEF SameControl
      <4> HIDE DEF x
      <4>5. c.s0 = {[s1 |-> First(x.secrets), initiator |-> Other(p)]}
        BY <4>1, <4>2, <4>4 DEF ComputeS0, First, ChannelContext
      <4>6. Computed(p, c, o)
        BY <4>1, <4>2, <4>3, <4>5 DEF Computed
      <4> QED BY <2>5, <3>2, <4>1, <4>2, <4>6
    <3> QED BY <2>5, <3>1, <3>2 DEF Compares
  <2>6. CASE kept = cache[p] /\ Confirms(c, d, S)
    BY <1>1, <1>2, <2>6 DEF Confirms, SameSecrets
  <2>7. CASE Secures(p, c, d, kept, S)
    BY <1>2, <2>7 DEF Secures, Retained
  <2> QED BY <1>4, <2>1, <2>2, <2>3, <2>4, <2>5, <2>6, <2>7 DEF Turn
<1> QED BY <1>3, <1>4 DEF d, o

LEMMA S0Keeps == ZrtpInv /\ S0Inv /\ [Next]_vars => S0Inv'
<1> SUFFICES ASSUME ZrtpInv, S0Inv, [Next]_vars
             PROVE  S0Inv'
  OBVIOUS
<1>0. session # None /\ \A q \in Peers : Other(q) \in Peers
  BY TwoEnds DEF ZrtpInv, CountInv, TypeOK, None
<1>1. ASSUME NEW p \in Peers, NEW S \in SUBSET Messages, OnlyEnd(p, S),
             \/ Alone(p, chan'[p], chan[p], cache'[p], S)
             \/ \E m \in ToSet(link[Other(p)]) :
                   Turn(p, m, chan'[p], chan[p], chan[Other(p)], cache'[p], S)
      PROVE  S0Inv'
  <2> DEFINE o == Other(p)
             c == chan'[p]
             d == chan[p]
  <2>1. /\ o \in Peers /\ o # p /\ Other(o) = p
        /\ \A q \in Peers : q = p \/ q = o
        /\ d.role \in {"initiator", "responder"}
        /\ chan[o].role \in {"initiator", "responder"}
    BY TwoEnds, EndFacts
  <2>2. SecretStep(p, c, d, chan[o], cache'[p], S)
    BY <1>1, TurnsCompute
  <2>3. /\ chan'[o] = chan[o] /\ cache'[o] = cache[o]
        /\ ToSet(link'[p]) \subseteq ToSet(link[p]) \cup S
        /\ ToSet(link'[o]) \subseteq ToSet(link[o])
    BY <1>1 DEF OnlyEnd
  <2> DEFINE Offering == {"waitingForHelloAck", "sendingCommit", "responderSendingDHPart1"}
             Old(q) == /\ Newest(cache[q]) /\ Newest(chan[q].offered)
                       /\ chan[q].state \in Offering
                             => chan[q].secrets = chan[q].offered
             Blank(q) == chan[q].state \in Undecided \cup {"responderSendingDHPart1"}
                             => chan[q].s0 = {}
             Same(q) == chan[q].s0 # {}
                           => /\ chan[q].s0 = {Agreed(q)}
                              /\ chan[Other(q)].role # chan[q].role
                              /\ chan[Other(q)].state \notin Undecided
             Sent(q) == "DHPart2" \in ToSet(link[q])
                           => chan[q].role = "initiator" /\ chan[q].state \notin Undecided
  <2>4. \A q \in {p, o} : Old(q) /\ Blank(q) /\ Same(q) /\ Sent(q)
    BY <2>1 DEF S0Inv
  <2>5. Old(p)' /\ Old(o)'
    BY <1>0, <2>2, <2>3, <2>4 DEF SecretStep, Newest
  <2>6. Blank(p)' /\ Blank(o)'
    BY <2>2, <2>3, <2>4 DEF SecretStep, Computed, Undecided
  <2>7. Sent(p)' /\ Sent(o)'
    BY <2>1, <2>2, <2>3, <2>4 DEF SecretStep
  <2>8. Same(p)'
    <3> SUFFICES ASSUME c.s0 # {}
                 PROVE  /\ c.s0 = {Agreed(p)'}
                        /\ chan'[o].role # c.role /\ chan'[o].state \notin Undecided
      OBVIOUS
    <3>1. CASE Computed(p, c, chan[o])
      BY <2>1, <2>3, <3>1 DEF Computed, Agreed, InitiatorOf
    <3>2. CASE c.s0 = d.s0
      <4>1. d.state \notin Undecided /\ d.s0 # {}
        BY <2>4, <3>2
      <4>2. c.role = d.role /\ c.offered = d.offered
        BY <2>2, <4>1 DEF SecretStep, Undecided
      <4> QED BY <2>1, <2>3, <2>4, <3>2, <4>1, <4>2 DEF Agreed, InitiatorOf
    <3> QED BY <2>2, <3>1, <3>2 DEF SecretStep
  <2>9. Same(o)'
    <3> SUFFICES ASSUME chan[o].s0 # {}
                 PROVE  /\ chan[o].s0 = {Agreed(o)'}
                        /\ c.role # chan[o].role /\ c.state \notin Undecided
      BY <2>1, <2>3
    <3>1. d.role # chan[o].role /\ d.state \notin Undecided /\ chan[o].s0 = {Agreed(o)}
      BY <2>1, <2>4
    <3>2. c.role = d.role /\ c.offered = d.offered /\ c.state \notin Undecided
      BY <2>2, <3>1 DEF SecretStep, Undecided
    <3> QED BY <2>1, <2>3, <3>1, <3>2 DEF Agreed, InitiatorOf
  <2> QED BY <2>1, <2>5, <2>6, <2>7, <2>8, <2>9 DEF S0Inv
<1>2. CASE NextSession
  <2>1. \A q \in Peers : /\ chan'[q] = NewChannel /\ ToSet(link'[q]) = {}
                         /\ cache'[q] = cache[q]
    BY <1>2, FreshChannel DEF NextSession
  <2>2. NewChannel.offered = Empty /\ NewChannel.s0 = {} /\ Newest(Empty)
    BY DEF NewChannel, Newest, Empty
  <2> QED BY <2>1, <2>2, FreshChannel DEF S0Inv
<1> QED BY <1>1, <1>2, Steps

\* Both ends that computed s0 have the same: the initiator and the responder
\* compare the secrets in different orders, over caches that earlier sessions
\* left in any combination, and pick the same s1 (stateMachine.c:485 and 785).
THEOREM SecretsAgree == Spec => []SameS0
<1>1. Init => S0Inv
  <2> SUFFICES ASSUME Init
               PROVE  S0Inv
    OBVIOUS
  <2>1. \A q \in Peers : /\ chan[q] = NewChannel /\ ToSet(link[q]) = {}
                         /\ cache[q] = Empty
    BY FreshChannel DEF Init
  <2>2. NewChannel.offered = Empty /\ NewChannel.s0 = {} /\ Newest(Empty)
    BY DEF NewChannel, Newest, Empty
  <2> QED BY <2>1, <2>2, FreshChannel DEF S0Inv
<1>2. ZrtpInv /\ S0Inv => SameS0
  <2> SUFFICES ASSUME ZrtpInv, S0Inv, NEW p \in Peers,
                      chan[p].s0 # {}, chan[Other(p)].s0 # {}
               PROVE  chan[p].s0 = chan[Other(p)].s0
    BY DEF SameS0
  <2>1. /\ Other(p) \in Peers /\ Other(Other(p)) = p
        /\ chan[p].role \in {"initiator", "responder"}
        /\ chan[Other(p)].role \in {"initiator", "responder"}
    BY TwoEnds, EndFacts
  <2>2. /\ chan[p].s0 = {Agreed(p)} /\ chan[Other(p)].s0 = {Agreed(Other(p))}
        /\ chan[Other(p)].role # chan[p].role
    BY <2>1 DEF S0Inv
  <2> QED BY <2>1, <2>2 DEF Agreed, InitiatorOf
<1> QED BY <1>1, <1>2, S0Keeps, Invariant, PTL DEF Spec

-----------------------------------------------------------------------------
(***************************************************************************)
(* A mismatch takes two updates that were missed.                          *)
(***************************************************************************)
\* The cache of the end was updated in this session.
Fresh(p) == cache[p].rs1 = session

\* The offer of the end is read, or may be.
Offering(c) == c.state \notin Unmet \cup {"gone"}

Offers(p) ==
    \/ Offering(chan[p])
    \/ "DHPart1" \in ToSet(link[p]) \/ "DHPart2" \in ToSet(link[p])

\* The end compared the secrets, and will retain one.
Comparing ==
    {"initiatorSendingDHPart2", "responderSendingConfirm1", "initiatorSendingConfirm2"}

\* As long as the two ends trust each other there are no secrets at all, ...
Trusting == halves < IF shared THEN 2 ELSE 1

Stranger(p) ==
    /\ ~Fresh(p) => cache[p] = Empty
    /\ Offers(p) => chan[p].offered = Empty

\* ... or both retained a secret k in the session before, ...
Knows(p, k) ==
    /\ ~Fresh(p) => cache[p].rs1 = k
    /\ Fresh(p) => cache[p].rs2 = k
    /\ Offers(p) => chan[p].offered.rs1 = k
    /\ chan[p].state \in Comparing => chan[p].secrets.rs1 = k

\* ... or one did not retain the newest, and the other has the older one too.
Keeps(p, k) ==
    /\ ~Fresh(p) => cache[p].rs1 = k
    /\ Offers(p) => chan[p].offered.rs1 = k

IsAhead(p, k) ==
    /\ ~Fresh(p) => cache[p].rs2 = k
    /\ Offers(p) => chan[p].offered.rs2 = k

TrustInv ==
    /\ \A p \in Peers : /\ cache[p].rs1 <= session
                        /\ Fresh(p) => chan[p].state \in Over
                        /\ Trusting => ~chan[p].mismatch
    /\ ~shared /\ halves = 0 => \A p \in Peers : Stranger(p)
    /\ shared /\ halves = 0
          => \E k \in Secrets \ {None} : \A p \in Peers : Knows(p, k)
    /\ shared /\ halves = 1
          => \E k \in Secrets \ {None}, p \in Peers :
                IsAhead(p, k) /\ Keeps(Other(p), k)

\* Two offers that have nothing to be suspected of.
Familiar(i, r) ==
    \/ i = Empty /\ r = Empty
    \/ \E k \in Secrets \ {None} : k \in {i.rs1, i.rs2} /\ k \in {r.rs1, r.rs2}

LEMMA FamiliarChecks ==
    ASSUME NEW c \in ChannelContext, NEW o \in Pair, ~c.mismatch,
           Familiar(c.secrets, o)
    PROVE  /\ ~InitiatorChecks(c, o).mismatch /\ ~ResponderChecks(c, o).mismatch
           /\ c.secrets.rs1 # None /\ c.secrets.rs1 = o.rs1
                 => /\ InitiatorChecks(c, o).secrets.rs1 = o.rs1
                    /\ ResponderChecks(c, o).secrets.rs1 = o.rs1
<1>1. c.secrets \in Pair
  BY DEF ChannelContext
<1> DEFINE miss == c.secrets.rs1 # None /\ ~(c.secrets.rs1 \in {o.rs1, o.rs2} \ {None})
           none == ~(c.secrets.rs2 \in {o.rs1, o.rs2} \ {None})
<1>2. /\ InitiatorChecks(c, o).mismatch => miss /\ none
      /\ InitiatorChecks(c, o).secrets.rs1 = IF miss THEN None ELSE c.secrets.rs1
  <2>1. miss \in BOOLEAN /\ none \in BOOLEAN
    OBVIOUS
  <2> QED BY <2>1 DEF InitiatorChecks, ChannelContext
<1>3. ~InitiatorChecks(c, o).mismatch
  BY <1>1, <1>2 DEF Familiar, Pair, Empty
<1>4. ~ResponderChecks(c, o).mismatch
  BY <1>1 DEF Familiar, Pair, Empty, ResponderChecks, ChannelContext
<1>5. ASSUME c.secrets.rs1 # None, c.secrets.rs1 = o.rs1
      PROVE  /\ InitiatorChecks(c, o).secrets.rs1 = o.rs1
             /\ ResponderChecks(c, o).secrets.rs1 = o.rs1
  BY <1>2, <1>5 DEF ResponderChecks
<1> QED BY <1>3, <1>4, <1>5

\* Ends that trust each other offer secrets that are.
LEMMA TrustIsFamiliar ==
    ASSUME ZrtpInv, TrustInv, Trusting, NEW p \in Peers, Offers(p), Offers(Other(p))
    PROVE  Familiar(chan[p].offered, chan[Other(p)].offered)
<1>1. /\ Other(p) \in Peers /\ Other(Other(p)) = p
      /\ \A q \in Peers : q = p \/ q = Other(p)
      /\ halves \in Nat
  BY TwoEnds, ZrtpAssumption DEF ZrtpInv, CountInv, TypeOK
<1>2. CASE ~shared
  BY <1>1, <1>2 DEF TrustInv, Trusting, Stranger, Familiar
<1>3. CASE shared /\ halves = 0
  BY <1>1, <1>3 DEF TrustInv, Knows, Familiar
<1>4. CASE shared /\ halves = 1
  BY <1>1, <1>4 DEF TrustInv, IsAhead, Keeps, Familiar
<1> QED BY <1>1, <1>2, <1>3, <1>4 DEF Trusting

\* What a turn does of this.
Retains(p, c, d, kept) ==
    /\ kept.rs1 = session /\ c.state = "secure"
    /\ \/ d.mismatch
       \/ d.state \in Comparing /\ kept.rs2 = d.secrets.rs1

ComparesWell(p, c, d, o) ==
    /\ Offers(p) /\ Offers(Other(p))
    /\ Familiar(d.offered, o.offered) /\ ~d.mismatch
          => /\ ~c.mismatch
             /\ d.offered.rs1 # None /\ d.offered.rs1 = o.offered.rs1
                   => c.secrets.rs1 = o.offered.rs1

TrustStep(p, c, d, o, kept, S) ==
    /\ kept = cache[p] \/ Retains(p, c, d, kept)
    /\ d.state \in Over => c.state \in Over
    /\ c.offered = d.offered \/ (c.offered = cache[p] /\ d.state \in Unmet)
    /\ Offering(c) \/ "DHPart1" \in S \/ "DHPart2" \in S
          => Offering(d) \/ (c.offered = cache[p] /\ d.state \in Unmet)
    /\ \/ /\ c.mismatch => d.mismatch
          /\ c.state \in Comparing => d.state \in Comparing /\ c.secrets = d.secrets
       \/ ComparesWell(p, c, d, o)

LEMMA TurnsTrust ==
    ASSUME ZrtpInv, S0Inv, NEW p \in Peers, NEW S \in SUBSET Messages, NEW c, NEW kept,
           \/ Alone(p, c, chan[p], kept, S)
           \/ \E m \in ToSet(link[Other(p)]) :
                 Turn(p, m, c, chan[p], chan[Other(p)], kept, S)
    PROVE  TrustStep(p, c, chan[p], chan[Other(p)], kept, S)
<1> DEFINE d == chan[p]
           o == chan[Other(p)]
<1>1. /\ d \in ChannelContext /\ o.offered \in Pair /\ d.state \in ChannelStates
      /\ d.state \in {"sendingCommit", "responderSendingDHPart1"}
            => d.secrets = d.offered /\ Offers(p)
  BY EndFacts DEF S0Inv, Offers, Offering, Unmet
<1>2. /\ "DHPart1" \in ToSet(link[Other(p)]) => Offers(Other(p))
      /\ "DHPart2" \in ToSet(link[Other(p)]) => Offers(Other(p))
  BY DEF Offers
<1> HIDE DEF d, o
<1> USE DEF TrustStep, Unmet, Over, Comparing, Offering
<1>3. ASSUME Alone(p, c, d, kept, S)
      PROVE  TrustStep(p, c, d, o, kept, S)
  <2>1. CASE kept = cache[p] /\ Repeats(c, d, S)
    BY <2>1 DEF Repeats
  <2>2. CASE kept = cache[p] /\ Waits(c, d, S)
    BY <1>1, <2>2 DEF Waits, SameSecrets
  <2>3. CASE Approves(c, d, kept, S)
    BY <2>3 DEF Approves, Retains
  <2> QED BY <1>3, <2>1, <2>2, <2>3 DEF Alone
<1>4. ASSUME NEW m \in ToSet(link[Other(p)]), Turn(p, m, c, d, o, kept, S)
      PROVE  TrustStep(p, c, d, o, kept, S)
  <2>1. CASE kept = cache[p] /\ Repeats(c, d, S)
    BY <2>1 DEF Repeats
  <2>2. CASE kept = cache[p] /\ Meets(p, c, d, S)
    BY <2>2 DEF Meets
  <2>3. CASE kept = cache[p] /\ IsMet(c, d, S)
    BY <2>3 DEF IsMet, SameSecrets
  <2>4. CASE kept = cache[p] /\ Yields(c, d, S)
    BY <2>4 DEF Yields, SameSecrets
  <2>5. CASE /\ kept = cache[p] /\ Compares(p, c, d, o, S)
             /\ m = (IF d.state = "sendingCommit" THEN "DHPart1" ELSE "DHPart2")
    <3>1. /\ d.state \in {"sendingCommit", "responderSendingDHPart1"}
          /\ c.state \in Comparing /\ c.offered = d.offered
          /\ \/ /\ c.secrets = InitiatorChecks(d, o.offered).secrets
                /\ c.mismatch => InitiatorChecks(d, o.offered).mismatch
             \/ /\ c.secrets = ResponderChecks(d, o.offered).secrets
                /\ c.mismatch => ResponderChecks(d, o.offered).mismatch
      BY <2>5 DEF Compares
    <3>2. Offers(p) /\ Offers(Other(p)) /\ d.secrets = d.offered
      BY <1>1, <1>2, <1>4, <2>5, <3>1
    <3>3. ASSUME Familiar(d.offered, o.offered), ~d.mismatch
          PROVE  /\ ~c.mismatch
                 /\ d.offered.rs1 # None /\ d.offered.rs1 = o.offered.rs1
                       => c.secrets.rs1 = o.offered.rs1
      <4>1. /\ ~InitiatorChecks(d, o.offered).mismatch
            /\ ~ResponderChecks(d, o.offered).mismatch
            /\ d.secrets.rs1 # None /\ d.secrets.rs1 = o.offered.rs1
                  => /\ InitiatorChecks(d, o.offered).secrets.rs1 = o.offered.rs1
                     /\ ResponderChecks(d, o.offered).secrets.rs1 = o.offered.rs1
        BY <1>1, <3>2, <3>3, FamiliarChecks
      <4> QED BY <3>1, <3>2, <4>1
    <3>4. ComparesWell(p, c, d, o)
      BY <3>2, <3>3 DEF ComparesWell
    <3> QED BY <2>5, <3>1, <3>4
  <2>6. CASE kept = cache[p] /\ Confirms(c, d, S)
    BY <2>6 DEF Confirms, SameSecrets
  <2>7. CASE Secures(p, c, d, kept, S)
    <3>1. kept = cache[p] \/ Retains(p, c, d, kept)
      BY <2>7 DEF Secures, Retained, Retains
    <3> QED BY <2>7, <3>1 DEF Secures
  <2> QED BY <1>4, <2>1, <2>2, <2>3, <2>4, <2>5, <2>6, <2>7 DEF Turn
<1> QED BY <1>3, <1>4 DEF d, o

LEMMA TrustKeepsTurns ==
    ASSUME ZrtpInv, S0Inv, TrustInv, NEW p \in Peers, NEW S \in SUBSET Messages,
           OnlyEnd(p, S),
           \/ Alone(p, chan'[p], chan[p], cache'[p], S)
           \/ \E m \in ToSet(link[Other(p)]) :
                 Turn(p, m, chan'[p], chan[p], chan[Other(p)], cache'[p], S)
    PROVE  TrustInv'
<1> DEFINE o == Other(p)
           c == chan'[p]
           d == chan[p]
           kept == cache'[p]
<1>1. /\ o \in Peers /\ o # p /\ Other(o) = p
      /\ \A q \in Peers : q = p \/ q = o
  BY TwoEnds
<1>2. TrustStep(p, c, d, chan[o], kept, S)
  BY TurnsTrust
<1>3. /\ chan'[o] = chan[o] /\ cache'[o] = cache[o]
      /\ ToSet(link'[p]) \subseteq ToSet(link[p]) \cup S
      /\ ToSet(link'[o]) \subseteq ToSet(link[o])
      /\ session' = session /\ shared' = shared /\ halves' = halves
  BY DEF OnlyEnd, history
<1>4. /\ halves \in Nat /\ session \in Nat /\ session # None
      /\ \A q \in Peers : cache[q].rs1 <= session
  BY ZrtpAssumption DEF ZrtpInv, CountInv, TypeOK, TrustInv, None
<1>5. /\ Fresh(o)' <=> Fresh(o)
      /\ Offers(o)' => Offers(o)
      /\ Trusting' <=> Trusting
  BY <1>3 DEF Fresh, Offers, Trusting
<1>6. /\ Fresh(p) => d.state \in Over
      /\ Trusting => ~d.mismatch
      /\ Trusting => ~chan[o].mismatch
      /\ Fresh(o) => chan[o].state \in Over
  BY <1>1 DEF TrustInv
\* The end starts to offer what it reads from its cache.
<1>7. /\ Offers(p)' => Offers(p) \/ (c.offered = cache[p] /\ d.state \in Unmet)
      /\ c.offered = d.offered \/ (c.offered = cache[p] /\ d.state \in Unmet)
      /\ d.state \in Unmet => ~Fresh(p)
  <2>1. Offers(p)' => \/ Offering(c) \/ "DHPart1" \in S \/ "DHPart2" \in S
                      \/ "DHPart1" \in ToSet(link[p]) \/ "DHPart2" \in ToSet(link[p])
    BY <1>3 DEF Offers
  <2>2. d.state \in Unmet => d.state \notin Over
    BY DEF Unmet, Over
  <2> QED BY <1>2, <1>6, <2>1, <2>2 DEF TrustStep, Offers
<1>8. /\ kept = cache[p] \/ Retains(p, c, d, kept)
      /\ d.state \in Over => c.state \in Over
  BY <1>2 DEF TrustStep
<1>9. /\ Retains(p, c, d, kept) => Fresh(p)' /\ c.state \in Over
      /\ kept = cache[p] => (Fresh(p)' <=> Fresh(p))
  BY <1>3 DEF Retains, Fresh, Over
<1>10. \A q \in Peers : /\ cache'[q].rs1 <= session'
                        /\ Fresh(q)' => chan'[q].state \in Over
  <2>1. cache'[p].rs1 <= session' /\ (Fresh(p)' => c.state \in Over)
    BY <1>3, <1>4, <1>6, <1>8, <1>9 DEF Retains
  <2>2. cache'[o].rs1 <= session' /\ (Fresh(o)' => chan'[o].state \in Over)
    BY <1>1, <1>3, <1>4, <1>5, <1>6
  <2>3. \A q \in Peers : q = p \/ q = o
    BY <1>1
  <2> QED BY <2>1, <2>2, <2>3 DEF Fresh
<1>11. Trusting => ~c.mismatch
  <2> SUFFICES ASSUME Trusting
               PROVE  ~c.mismatch
    OBVIOUS
  <2>1. CASE c.mismatch => d.mismatch
    BY <1>6, <2>1
  <2>2. CASE ComparesWell(p, c, d, chan[o])
    <3>1. Familiar(d.offered, chan[o].offered)
      BY <2>2, TrustIsFamiliar DEF ComparesWell
    <3> QED BY <1>6, <2>2, <3>1 DEF ComparesWell
  <2> QED BY <1>2, <2>1, <2>2 DEF TrustStep
<1>12. ASSUME ~shared, halves = 0
       PROVE  \A q \in Peers : Stranger(q)'
  <2>1. Stranger(p) /\ Stranger(o)
    BY <1>1, <1>12 DEF TrustInv
  <2>2. Stranger(o)'
    BY <1>3, <1>5, <2>1 DEF Stranger
  <2>3. Stranger(p)'
    BY <1>7, <1>8, <1>9, <2>1 DEF Stranger
  <2>4. \A q \in Peers : q = p \/ q = o
    BY <1>1
  <2> QED BY <2>2, <2>3, <2>4 DEF Stranger, Fresh, Offers
<1>13. ASSUME shared, halves = 0
       PROVE  \E k \in Secrets \ {None} : \A q \in Peers : Knows(q, k)'
  <2>1. PICK k \in Secrets \ {None} : \A q \in Peers : Knows(q, k)
    BY <1>13 DEF TrustInv
  <2>2. Knows(p, k) /\ Knows(o, k) /\ ~d.mismatch
    BY <1>1, <1>6, <1>13, <2>1 DEF Trusting
  <2>3. Knows(o, k)'
    BY <1>3, <1>5, <2>2 DEF Knows
  <2>4. /\ ~Fresh(p)' => kept.rs1 = k
        /\ Fresh(p)' => kept.rs2 = k
    <3>1. CASE kept = cache[p]
      BY <1>9, <2>2, <3>1 DEF Knows
    <3>2. CASE Retains(p, c, d, kept)
      BY <1>9, <2>2, <3>2 DEF Retains, Knows
    <3> QED BY <1>8, <3>1, <3>2
  <2>5. Offers(p)' => c.offered.rs1 = k
    BY <1>7, <2>2 DEF Knows
  <2>6. c.state \in Comparing => c.secrets.rs1 = k
    <3>1. CASE c.state \in Comparing => d.state \in Comparing /\ c.secrets = d.secrets
      BY <2>2, <3>1 DEF Knows
    <3>2. CASE ComparesWell(p, c, d, chan[o])
      <4>1. d.offered.rs1 = k /\ chan[o].offered.rs1 = k
        BY <2>2, <3>2 DEF ComparesWell, Knows
      <4>2. Familiar(d.offered, chan[o].offered)
        BY <4>1 DEF Familiar
      <4> QED BY <2>2, <3>2, <4>1, <4>2 DEF ComparesWell
    <3> QED BY <1>2, <3>1, <3>2 DEF TrustStep
  <2>7. Knows(p, k)'
    BY <2>4, <2>5, <2>6 DEF Knows
  <2>8. \A q \in Peers : q = p \/ q = o
    BY <1>1
  <2>9. \A q \in Peers : Knows(q, k)'
    BY <2>3, <2>7, <2>8 DEF Knows, Fresh, Offers
  <2> QED BY <2>9
<1>14. ASSUME shared, halves = 1
       PROVE  \E k \in Secrets \ {None}, q \in Peers : IsAhead(q, k)' /\ Keeps(Other(q), k)'
  <2>1. PICK k \in Secrets \ {None}, q \in Peers : IsAhead(q, k) /\ Keeps(Other(q), k)
    BY <1>14 DEF TrustInv
  <2>2. CASE q = p
    <3>1. IsAhead(p, k) /\ Keeps(o, k)
      BY <2>1, <2>2
    <3>2. IsAhead(p, k)' /\ Keeps(o, k)'
      BY <1>3, <1>5, <1>7, <1>8, <1>9, <3>1 DEF IsAhead, Keeps
    <3> QED BY <3>2
  <2>3. CASE q = o
    <3>1. IsAhead(o, k) /\ Keeps(p, k)
      BY <1>1, <2>1, <2>3
    <3>2. IsAhead(o, k)' /\ Keeps(p, k)'
      BY <1>3, <1>5, <1>7, <1>8, <1>9, <3>1 DEF IsAhead, Keeps
    <3> QED BY <1>1, <3>2
  <2> QED BY <1>1, <2>2, <2>3
<1>15. \A q \in Peers : Trusting' => ~chan'[q].mismatch
  BY <1>1, <1>3, <1>5, <1>6, <1>11
<1> QED BY <1>3, <1>10, <1>12, <1>13, <1>14, <1>15 DEF TrustInv

\* The next session starts with what each end has retained by then.
LEMMA TrustKeepsSession == ZrtpInv /\ TrustInv /\ NextSession => TrustInv'
<1> SUFFICES ASSUME ZrtpInv, TrustInv, NextSession
             PROVE  TrustInv'
  OBVIOUS
<1> DEFINE updated == {q \in Peers : cache[q].rs1 = session}
<1>1. /\ session \in Nat /\ session # None /\ session \in Secrets
      /\ halves \in Nat /\ shared \in BOOLEAN
  BY ZrtpAssumption DEF ZrtpInv, CountInv, TypeOK, None, Secrets
<1>2. /\ \A q \in Peers : chan'[q] = NewChannel /\ ToSet(link'[q]) = {}
      /\ cache' = cache /\ session' = session + 1
      /\ updated = Peers => shared' /\ halves' = 0
      /\ updated # Peers => (shared' <=> shared)
      /\ updated = {} /\ updated # Peers => halves' = halves
      /\ updated # {} /\ updated # Peers => halves' = halves + 1
  BY FreshChannel DEF NextSession
<1>3. \A q \in Peers : cache[q] \in Pair /\ cache[q].rs1 <= session
  BY DEF ZrtpInv, CountInv, TypeOK, TrustInv
<1>4. \A q \in Peers : cache[q].rs1 \in Int
  BY <1>3, ZrtpAssumption DEF Pair, Secrets
<1>5. \A q \in Peers : ~Fresh(q)' /\ ~Offers(q)' /\ chan'[q].state \notin Comparing
  <2>1. \A q \in Peers : ~Fresh(q)'
    BY <1>1, <1>2, <1>3, <1>4 DEF Fresh
  <2>2. \A q \in Peers : ~Offers(q)' /\ chan'[q].state \notin Comparing
    BY <1>2, FreshChannel DEF Offers, Offering, Unmet, Comparing
  <2> QED BY <2>1, <2>2
<1>6. \A q \in Peers : ~chan'[q].mismatch /\ cache'[q].rs1 <= session'
  BY <1>1, <1>2, <1>3, <1>4 DEF NewChannel
<1>7. \A q \in Peers : Fresh(q) <=> q \in updated
  BY DEF Fresh
<1>8. ASSUME ~shared', halves' = 0
      PROVE  \A q \in Peers : Stranger(q)'
  <2>1. updated = {} /\ ~shared /\ halves = 0
    BY <1>1, <1>2, <1>8
  <2>2. \A q \in Peers : cache[q] = Empty
    BY <1>7, <2>1 DEF TrustInv, Stranger
  <2> QED BY <1>2, <1>5, <2>2 DEF Stranger
<1>9. ASSUME shared', halves' = 0
      PROVE  \E k \in Secrets \ {None} : \A q \in Peers : Knows(q, k)'
  <2>1. CASE updated = Peers
    <3>1. PICK k \in Secrets \ {None} : k = session
      BY <1>1
    <3>2. \A q \in Peers : Knows(q, k)'
      BY <1>2, <1>5, <1>7, <2>1, <3>1 DEF Knows, Fresh
    <3> QED BY <3>2
  <2>2. CASE updated # Peers
    <3>1. updated = {} /\ shared /\ halves = 0
      BY <1>1, <1>2, <1>9, <2>2
    <3>2. PICK k \in Secrets \ {None} : \A q \in Peers : Knows(q, k)
      BY <3>1 DEF TrustInv
    <3>3. \A q \in Peers : Knows(q, k)'
      BY <1>2, <1>5, <1>7, <3>1, <3>2 DEF Knows
    <3> QED BY <3>2, <3>3
  <2> QED BY <2>1, <2>2
<1>10. ASSUME shared', halves' = 1
       PROVE  \E k \in Secrets \ {None}, q \in Peers : IsAhead(q, k)' /\ Keeps(Other(q), k)'
  <2>1. updated # Peers /\ shared
    BY <1>2, <1>10
  <2>2. CASE updated = {}
    <3>1. halves = 1
      BY <1>2, <1>10, <2>1, <2>2
    <3>2. PICK k \in Secrets \ {None}, q \in Peers : IsAhead(q, k) /\ Keeps(Other(q), k)
      BY <2>1, <3>1 DEF TrustInv
    <3>3. Other(q) \in Peers
      BY TwoEnds
    <3>4. IsAhead(q, k)' /\ Keeps(Other(q), k)'
      BY <1>2, <1>5, <1>7, <2>2, <3>2, <3>3 DEF IsAhead, Keeps
    <3> QED BY <3>2, <3>4
  <2>3. CASE updated # {}
    <3>1. halves = 0
      BY <1>1, <1>2, <1>10, <2>1, <2>3
    <3>2. PICK k \in Secrets \ {None} : \A q \in Peers : Knows(q, k)
      BY <2>1, <3>1 DEF TrustInv
    <3>3. PICK q \in updated : TRUE
      BY <2>3
    <3>4. q \in Peers /\ Other(q) \in Peers /\ Fresh(q) /\ ~Fresh(Other(q))
      BY <1>7, <2>1, <3>3, TwoEnds
    <3>5. cache[q].rs2 = k /\ cache[Other(q)].rs1 = k
      BY <3>2, <3>4 DEF Knows
    <3>6. IsAhead(q, k)' /\ Keeps(Other(q), k)'
      BY <1>2, <1>5, <3>4, <3>5 DEF IsAhead, Keeps
    <3> QED BY <3>2, <3>4, <3>6
  <2> QED BY <2>2, <2>3
<1> QED BY <1>5, <1>6, <1>8, <1>9, <1>10 DEF TrustInv

LEMMA TrustKeeps == ZrtpInv /\ S0Inv /\ TrustInv /\ [Next]_vars => TrustInv'
BY Steps, TrustKeepsTurns, TrustKeepsSession

\* Before a warning of an intruder one end missed an update of the cache that
\* the other made, and when a session was completed by both before, two of
\* them in a row: the older secret makes up for one, whoever is the initiator
\* next (bzrtp_updateCachedSecrets, stateMachine.c:551).
THEOREM NoIdleWarning == Spec => []MismatchTakesTwo
<1>1. Init => S0Inv /\ TrustInv
  <2> SUFFICES ASSUME Init
               PROVE  S0Inv /\ TrustInv
    OBVIOUS
  <2>1. /\ \A q \in Peers : /\ chan[q] = NewChannel /\ ToSet(link[q]) = {}
                            /\ cache[q] = Empty
        /\ session = 1 /\ ~shared /\ halves = 0
    BY FreshChannel DEF Init
  <2>2. /\ NewChannel.offered = Empty /\ NewChannel.s0 = {} /\ Newest(Empty)
        /\ ~NewChannel.mismatch /\ Empty.rs1 = 0
    BY DEF NewChannel, Newest, Empty, None
  <2>3. S0Inv
    BY <2>1, <2>2, FreshChannel DEF S0Inv
  <2>4. TrustInv
    BY <2>1, <2>2 DEF TrustInv, Stranger, Fresh
  <2> QED BY <2>3, <2>4
<1>2. ZrtpInv /\ TrustInv => MismatchTakesTwo
  <2>1. ZrtpInv => halves \in Nat
    BY ZrtpAssumption DEF ZrtpInv, CountInv, TypeOK
  <2> QED BY <2>1 DEF TrustInv, Trusting, MismatchTakesTwo
<1> QED BY <1>1, <1>2, S0Keeps, TrustKeeps, Invariant, PTL DEF Spec

=============================================================================
