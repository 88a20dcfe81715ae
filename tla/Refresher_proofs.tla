-------------------------- MODULE Refresher_proofs --------------------------
(***************************************************************************)
(* What a refresher keeps, for every number of requests and addresses: a   *)
(* retry and a request exclude each other, and a registration carries the  *)
(* expiry that was asked for last.                                         *)
(*                                                                         *)
(* A handler is a chain of functions from world to world, so the lemmas    *)
(* are about worlds: each says what one function keeps of the worlds in    *)
(* the middle of a handler, where the invariant need not hold.             *)
(***************************************************************************)
EXTENDS Refresher, TLAPS

-----------------------------------------------------------------------------
\* The worlds a handler goes through.  One that is beyond the bound when the
\* handler ends is not a step.
Refreshers ==
    [started : BOOLEAN, timer : {"none", "normal", "retry"}, expires : {0, 1},
     challenged : BOOLEAN, ioError : BOOLEAN, pending : BOOLEAN,
     current : Nat \ {0}]

Worlds ==
    [transactions : [Ids -> Transaction], channel : Channel,
     refresher : Refreshers, told : [code : Codes, retry : BOOLEAN]]

Within(w) == w.refresher.current <= MaxRequests

Waiting(w) == Transient(Current(w).state)

\* RetryXorRequest of a world.
Exclusive(w) == w.refresher.timer # "none" => ~Waiting(w)

\* The current request of a registration, and the refresher, have expiry a.  A
\* refresher that was asked to unregister and is not stopped could not send:
\* it has nothing that could make it act.
Unsent(w) ==
    /\ w.refresher.timer = "none"
    /\ Current(w).state = "TERMINATED" /\ ~Current(w).linked
    /\ w.told.code # "401"

Faithful(w, a) ==
    method = "REGISTER" =>
        /\ Current(w).expires = a /\ w.refresher.expires = a
        /\ w.refresher.started /\ a = 0 => Unsent(w)

\* There is something to refresh.
Live(w, a) == method = "REGISTER" /\ w.refresher.started => a = 1

RefresherInv == TypeOK /\ Within(Now) /\ Exclusive(Now) /\ Faithful(Now, asked)

-----------------------------------------------------------------------------
\* What a function does to the world it gets: it never goes back to an older
\* request nor starts a refresher that was stopped.
Follows(w, v) ==
    /\ v \in Worlds
    /\ v.refresher.current >= w.refresher.current
    /\ v.refresher.started => w.refresher.started

\* ... and what it keeps of the expiry.
Keeps(w, v, a) == Follows(w, v) /\ (Within(v) => Faithful(v, a))

LEMMA CurrentId ==
    ASSUME NEW w \in Worlds
    PROVE  /\ Within(w) => w.refresher.current \in Ids /\ w.refresher.current + 1 \in Ids
           /\ w.refresher.current \in Nat \ {0}
BY NonInviteAssumption DEF Worlds, Refreshers, Within, Ids

LEMMA EndedFacts ==
    ASSUME NEW w \in Worlds, NEW t \in Nat
    PROVE  LET v == Ended(w, t) IN
           /\ v \in Worlds
           /\ v.channel = w.channel /\ v.refresher = w.refresher /\ v.told = w.told
           /\ \A u \in Ids : u # t => v.transactions[u] = w.transactions[u]
           /\ t \in Ids => v.transactions[t] =
                 [w.transactions[t] EXCEPT !.state = "TERMINATED", !.timers = {}]
<1> DEFINE over == [w.transactions[t] EXCEPT !.state = "TERMINATED", !.timers = {}]
           kept == [w.transactions EXCEPT ![t] = over]
<1>1. Ended(w, t) = [w EXCEPT !.transactions = kept]
  BY DEF Ended, Worlds
<1>2. t \in Ids => over \in Transaction
  <2>1. t \in Ids => w.transactions[t] \in Transaction
    BY DEF Worlds
  <2>2. ASSUME NEW x \in Transaction
        PROVE  [x EXCEPT !.state = "TERMINATED", !.timers = {}] \in Transaction
    <3> DEFINE none == {}
    <3>1. none \in SUBSET {"F", "K"} /\ "TERMINATED" \in TransactionStates
      BY DEF TransactionStates
    <3> HIDE DEF none
    <3>2. [x EXCEPT !.state = "TERMINATED", !.timers = none] \in Transaction
      BY <3>1 DEF Transaction
    <3> QED BY <3>2 DEF none
  <2> QED BY <2>1, <2>2
<1> HIDE DEF over
<1>3. kept \in [Ids -> Transaction] /\ (t \in Ids => kept[t] = over)
      /\ \A u \in Ids : u # t => kept[u] = w.transactions[u]
  BY <1>2 DEF Worlds
<1> HIDE DEF kept
<1> QED BY <1>1, <1>3 DEF Worlds, over

LEMMA NictSendType ==
    ASSUME NEW x \in Transaction
    PROVE  /\ NictSend(x) \in Transaction
           /\ NictSend(x).expires = x.expires /\ NictSend(x).linked = x.linked
           /\ NictSend(x).state = "TRYING"
BY DEF NictSend, Transaction, TransactionStates

LEMMA SendRequestFacts ==
    ASSUME NEW w \in Worlds, NEW t \in Nat, NEW reachable \in BOOLEAN
    PROVE  LET v == SendRequest(w, t, reachable) IN
           /\ v \in Worlds
           /\ v.refresher = w.refresher /\ v.told = w.told
           /\ t \in Ids => v.transactions[t].expires = w.transactions[t].expires
           /\ t \in Ids /\ ~HasChannel(w, reachable) =>
                 /\ v.transactions[t].state = "TERMINATED"
                 /\ v.transactions[t].linked = w.transactions[t].linked
<1> DEFINE linked == [w.transactions[t] EXCEPT !.linked = TRUE]
           sent   == IF w.channel.state = "ready" THEN NictSend(linked) ELSE linked
           made   == [state |-> "connecting", left |-> Alternates]
           v == SendRequest(w, t, reachable)
<1>1. CASE ~HasChannel(w, reachable)
  <2>1. v = Ended(w, t)
    BY <1>1 DEF SendRequest
  <2> HIDE DEF v
  <2>2. t \in Ids => w.transactions[t] \in Transaction
    BY DEF Worlds
  <2>3. \A x \in Transaction :
           LET y == [x EXCEPT !.state = "TERMINATED", !.timers = {}]
           IN  y.state = "TERMINATED" /\ y.linked = x.linked /\ y.expires = x.expires
    BY DEF Transaction
  <2>4. v \in Worlds /\ v.refresher = w.refresher /\ v.told = w.told
    BY <2>1, EndedFacts
  <2>5. t \in Ids => v.transactions[t] =
           [w.transactions[t] EXCEPT !.state = "TERMINATED", !.timers = {}]
    BY <2>1, EndedFacts
  <2> QED BY <2>2, <2>3, <2>4, <2>5 DEF v
<1>2. CASE HasChannel(w, reachable)
  <2>1. made \in Channel
    BY NonInviteAssumption DEF Channel, ChannelStates
  <2>2. t \in Ids => sent \in Transaction /\ sent.expires = w.transactions[t].expires
    <3>1. t \in Ids => linked \in Transaction /\ linked.expires = w.transactions[t].expires
      BY DEF Worlds, Transaction
    <3> QED BY <3>1, NictSendType
  <2>3. v = [w EXCEPT !.transactions = [@ EXCEPT ![t] = sent],
                      !.channel = IF @.state = "none" THEN made ELSE @]
    BY <1>2 DEF SendRequest
  <2> HIDE DEF sent, made, v
  <2>4. [w.transactions EXCEPT ![t] = sent] \in [Ids -> Transaction]
    BY <2>2 DEF Worlds
  <2>5. v \in Worlds /\ v.refresher = w.refresher /\ v.told = w.told
        /\ v.transactions = [w.transactions EXCEPT ![t] = sent]
    BY <2>1, <2>3, <2>4 DEF Worlds
  <2> QED BY <1>2, <2>2, <2>5 DEF Worlds, v
<1> QED BY <1>1, <1>2

-----------------------------------------------------------------------------
\* A new request takes the place of the current one.
LEMMA ReplacedFacts ==
    ASSUME NEW w \in Worlds
    PROVE  LET v == Replaced(w) IN
           /\ v \in Worlds /\ v.channel = w.channel /\ v.told = Nothing
           /\ v.refresher = [w.refresher EXCEPT !.current = w.refresher.current + 1,
                                                !.ioError = FALSE]
           /\ Within(w) => /\ Current(v).expires = w.refresher.expires
                           /\ ~Current(v).linked
<1> DEFINE old == w.refresher.current
           w1  == IF Current(w).state \in {"INIT", "TRYING"} THEN Ended(w, old) ELSE w
           new == [Unused EXCEPT !.state = "INIT", !.expires = w.refresher.expires]
           trs == [w1.transactions EXCEPT ![old + 1] = new]
           ref == [w.refresher EXCEPT !.current = old + 1, !.ioError = FALSE]
           v   == Replaced(w)
<1>1. old \in Nat \ {0}
  BY CurrentId
<1>2. /\ w1 \in Worlds
      /\ w1.channel = w.channel /\ w1.refresher = w.refresher /\ w1.told = w.told
  BY <1>1, EndedFacts
<1> HIDE DEF w1
<1>3. new \in Transaction /\ new.expires = w.refresher.expires /\ ~new.linked
  <2> DEFINE nothing == {}
  <2>1. nothing \in SUBSET {"F", "K"} /\ "INIT" \in TransactionStates
    BY DEF TransactionStates
  <2>2. Unused = [state |-> "NULL", timers |-> nothing, linked |-> FALSE,
                  timedOut |-> FALSE, expires |-> 0]
    BY DEF Unused
  <2>3. w.refresher.expires \in {0, 1}
    BY DEF Worlds, Refreshers
  <2> HIDE DEF nothing
  <2> QED BY <2>1, <2>2, <2>3 DEF Transaction
<1> HIDE DEF new
<1>4. v = [w1 EXCEPT !.transactions = trs, !.refresher = ref, !.told = Nothing]
  <2>1. v = [w1 EXCEPT !.transactions[old + 1] = new,
                       !.refresher.current = old + 1,
                       !.refresher.ioError = FALSE, !.told = Nothing]
    BY DEF Replaced, w1, new
  <2> QED BY <1>2, <2>1 DEF Worlds
<1>5. trs \in [Ids -> Transaction] /\ (old + 1 \in Ids => trs[old + 1] = new)
  BY <1>2, <1>3 DEF Worlds
<1>6. ref \in Refreshers /\ ref.current = old + 1
  <2>1. w.refresher \in Refreshers
    BY DEF Worlds
  <2>2. ASSUME NEW x \in Refreshers, NEW n \in Nat \ {0}
        PROVE  LET y == [x EXCEPT !.current = n, !.ioError = FALSE]
               IN  y \in Refreshers /\ y.current = n
    BY DEF Refreshers
  <2>3. old + 1 \in Nat \ {0}
    BY <1>1
  <2> QED BY <2>1, <2>2, <2>3
<1>7. Nothing \in [code : Codes, retry : BOOLEAN]
  BY DEF Nothing, Codes
<1> HIDE DEF trs, ref, v
<1>8. /\ v \in Worlds /\ v.channel = w.channel /\ v.told = Nothing
      /\ v.refresher = ref /\ v.transactions = trs
  BY <1>2, <1>4, <1>5, <1>6, <1>7 DEF Worlds
<1>9. Within(w) => old + 1 \in Ids
  BY CurrentId
<1> QED BY <1>3, <1>5, <1>6, <1>8, <1>9 DEF Current, v, ref

\* What belle_sip_refresher_refresh_internal leaves behind when it was asked
\* for expiry e, or was to keep it.
Wanted(w, keep, expires) == IF keep THEN w.refresher.expires ELSE expires

Refreshed(w, v, keep, e, authorized) ==
    /\ Follows(w, v)
    /\ v.refresher.timer \in {w.refresher.timer, "none"}
    /\ v.refresher.current \in {w.refresher.current, w.refresher.current + 1}
    /\ method = "REGISTER" /\ authorized =>
          /\ v.refresher.expires = e
          /\ v.told.code # "401"
          /\ Within(v) => /\ Current(v).expires = e
                          /\ v.refresher.started /\ ~keep /\ e = 0
                                => /\ Current(v).state = "TERMINATED"
                                   /\ ~Current(v).linked
    /\ method = "REGISTER" /\ ~authorized =>
          /\ v.refresher.expires = e
          /\ v.refresher.current = w.refresher.current
          /\ v.transactions = w.transactions

LEMMA RefreshInternalFacts ==
    ASSUME NEW w \in Worlds, NEW keep \in BOOLEAN, NEW expires \in {0, 1},
           NEW authorized \in BOOLEAN, NEW reachable \in BOOLEAN
    PROVE  Refreshed(w, RefreshInternal(w, keep, expires, authorized, reachable),
                     keep, Wanted(w, keep, expires), authorized)
<1> DEFINE v  == RefreshInternal(w, keep, expires, authorized, reachable)
           e  == Wanted(w, keep, expires)
           w1 == [w EXCEPT !.refresher.expires = IF keep THEN @ ELSE expires]
           w2 == Replaced(w1)
           c  == w2.refresher.current
           w3 == SendRequest(w2, c, reachable)
<1>1. /\ w1 \in Worlds /\ w1.channel = w.channel /\ w1.told = w.told
      /\ w1.refresher = [w.refresher EXCEPT !.expires = e]
      /\ w1.transactions = w.transactions
  BY DEF Worlds, Refreshers, Wanted
<1>2. v = IF Delayed(w) THEN [w1 EXCEPT !.refresher.pending = TRUE]
          ELSE IF ~authorized THEN w1
          ELSE IF ~keep /\ expires = 0 /\ HasChannel(w, reachable)
               THEN Stopped(w3) ELSE w3
  BY DEF RefreshInternal
<1>0. ~keep => e = expires
  BY DEF Wanted
<1> SUFFICES Refreshed(w, v, keep, e, authorized)
  OBVIOUS
<1> HIDE DEF w1, v, e
<1>3. /\ w2 \in Worlds /\ w2.channel = w.channel /\ w2.told = Nothing
      /\ w2.refresher = [w1.refresher EXCEPT !.current = w.refresher.current + 1,
                                             !.ioError = FALSE]
      /\ Within(w1) => /\ w2.transactions[c].expires = e
                       /\ ~w2.transactions[c].linked
  BY <1>1, ReplacedFacts DEF Current, Worlds, Refreshers
<1> HIDE DEF w2
<1>4. c \in Nat /\ c = w.refresher.current + 1
  BY <1>1, <1>3, CurrentId DEF Worlds, Refreshers
<1>5. Within(w2) => c \in Ids /\ Within(w1)
  <2>1. w1.refresher.current = w.refresher.current
    BY <1>1 DEF Worlds, Refreshers
  <2>2. w.refresher.current \in Nat
    BY CurrentId
  <2> HIDE DEF c
  <2>3. Within(w2) = (c <= MaxRequests)
    BY DEF Within, c
  <2> QED BY <1>4, <2>1, <2>2, <2>3, NonInviteAssumption DEF Within, Ids
<1>6. /\ w3 \in Worlds /\ w3.refresher = w2.refresher /\ w3.told = w2.told
      /\ c \in Ids => w3.transactions[c].expires = w2.transactions[c].expires
      /\ c \in Ids /\ ~HasChannel(w2, reachable) =>
            /\ w3.transactions[c].state = "TERMINATED"
            /\ w3.transactions[c].linked = w2.transactions[c].linked
  <2> HIDE DEF c
  <2>1. w2 \in Worlds /\ c \in Nat
    BY <1>3, <1>4
  <2> QED BY <2>1, SendRequestFacts
<1> HIDE DEF w3
<1>7. HasChannel(w2, reachable) = HasChannel(w, reachable)
  BY <1>3 DEF HasChannel
<1>8. CASE Delayed(w) \/ ~authorized
  <2>1. v = IF Delayed(w) THEN [w1 EXCEPT !.refresher.pending = TRUE] ELSE w1
    BY <1>2, <1>8
  <2>2. /\ v \in Worlds /\ v.refresher.timer = w.refresher.timer
        /\ v.refresher.current = w.refresher.current
        /\ v.refresher.started = w.refresher.started
    BY <2>1, <1>1 DEF Worlds, Refreshers
  <2>3. Follows(w, v) /\ v.refresher.timer = w.refresher.timer
    BY <2>2, CurrentId DEF Follows
  <2>4. ~(method = "REGISTER" /\ authorized)
    BY <1>8 DEF Delayed
  <2>5. v.refresher.expires = e /\ v.transactions = w.transactions
    BY <2>1, <1>1 DEF Worlds, Refreshers
  <2> QED BY <2>2, <2>3, <2>4, <2>5 DEF Refreshed
<1>9. CASE ~Delayed(w) /\ authorized
  <2>1. /\ w3.refresher.timer = w.refresher.timer
        /\ w3.refresher.started = w.refresher.started
        /\ w3.refresher.expires = e /\ w3.refresher.current = c
    BY <1>1, <1>3, <1>6 DEF Worlds, Refreshers
  <2>2. w3.told.code # "401"
    BY <1>3, <1>6 DEF Nothing
  <2>3. Within(w3) => /\ Current(w3).expires = e
                      /\ ~HasChannel(w, reachable) =>
                            /\ Current(w3).state = "TERMINATED"
                            /\ ~Current(w3).linked
    BY <1>3, <1>5, <1>6, <1>7, <2>1 DEF Within, Current
  <2>4. CASE ~keep /\ expires = 0 /\ HasChannel(w, reachable)
    <3>1. v = Stopped(w3)
      BY <1>2, <1>9, <2>4
    <3>2. /\ v \in Worlds /\ v.transactions = w3.transactions /\ v.told = w3.told
          /\ v.refresher.timer = "none" /\ ~v.refresher.started
          /\ v.refresher.current = c /\ v.refresher.expires = e
      BY <1>6, <2>1, <3>1 DEF Stopped, Worlds, Refreshers
    <3>3. Within(v) => Current(v).expires = e
      BY <2>1, <2>3, <3>2 DEF Within, Current
    <3>4. Follows(w, v)
      BY <1>4, <3>2, CurrentId DEF Follows
    <3> QED BY <1>4, <1>9, <2>2, <3>2, <3>3, <3>4 DEF Refreshed
  <2>5. CASE ~(~keep /\ expires = 0 /\ HasChannel(w, reachable))
    <3>1. v = w3
      BY <1>2, <1>9, <2>5
    <3>2. Follows(w, v)
      BY <1>4, <1>6, <2>1, <3>1, CurrentId DEF Follows
    <3> QED BY <1>0, <1>4, <1>9, <2>1, <2>2, <2>3, <2>5, <3>1, <3>2 DEF Refreshed
  <2> QED BY <2>4, <2>5
<1> QED BY <1>8, <1>9

\* belle_sip_refresher_refresh cancels the retry, and asks for the expiry it
\* is given or for the one it had.
LEMMA RefreshKeeps ==
    ASSUME NEW w \in Worlds, NEW keep \in BOOLEAN, NEW expires \in {0, 1},
           NEW reachable \in BOOLEAN, NEW a \in {0, 1},
           method = "REGISTER" => a = IF keep THEN w.refresher.expires ELSE expires,
           keep => Live(w, a)
    PROVE  LET v == Refresh(w, keep, expires, reachable)
           IN  Keeps(w, v, a) /\ v.refresher.timer = "none"
<1> DEFINE w1 == [w EXCEPT !.refresher.timer = "none", !.refresher.challenged = FALSE]
           v  == Refresh(w, keep, expires, reachable)
<1>1. /\ w1 \in Worlds /\ w1.refresher.timer = "none"
      /\ w1.refresher.current = w.refresher.current
      /\ w1.refresher.started = w.refresher.started
      /\ w1.refresher.expires = w.refresher.expires
  BY DEF Worlds, Refreshers
<1>2. v = RefreshInternal(w1, keep, expires, TRUE, reachable)
  BY DEF Refresh
<1> HIDE DEF w1
<1> DEFINE authorized == TRUE
           e == Wanted(w1, keep, expires)
<1>3. authorized \in BOOLEAN /\ authorized
  OBVIOUS
<1> HIDE DEF authorized
<1>4. Refreshed(w1, RefreshInternal(w1, keep, expires, authorized, reachable),
                keep, Wanted(w1, keep, expires), authorized)
  BY <1>1, <1>3, RefreshInternalFacts, Zenon
<1>5. Refreshed(w1, v, keep, e, authorized)
  BY <1>2, <1>4, Zenon DEF authorized
<1>6. method = "REGISTER" => e = a
  BY <1>1 DEF Wanted
<1> HIDE DEF v, e
<1>7. /\ Follows(w1, v)
      /\ v.refresher.timer \in {w1.refresher.timer, "none"}
      /\ method = "REGISTER" /\ authorized =>
            /\ v.refresher.expires = e
            /\ v.told.code # "401"
            /\ Within(v) => /\ Current(v).expires = e
                            /\ v.refresher.started /\ ~keep /\ e = 0
                                  => /\ Current(v).state = "TERMINATED"
                                     /\ ~Current(v).linked
  BY <1>5, Zenon DEF Refreshed
<1>8. Follows(w, v) /\ v.refresher.timer = "none"
  BY <1>1, <1>7 DEF Follows
<1>9. keep /\ method = "REGISTER" /\ v.refresher.started => a # 0
  BY <1>8 DEF Follows, Live
<1>10. Within(v) => Faithful(v, a)
  BY <1>3, <1>6, <1>7, <1>8, <1>9 DEF Faithful, Unsent
<1> QED BY <1>8, <1>10 DEF Keeps, v

\* The end of a transaction, with the PUBLISH that was waiting for it.  If a
\* retry was scheduled it was the current one that ended, or the retry is kept.
LEMMA TerminateKeeps ==
    ASSUME NEW w \in Worlds, NEW t \in Ids, NEW reachable \in BOOLEAN, NEW a \in {0, 1},
           Within(w) => Faithful(w, a),
           Within(w) => \/ w.refresher.timer = "none"
                        \/ t = w.refresher.current
                        \/ Exclusive(w)
    PROVE  LET v == Terminate(w, t, reachable)
           IN  Keeps(w, v, a) /\ (Within(v) => Exclusive(v))
<1> DEFINE w1 == Ended(w, t)
           w2 == [w1 EXCEPT !.refresher.pending = FALSE]
           w3 == Refresh(w2, FALSE, w.refresher.expires, reachable)
           w4 == [w3 EXCEPT !.told = [code |-> "lost", retry |-> FALSE]]
           v  == Terminate(w, t, reachable)
           c  == w.refresher.current
<1>0. /\ w.refresher.expires \in {0, 1} /\ t \in Nat /\ c \in Nat \ {0}
      /\ Within(w) => c \in Ids
  BY CurrentId DEF Worlds, Refreshers, Ids
<1>1. v = IF w.transactions[t].state = "TERMINATED" THEN w
          ELSE IF t # c THEN w1
          ELSE IF ~(w.refresher.pending /\ w.refresher.started) THEN w2
          ELSE IF HasChannel(w, reachable) THEN w3 ELSE w4
  BY DEF Terminate
<1>2. /\ w1 \in Worlds /\ w1.refresher = w.refresher /\ w1.told = w.told
      /\ \A u \in Ids : u # t => w1.transactions[u] = w.transactions[u]
      /\ w1.transactions[t].state = "TERMINATED"
      /\ w1.transactions[t].expires = w.transactions[t].expires
      /\ w1.transactions[t].linked = w.transactions[t].linked
  <2>1. w.transactions[t] \in Transaction
    BY DEF Worlds
  <2>2. \A x \in Transaction :
           LET y == [x EXCEPT !.state = "TERMINATED", !.timers = {}]
           IN  y.state = "TERMINATED" /\ y.linked = x.linked /\ y.expires = x.expires
    BY DEF Transaction
  <2>3. w1.transactions[t] =
           [w.transactions[t] EXCEPT !.state = "TERMINATED", !.timers = {}]
    BY <1>0, EndedFacts
  <2>4. /\ w1 \in Worlds /\ w1.refresher = w.refresher /\ w1.told = w.told
        /\ \A u \in Ids : u # t => w1.transactions[u] = w.transactions[u]
    BY <1>0, EndedFacts
  <2> QED BY <2>1, <2>2, <2>3, <2>4
<1> HIDE DEF w1
<1>3. /\ w2 \in Worlds /\ w2.transactions = w1.transactions /\ w2.told = w1.told
      /\ w2.refresher = [w.refresher EXCEPT !.pending = FALSE]
  BY <1>2 DEF Worlds, Refreshers
<1> HIDE DEF w2, v
<1>4. w.transactions[t].state = "TERMINATED" => Follows(w, w)
  BY <1>0 DEF Follows
<1>5. CASE v = w /\ w.transactions[t].state = "TERMINATED"
  BY <1>4, <1>5 DEF Keeps, Exclusive, Waiting, Transient, Current, v
<1>6. CASE v = w1 /\ t # c
  <2>1. Follows(w, v)
    BY <1>0, <1>2, <1>6 DEF Follows
  <2>2. Within(v) => Within(w) /\ Current(v) = Current(w)
    BY <1>0, <1>2, <1>6 DEF Within, Current
  <2>3. Within(v) => Faithful(v, a)
    BY <1>2, <1>6, <2>2 DEF Faithful, Unsent
  <2>4. Within(v) => Exclusive(v)
    BY <1>2, <1>6, <2>2 DEF Exclusive, Waiting
  <2> QED BY <2>1, <2>3, <2>4 DEF Keeps, v
<1>7. CASE v = w2 /\ t = c
  <2>1. /\ v.refresher.timer = w.refresher.timer
        /\ v.refresher.started = w.refresher.started
        /\ v.refresher.expires = w.refresher.expires
        /\ v.refresher.current = c /\ v.told = w.told
    BY <1>2, <1>3, <1>7 DEF Worlds, Refreshers
  <2>2. Follows(w, v)
    BY <1>0, <1>3, <1>7, <2>1 DEF Follows
  <2>3. /\ Current(v).state = "TERMINATED"
        /\ Current(v).expires = Current(w).expires
        /\ Current(v).linked = Current(w).linked
    BY <1>2, <1>3, <1>7, <2>1 DEF Current
  <2>4. Within(v) => Faithful(v, a)
    BY <2>1, <2>3 DEF Faithful, Unsent, Within
  <2>5. Exclusive(v)
    BY <2>3 DEF Exclusive, Waiting, Transient
  <2> QED BY <2>2, <2>4, <2>5 DEF Keeps, v
<1>8. CASE v \in {w3, w4} /\ t = c
  <2>1. Within(w) /\ method = "REGISTER" => a = w.refresher.expires
    BY DEF Faithful
  <2>2. /\ Follows(w2, w3) /\ w3.refresher.timer = "none"
        /\ Within(w) /\ Within(w3) => Faithful(w3, a)
    <3>1. /\ Keeps(w2, w3, w.refresher.expires) /\ w3.refresher.timer = "none"
      BY <1>0, <1>3, RefreshKeeps, ZenonT(40)
    <3> HIDE DEF w3
    <3>2. Within(w) /\ Within(w3) => Faithful(w3, a)
      BY <3>1, <2>1 DEF Keeps, Faithful
    <3> QED BY <3>1, <3>2 DEF Keeps
  <2> HIDE DEF w3
  <2>3. /\ w2.refresher.current = c
        /\ w2.refresher.started = w.refresher.started
    BY <1>3 DEF Worlds, Refreshers
  <2>4. Follows(w, w3)
    BY <2>2, <2>3 DEF Follows
  <2>5. Within(w3) => Within(w)
    BY <1>0, <2>4, CurrentId, NonInviteAssumption DEF Within, Follows
  <2>6. /\ v \in Worlds /\ v.refresher = w3.refresher
        /\ v.transactions = w3.transactions
        /\ v.told = w3.told \/ v.told.code = "lost"
    <3>1. w3 \in Worlds
      BY <2>4 DEF Follows
    <3>2. [code |-> "lost", retry |-> FALSE] \in [code : Codes, retry : BOOLEAN]
      BY DEF Codes
    <3>3. v = w3 \/ v = w4
      BY <1>8
    <3>4. /\ w4 \in Worlds /\ w4.refresher = w3.refresher
          /\ w4.transactions = w3.transactions /\ w4.told.code = "lost"
      BY <3>1, <3>2 DEF Worlds
    <3> HIDE DEF w4
    <3> QED BY <3>1, <3>3, <3>4
  <2>7. Within(v) => Faithful(v, a)
    BY <2>2, <2>5, <2>6 DEF Faithful, Unsent, Current, Within
  <2>8. Exclusive(v) /\ Follows(w, v)
    BY <2>2, <2>4, <2>6 DEF Exclusive, Follows
  <2> QED BY <2>7, <2>8 DEF Keeps, v
<1> QED BY <1>1, <1>5, <1>6, <1>7, <1>8

\* What the application does in a listener, which leaves alone a request that
\* is over.
SameRequest(w, v) ==
    v.refresher.current = w.refresher.current /\ v.transactions = w.transactions

LEMMA StopKeeps ==
    ASSUME NEW w \in Worlds, NEW reachable \in BOOLEAN, NEW a \in {0, 1},
           w.refresher.current \in Ids, Within(w) => Faithful(w, a)
    PROVE  LET v == Stop(w, reachable) IN
           /\ Keeps(w, v, a) /\ v.refresher.timer = "none"
           /\ ~Waiting(w) => SameRequest(w, v)
<1> DEFINE w1 == [w EXCEPT !.refresher.timer = "none"]
           w2 == IF Transient(Current(w).state)
                 THEN Terminate(w1, w.refresher.current, reachable) ELSE w1
           v  == Stop(w, reachable)
<1>1. /\ w1 \in Worlds /\ w1.transactions = w.transactions /\ w1.told = w.told
      /\ w1.refresher = [w.refresher EXCEPT !.timer = "none"]
  BY DEF Worlds, Refreshers
<1>2. v = Stopped(w2)
  BY DEF Stop
<1> HIDE DEF w1, v
<1>3. /\ w1.refresher.timer = "none" /\ SameRequest(w, w1)
      /\ w1.refresher.started = w.refresher.started
      /\ w1.refresher.expires = w.refresher.expires
  BY <1>1 DEF Worlds, Refreshers, SameRequest
<1>4. Within(w1) => Faithful(w1, a)
  BY <1>1, <1>3 DEF SameRequest, Within, Faithful, Unsent, Current
<1>5. Keeps(w1, Terminate(w1, w.refresher.current, reachable), a)
  BY <1>1, <1>3, <1>4, TerminateKeeps
<1>6. Keeps(w1, w2, a) /\ (~Waiting(w) => w2 = w1)
  <2>1. Keeps(w1, w1, a)
    BY <1>1, <1>4, CurrentId DEF Keeps, Follows
  <2> QED BY <1>5, <2>1 DEF Waiting
<1> HIDE DEF w2
<1>7. /\ v \in Worlds /\ v.transactions = w2.transactions
      /\ v.refresher.current = w2.refresher.current
      /\ v.refresher.expires = w2.refresher.expires
      /\ v.refresher.timer = "none" /\ ~v.refresher.started
  <2>1. w2 \in Worlds
    BY <1>6 DEF Keeps, Follows
  <2> QED BY <1>2, <2>1 DEF Stopped, Worlds, Refreshers
<1>8. Follows(w, v)
  BY <1>3, <1>6, <1>7 DEF Keeps, Follows, SameRequest
<1>9. Within(v) => Faithful(v, a)
  BY <1>6, <1>7 DEF Keeps, Within, Faithful, Current
<1> QED BY <1>3, <1>6, <1>7, <1>8, <1>9 DEF Keeps, SameRequest, v

\* The listener is told: the retry is kept with its request, or cancelled.
Reacted(w, v, a) ==
    /\ Keeps(w, v, a)
    /\ \/ v.refresher.timer = "none"
       \/ v.refresher.timer = w.refresher.timer /\ SameRequest(w, v)
    /\ ~Waiting(w) => SameRequest(w, v)

AnyReaction == [stops : BOOLEAN, reachable : BOOLEAN]

LEMMA TellKeeps ==
    ASSUME NEW w \in Worlds, NEW code \in Codes, NEW retry \in BOOLEAN,
           NEW app \in AnyReaction, NEW a \in {0, 1},
           w.refresher.current \in Ids, Within(w) => Faithful(w, a),
           code # "401" \/ Live(w, a)
    PROVE  Reacted(w, Tell(w, code, retry, app), a)
<1> DEFINE w1 == [w EXCEPT !.told = [code |-> code, retry |-> retry]]
           v  == Tell(w, code, retry, app)
<1>1. /\ w1 \in Worlds /\ w1.transactions = w.transactions
      /\ w1.refresher = w.refresher /\ w1.told.code = code
  <2> DEFINE new == [code |-> code, retry |-> retry]
  <2>1. new \in [code : Codes, retry : BOOLEAN] /\ new.code = code
    OBVIOUS
  <2> HIDE DEF new
  <2> QED BY <2>1 DEF Worlds
<1>2. v = IF app.stops THEN Stop(w1, app.reachable) ELSE w1
  BY DEF Tell
<1> SUFFICES Reacted(w, v, a)
  OBVIOUS
<1> HIDE DEF w1, v
<1>3. SameRequest(w, w1) /\ Current(w1) = Current(w) /\ (Waiting(w1) = Waiting(w))
  BY <1>1 DEF SameRequest, Current, Waiting
<1>4. Within(w1) => Faithful(w1, a)
  BY <1>1, <1>3 DEF Within, Faithful, Unsent, Live
<1>5. CASE app.stops
  <2>1. app.reachable \in BOOLEAN
    BY DEF AnyReaction
  <2>2. /\ Keeps(w1, v, a) /\ v.refresher.timer = "none"
        /\ ~Waiting(w1) => SameRequest(w1, v)
    <3>1. v = Stop(w1, app.reachable)
      BY <1>2, <1>5
    <3>2. /\ Keeps(w1, Stop(w1, app.reachable), a)
          /\ Stop(w1, app.reachable).refresher.timer = "none"
          /\ ~Waiting(w1) => SameRequest(w1, Stop(w1, app.reachable))
      BY <1>1, <1>4, <2>1, StopKeeps
    <3> QED BY <3>1, <3>2
  <2> QED BY <1>1, <1>3, <2>2 DEF Reacted, Keeps, Follows, SameRequest
<1>6. CASE ~app.stops
  <2>1. v = w1
    BY <1>2, <1>6
  <2>2. Follows(w, v)
    BY <1>1, <2>1, CurrentId DEF Follows
  <2> QED BY <1>1, <1>3, <1>4, <2>1, <2>2 DEF Reacted, Keeps
<1> QED BY <1>5, <1>6

-----------------------------------------------------------------------------
\* The ends of a request.
Settled(w, v, a) == Keeps(w, v, a) /\ (Within(v) => Exclusive(v))

LEMMA ScheduleKeeps ==
    ASSUME NEW w \in Worlds, NEW purpose \in {"normal", "retry"}, NEW a \in {0, 1},
           Within(w) => Faithful(w, a), Live(w, a)
    PROVE  LET v == Schedule(w, purpose) IN
           /\ Keeps(w, v, a) /\ SameRequest(w, v) /\ Live(v, a)
           /\ Waiting(v) = Waiting(w)
<1> DEFINE v == Schedule(w, purpose)
<1>1. /\ v \in Worlds /\ v.transactions = w.transactions
      /\ v.refresher.current = w.refresher.current
      /\ v.refresher.started = w.refresher.started
      /\ v.refresher.expires = w.refresher.expires
  BY DEF Schedule, Worlds, Refreshers
<1> HIDE DEF v
<1>2. Current(v) = Current(w)
  BY <1>1 DEF Current
<1>3. Live(v, a)
  BY <1>1 DEF Live
<1>4. Within(v) => Faithful(v, a)
  BY <1>1, <1>2, <1>3 DEF Within, Faithful, Live
<1>5. Follows(w, v)
  BY <1>1, CurrentId DEF Follows
<1>6. Waiting(v) = Waiting(w)
  BY <1>2 DEF Waiting
<1> QED BY <1>1, <1>3, <1>4, <1>5, <1>6 DEF Keeps, SameRequest, v

\* A listener that is told when no request is under way, or no retry scheduled.
LEMMA TellSettles ==
    ASSUME NEW w \in Worlds, NEW code \in Codes, NEW retry \in BOOLEAN,
           NEW app \in AnyReaction, NEW a \in {0, 1},
           w.refresher.current \in Ids, Within(w) => Faithful(w, a), Live(w, a),
           w.refresher.timer = "none" \/ ~Waiting(w)
    PROVE  Settled(w, Tell(w, code, retry, app), a)
<1> DEFINE v == Tell(w, code, retry, app)
<1>1. Reacted(w, v, a)
  BY TellKeeps, Zenon
<1> SUFFICES Settled(w, v, a)
  OBVIOUS
<1> HIDE DEF v
<1> QED BY <1>1 DEF Reacted, Settled, Exclusive, SameRequest, Waiting, Current

\* ... with a retry, or the next refresh, scheduled before.
LEMMA RetrySettles ==
    ASSUME NEW w \in Worlds, NEW purpose \in {"normal", "retry"}, NEW code \in Codes,
           NEW retry \in BOOLEAN, NEW app \in AnyReaction, NEW a \in {0, 1},
           w.refresher.current \in Ids, Within(w) => Faithful(w, a), Live(w, a),
           ~Waiting(w)
    PROVE  /\ Settled(w, Schedule(w, purpose), a)
           /\ Settled(w, Tell(Schedule(w, purpose), code, retry, app), a)
<1> DEFINE s == Schedule(w, purpose)
           v == Tell(s, code, retry, app)
<1>1. Keeps(w, s, a) /\ SameRequest(w, s) /\ Live(s, a) /\ ~Waiting(s)
  BY ScheduleKeeps
<1> SUFFICES Settled(w, s, a) /\ Settled(w, v, a)
  OBVIOUS
<1> HIDE DEF s
<1>2. /\ s \in Worlds /\ s.refresher.current \in Ids
      /\ Within(s) => Faithful(s, a)
  BY <1>1 DEF Keeps, Follows, SameRequest
<1>3. Settled(s, v, a)
  BY <1>1, <1>2, TellSettles, Zenon
<1> HIDE DEF v
<1>4. Settled(w, v, a)
  BY <1>1, <1>3 DEF Settled, Keeps, Follows, SameRequest
<1>5. Settled(w, s, a)
  BY <1>1 DEF Settled, Exclusive
<1> QED BY <1>4, <1>5

\* An error or a timeout of the current request, which may still be running:
\* the handler that reports it ends the request afterwards.
Reports(w, v, a) ==
    /\ Keeps(w, v, a)
    /\ v.refresher.timer = "none" \/ SameRequest(w, v)

LEMMA RearmedReports ==
    ASSUME NEW w \in Worlds, NEW code \in Codes, NEW retry \in BOOLEAN,
           NEW app \in AnyReaction, NEW a \in {0, 1},
           w.refresher.current \in Ids, Within(w) => Faithful(w, a), Live(w, a)
    PROVE  /\ Reports(w, Tell(w, code, retry, app), a)
           /\ Reports(w, Tell(Schedule(w, "retry"), code, retry, app), a)
<1> DEFINE s == Schedule(w, "retry")
           u == Tell(w, code, retry, app)
           v == Tell(s, code, retry, app)
<1>1. Keeps(w, s, a) /\ SameRequest(w, s) /\ Live(s, a)
  BY ScheduleKeeps
<1>2. Reacted(w, u, a)
  BY TellKeeps, Zenon
<1> SUFFICES Reports(w, u, a) /\ Reports(w, v, a)
  OBVIOUS
<1> HIDE DEF s, u
<1>3. /\ s \in Worlds /\ s.refresher.current \in Ids
      /\ Within(s) => Faithful(s, a)
  BY <1>1 DEF Keeps, Follows, SameRequest
<1>4. Reacted(s, v, a)
  BY <1>1, <1>3, TellKeeps, Zenon
<1> HIDE DEF v
<1>5. Reports(w, u, a)
  BY <1>2 DEF Reacted, Reports
<1>6. Reports(w, v, a)
  BY <1>1, <1>4 DEF Reacted, Reports, Keeps, Follows, SameRequest
<1> QED BY <1>5, <1>6

LEMMA ErrorReports ==
    ASSUME NEW w \in Worlds, NEW app \in AnyReaction, NEW a \in {0, 1},
           w.refresher.current \in Ids, Within(w) => Faithful(w, a), Live(w, a)
    PROVE  /\ Reports(w, ProcessTimeout(w, app), a)
           /\ Reports(w, ProcessTransactionIoError(w, app), a)
<1>1. w.refresher.started \in BOOLEAN /\ {"408", "io"} \subseteq Codes
  BY DEF Worlds, Refreshers, Codes
<1>2. ASSUME NEW code \in {"408", "io"}
      PROVE  Reports(w, Tell(IF w.refresher.started THEN Schedule(w, "retry") ELSE w,
                             code, w.refresher.started, app), a)
  <2> DEFINE retry == w.refresher.started
  <2>1. code \in Codes /\ retry \in BOOLEAN
    BY <1>1
  <2> HIDE DEF retry
  <2>2. /\ Reports(w, Tell(w, code, retry, app), a)
        /\ Reports(w, Tell(Schedule(w, "retry"), code, retry, app), a)
    BY <2>1, RearmedReports, Zenon
  <2>3. \/ (IF w.refresher.started THEN Schedule(w, "retry") ELSE w) = w
        \/ (IF w.refresher.started THEN Schedule(w, "retry") ELSE w) = Schedule(w, "retry")
    OBVIOUS
  <2> QED BY <2>2, <2>3, Zenon DEF retry
<1>3. Reports(w, w, a)
  BY CurrentId DEF Reports, Keeps, Follows, SameRequest
<1>4. Reports(w, ProcessTimeout(w, app), a)
  BY <1>2 DEF ProcessTimeout
<1>5. Reports(w, ProcessTransactionIoError(w, app), a)
  <2> DEFINE x == Tell(IF w.refresher.started THEN Schedule(w, "retry") ELSE w,
                       "io", w.refresher.started, app)
  <2>1. Reports(w, x, a)
    BY <1>2
  <2>2. ProcessTransactionIoError(w, app) \in {w, x}
    BY Zenon DEF ProcessTransactionIoError
  <2> HIDE DEF x
  <2> QED BY <1>3, <2>1, <2>2
<1> QED BY <1>4, <1>5

-----------------------------------------------------------------------------
\* A response to the current request: no retry is scheduled as it was running.
Answered(w, a) ==
    /\ w \in Worlds /\ Within(w) /\ Faithful(w, a)
    /\ w.refresher.timer = "none" /\ Current(w).state = "COMPLETED"

LEMMA AnsweredFacts ==
    ASSUME NEW w, NEW a \in {0, 1}, Answered(w, a)
    PROVE  /\ w \in Worlds /\ w.refresher.current \in Ids
           /\ w.refresher.current + 1 \in Ids
           /\ w.refresher.expires \in {0, 1} /\ Current(w).expires \in {0, 1}
           /\ Live(w, a) /\ ~Waiting(w) /\ Faithful(w, a)
           /\ w.refresher.timer = "none"
<1>1. w \in Worlds /\ w.refresher.current \in Ids /\ w.refresher.current + 1 \in Ids
  BY CurrentId DEF Answered
<1>2. Current(w) \in Transaction
  BY <1>1 DEF Worlds, Current
<1>3. w.refresher.expires \in {0, 1} /\ Current(w).expires \in {0, 1}
  BY <1>1, <1>2 DEF Worlds, Refreshers, Transaction
<1>4. Live(w, a)
  BY DEF Answered, Faithful, Unsent, Live
<1>5. ~Waiting(w)
  BY DEF Answered, Waiting, Transient
<1> QED BY <1>1, <1>3, <1>4, <1>5 DEF Answered

\* The request is sent again as it was.
LEMMA ResentKeeps ==
    ASSUME NEW w, NEW a \in {0, 1}, Answered(w, a),
           NEW authorized \in BOOLEAN, NEW reachable \in BOOLEAN
    PROVE  LET v == RefreshInternal(w, FALSE, w.refresher.expires, authorized, reachable)
           IN  /\ Keeps(w, v, a) /\ Live(v, a)
               /\ v.refresher.timer = "none" /\ v.refresher.current \in Ids
<1> DEFINE keep == FALSE
           e == w.refresher.expires
           v == RefreshInternal(w, keep, e, authorized, reachable)
<1>1. /\ w \in Worlds /\ w.refresher.current \in Ids /\ w.refresher.current + 1 \in Ids
      /\ e \in {0, 1} /\ Live(w, a) /\ Faithful(w, a) /\ w.refresher.timer = "none"
  BY AnsweredFacts
<1>2. keep \in BOOLEAN /\ ~keep /\ Wanted(w, keep, e) = e
  BY DEF Wanted
<1> SUFFICES /\ Keeps(w, v, a) /\ Live(v, a)
             /\ v.refresher.timer = "none" /\ v.refresher.current \in Ids
  OBVIOUS
<1> HIDE DEF keep, e
<1>3. Refreshed(w, v, keep, Wanted(w, keep, e), authorized)
  BY <1>1, <1>2, RefreshInternalFacts, Zenon
<1>4. Refreshed(w, v, keep, e, authorized)
  BY <1>2, <1>3
<1> HIDE DEF v
<1>5. /\ Follows(w, v)
      /\ v.refresher.timer \in {w.refresher.timer, "none"}
      /\ v.refresher.current \in {w.refresher.current, w.refresher.current + 1}
  BY <1>4, Zenon DEF Refreshed
<1>6. ASSUME method = "REGISTER"
      PROVE  /\ v.refresher.expires = a
             /\ Within(v) => Current(v).expires = a
             /\ authorized /\ Within(v) /\ v.refresher.started /\ a = 0
                   => v.told.code # "401" /\ Current(v).state = "TERMINATED"
                      /\ ~Current(v).linked
  <2>1. e = a /\ Current(w).expires = a
    BY <1>1, <1>6 DEF Faithful, e
  <2>2. CASE authorized
    BY <1>2, <1>4, <1>6, <2>1, <2>2, Zenon DEF Refreshed
  <2>3. CASE ~authorized
    <3>1. /\ v.refresher.expires = e /\ v.transactions = w.transactions
          /\ v.refresher.current = w.refresher.current
      BY <1>4, <1>6, <2>3, Zenon DEF Refreshed
    <3> QED BY <2>1, <2>3, <3>1 DEF Current
  <2> QED BY <2>2, <2>3
<1>7. Live(v, a)
  BY <1>1, <1>5 DEF Live, Follows
<1>8. Within(v) => Faithful(v, a)
  BY <1>6, <1>7 DEF Faithful, Live
<1> QED BY <1>1, <1>5, <1>7, <1>8 DEF Keeps

LEMMA SettledFrom ==
    ASSUME NEW w \in Worlds, NEW u, NEW v, NEW a, Keeps(w, u, a), Settled(u, v, a)
    PROVE  Settled(w, v, a)
<1>1. u \in Worlds /\ v \in Worlds
  BY DEF Settled, Keeps, Follows
<1>2. Follows(w, v)
  BY <1>1, CurrentId DEF Settled, Keeps, Follows
<1> QED BY <1>2 DEF Settled, Keeps

LEMMA RefreshSettles ==
    ASSUME NEW w \in Worlds, NEW a \in {0, 1}, NEW reachable \in BOOLEAN,
           Within(w) => Faithful(w, a)
    PROVE  Settled(w, Refresh(w, FALSE, w.refresher.expires, reachable), a)
<1> DEFINE keep == FALSE
           e == w.refresher.expires
           v == Refresh(w, keep, e, reachable)
<1>1. keep \in BOOLEAN /\ ~keep /\ e \in {0, 1}
  BY DEF Worlds, Refreshers
<1>2. Within(w) /\ method = "REGISTER" => e = a
  BY DEF Faithful
<1> SUFFICES Settled(w, v, a)
  OBVIOUS
<1> HIDE DEF keep, e
<1>3. Keeps(w, v, e) /\ v.refresher.timer = "none"
  BY <1>1, RefreshKeeps
<1> HIDE DEF v
<1>4. Within(v) => Within(w)
  BY <1>3, CurrentId, NonInviteAssumption DEF Keeps, Follows, Within
<1>5. Within(v) => Faithful(v, a)
  BY <1>2, <1>3, <1>4 DEF Keeps, Faithful
<1> QED BY <1>3, <1>5 DEF Settled, Keeps, Exclusive

LEMMA SuccessSettles ==
    ASSUME NEW w, NEW a \in {0, 1}, Answered(w, a), NEW app \in AnyReaction,
           NEW nat \in BOOLEAN
    PROVE  Settled(w, ProcessSuccess(w, nat, app), a)
<1> DEFINE reachable == app.reachable
           w1 == [w EXCEPT !.refresher.challenged = FALSE,
                           !.refresher.expires = Current(w).expires]
           w2 == IF w1.refresher.expires = 0 THEN Stop(w1, reachable) ELSE w1
           stopped == Tell(w2, "200", TRUE, app)
           again   == Refresh(w2, FALSE, w2.refresher.expires, reachable)
           armed   == Tell(Schedule(w2, "normal"), "200", TRUE, app)
           v       == ProcessSuccess(w, nat, app)
<1>1. /\ w \in Worlds /\ w.refresher.current \in Ids /\ Current(w).expires \in {0, 1}
      /\ Live(w, a) /\ ~Waiting(w) /\ Faithful(w, a) /\ w.refresher.timer = "none"
  BY AnsweredFacts
<1>2. /\ w1 \in Worlds /\ w1.transactions = w.transactions
      /\ w1.refresher.current = w.refresher.current
      /\ w1.refresher.started = w.refresher.started
      /\ w1.refresher.timer = w.refresher.timer
      /\ w1.refresher.expires = Current(w).expires
  BY <1>1 DEF Worlds, Refreshers
<1>3. v \in {stopped, again, armed}
      /\ (v = armed /\ v # stopped => w2.refresher.started)
  BY Zenon DEF ProcessSuccess
<1>4. reachable \in BOOLEAN
  BY DEF AnyReaction
<1> SUFFICES Settled(w, v, a)
  OBVIOUS
<1> HIDE DEF w1, reachable, v
<1>5. Current(w1) = Current(w)
  BY <1>2 DEF Current
<1>6. Faithful(w1, a) /\ Live(w1, a) /\ ~Waiting(w1)
  BY <1>1, <1>2, <1>5 DEF Faithful, Live, Waiting
<1>7. Keeps(w, w1, a)
  BY <1>2, <1>6, CurrentId DEF Keeps, Follows
<1>8. /\ Keeps(w1, w2, a) /\ SameRequest(w1, w2) /\ w2.refresher.timer = "none"
  <2>1. /\ Keeps(w1, Stop(w1, reachable), a)
        /\ SameRequest(w1, Stop(w1, reachable))
        /\ Stop(w1, reachable).refresher.timer = "none"
    BY <1>1, <1>2, <1>4, <1>6, StopKeeps
  <2>2. Keeps(w1, w1, a) /\ SameRequest(w1, w1)
    BY <1>2, <1>6, CurrentId DEF Keeps, Follows, SameRequest
  <2> QED BY <1>1, <1>2, <2>1, <2>2
<1> HIDE DEF w2
<1>9. /\ Keeps(w, w2, a) /\ w2 \in Worlds /\ w2.refresher.current \in Ids
      /\ Within(w2) => Faithful(w2, a)
      /\ Live(w2, a) /\ ~Waiting(w2) /\ w2.refresher.expires \in {0, 1}
  <2>1. w2 \in Worlds /\ w2.refresher.current \in Ids
    BY <1>1, <1>2, <1>8 DEF Keeps, Follows, SameRequest
  <2>2. Current(w2) = Current(w1)
    BY <1>8 DEF SameRequest, Current
  <2>3. ~Waiting(w2)
    BY <1>6, <2>2 DEF Waiting
  <2>4. Live(w2, a)
    BY <1>6, <1>8 DEF Live, Keeps, Follows
  <2>5. w2.refresher.expires \in {0, 1}
    BY <2>1 DEF Worlds, Refreshers
  <2>6. Keeps(w, w2, a)
    BY <1>1, <1>2, <1>8, <2>1, CurrentId DEF Keeps, Follows
  <2> QED BY <2>1, <2>3, <2>4, <2>5, <2>6 DEF Keeps
<1>10. /\ "200" \in Codes /\ TRUE \in BOOLEAN /\ FALSE \in BOOLEAN
       /\ "normal" \in {"normal", "retry"}
  BY DEF Codes, Answers
<1>11. Settled(w2, stopped, a)
  BY <1>8, <1>9, <1>10, TellSettles, Zenon
<1>12. Settled(w2, armed, a)
  BY <1>9, <1>10, RetrySettles, Zenon
<1>13. Settled(w2, again, a)
  BY <1>4, <1>9, RefreshSettles
<1> HIDE DEF stopped, armed, again
<1>14. Settled(w2, v, a)
  BY <1>3, <1>11, <1>12, <1>13
<1> QED BY <1>1, <1>9, <1>14, SettledFrom

\* The answers that lead to a listener, to a retry, or to both.
LEMMA AnswerSettles ==
    ASSUME NEW w, NEW a \in {0, 1}, Answered(w, a), NEW code \in Codes,
           NEW retry \in BOOLEAN, NEW app \in AnyReaction
    PROVE  /\ Settled(w, Tell(w, code, retry, app), a)
           /\ Settled(w, Schedule(w, "retry"), a)
           /\ Settled(w, Tell(Schedule(w, "retry"), code, retry, app), a)
<1>1. /\ w \in Worlds /\ w.refresher.current \in Ids /\ Live(w, a) /\ ~Waiting(w)
      /\ w.refresher.timer = "none" /\ Faithful(w, a)
      /\ "retry" \in {"normal", "retry"}
  BY AnsweredFacts
<1>2. Settled(w, Tell(w, code, retry, app), a)
  BY <1>1, TellSettles, Zenon
<1>3. /\ Settled(w, Schedule(w, "retry"), a)
      /\ Settled(w, Tell(Schedule(w, "retry"), code, retry, app), a)
  BY <1>1, RetrySettles, Zenon
<1> QED BY <1>2, <1>3

\* ... and those that send the request again, or fail to.
LEMMA ResentSettles ==
    ASSUME NEW w, NEW a \in {0, 1}, Answered(w, a), NEW code \in Codes,
           NEW authorized \in BOOLEAN, NEW app \in AnyReaction
    PROVE  LET v == RefreshInternal(w, FALSE, w.refresher.expires, authorized,
                                    app.reachable)
           IN  Settled(w, v, a) /\ Settled(w, Tell(v, code, TRUE, app), a)
<1> DEFINE reachable == app.reachable
           v == RefreshInternal(w, FALSE, w.refresher.expires, authorized, reachable)
           x == Tell(v, code, TRUE, app)
<1>1. reachable \in BOOLEAN /\ TRUE \in BOOLEAN
  BY DEF AnyReaction
<1>2. w \in Worlds
  BY AnsweredFacts
<1> SUFFICES Settled(w, v, a) /\ Settled(w, x, a)
  OBVIOUS
<1> HIDE DEF reachable
<1>3. /\ Keeps(w, v, a) /\ Live(v, a)
      /\ v.refresher.timer = "none" /\ v.refresher.current \in Ids
  BY <1>1, ResentKeeps, Zenon
<1> HIDE DEF v
<1>4. v \in Worlds /\ (Within(v) => Faithful(v, a))
  BY <1>3 DEF Keeps, Follows
<1>5. Settled(v, x, a)
  BY <1>1, <1>3, <1>4, TellSettles, Zenon
<1> HIDE DEF x
<1>6. Settled(w, v, a)
  BY <1>3 DEF Settled, Exclusive
<1>7. Settled(w, x, a)
  BY <1>2, <1>3, <1>5, SettledFrom
<1> QED BY <1>6, <1>7

LEMMA ChallengeSettles ==
    ASSUME NEW w, NEW a \in {0, 1}, Answered(w, a), NEW authorized \in BOOLEAN,
           NEW app \in AnyReaction
    PROVE  Settled(w, ProcessChallenge(w, authorized, app), a)
<1> DEFINE w1 == [w EXCEPT !.refresher.challenged = ~w.refresher.challenged]
           later == IF w.refresher.expires > 0 THEN Schedule(w1, "retry") ELSE w1
           resent == RefreshInternal(w1, FALSE, w1.refresher.expires, authorized,
                                     app.reachable)
           v == ProcessChallenge(w, authorized, app)
<1>1. v \in {Tell(later, "401", TRUE, app), resent, Tell(resent, "401", TRUE, app)}
  BY Zenon DEF ProcessChallenge
<1>2. w \in Worlds /\ Within(w) /\ Faithful(w, a)
  BY DEF Answered
<1>3. /\ w1 \in Worlds /\ w1.transactions = w.transactions
      /\ w1.refresher.current = w.refresher.current
      /\ w1.refresher.started = w.refresher.started
      /\ w1.refresher.expires = w.refresher.expires
      /\ w1.refresher.timer = w.refresher.timer
      /\ w1.told = w.told
  BY <1>2 DEF Worlds, Refreshers
<1> SUFFICES Settled(w, v, a)
  OBVIOUS
<1> HIDE DEF w1
<1>4. Answered(w1, a) /\ Faithful(w1, a)
  BY <1>3 DEF Answered, Current, Within, Faithful, Unsent
<1>5. Keeps(w, w1, a)
  BY <1>3, <1>4, CurrentId DEF Keeps, Follows
<1>6. "401" \in Codes /\ TRUE \in BOOLEAN
  BY DEF Codes, Answers
<1>7. /\ Settled(w1, Tell(w1, "401", TRUE, app), a)
      /\ Settled(w1, Tell(Schedule(w1, "retry"), "401", TRUE, app), a)
  BY <1>4, <1>6, AnswerSettles, Zenon
<1>8. Settled(w1, resent, a) /\ Settled(w1, Tell(resent, "401", TRUE, app), a)
  BY <1>4, <1>6, ResentSettles, Zenon
<1>9. later \in {w1, Schedule(w1, "retry")}
  OBVIOUS
<1> HIDE DEF later, resent, v
<1>10. Settled(w1, v, a)
  BY <1>1, <1>7, <1>8, <1>9, Zenon
<1> QED BY <1>2, <1>5, <1>10, SettledFrom

LEMMA RedirectionSettles ==
    ASSUME NEW w, NEW a \in {0, 1}, Answered(w, a), NEW usable \in BOOLEAN,
           NEW app \in AnyReaction
    PROVE  Settled(w, ProcessRedirection(w, usable, app), a)
<1>1. "301" \in Codes /\ TRUE \in BOOLEAN
  BY DEF Codes, Answers
<1>2. Settled(w, Tell(w, "301", TRUE, app), a)
  BY <1>1, AnswerSettles, Zenon
<1>3. Settled(w, RefreshInternal(w, FALSE, w.refresher.expires, TRUE, app.reachable), a)
  BY <1>1, ResentSettles, Zenon
<1> QED BY <1>2, <1>3, Zenon DEF ProcessRedirection

\* A longer expiry is one that is not zero: it was asked for.
LEMMA TooBriefSettles ==
    ASSUME NEW w, NEW a \in {0, 1}, Answered(w, a), NEW usable \in BOOLEAN,
           NEW app \in AnyReaction
    PROVE  Settled(w, ProcessTooBrief(w, usable, app), a)
<1> DEFINE w1 == [w EXCEPT !.refresher.expires = 1]
           again == Refresh(w1, FALSE, 1, app.reachable)
<1>1. "423" \in Codes /\ FALSE \in BOOLEAN
  BY DEF Codes, Answers
<1>2. Settled(w, Tell(w, "423", FALSE, app), a)
  BY <1>1, AnswerSettles, Zenon
<1>3. CASE w.refresher.started
  <2>1. w \in Worlds /\ Within(w) /\ Faithful(w, a) /\ Live(w, a)
    BY AnsweredFacts DEF Answered
  <2>2. /\ w1 \in Worlds /\ w1.transactions = w.transactions /\ w1.told = w.told
        /\ w1.refresher = [w.refresher EXCEPT !.expires = 1]
    BY <2>1 DEF Worlds, Refreshers
  <2>3. /\ w1.refresher.current = w.refresher.current
        /\ w1.refresher.started = w.refresher.started
        /\ w1.refresher.expires = 1
    BY <2>1, <2>2 DEF Worlds, Refreshers
  <2>4. app.reachable \in BOOLEAN
    BY DEF AnyReaction
  <2>5. again = Refresh(w1, FALSE, w1.refresher.expires, app.reachable)
    BY <2>3
  <2> HIDE DEF w1
  <2>6. Faithful(w1, a)
    BY <1>3, <2>1, <2>2, <2>3 DEF Faithful, Live, Current
  <2>7. Settled(w1, again, a)
    BY <2>2, <2>4, <2>5, <2>6, RefreshSettles
  <2> HIDE DEF again
  <2>8. Keeps(w, w1, a)
    BY <2>1, <2>2, <2>3, <2>6, CurrentId DEF Keeps, Follows
  <2>9. Settled(w, again, a)
    BY <2>1, <2>7, <2>8, SettledFrom
  <2> QED BY <1>2, <2>9, Zenon DEF ProcessTooBrief, again, w1
<1>4. CASE ~w.refresher.started
  BY <1>2, <1>4, Zenon DEF ProcessTooBrief
<1> QED BY <1>3, <1>4

LEMMA ResponseSettles ==
    ASSUME NEW w, NEW a \in {0, 1}, Answered(w, a), NEW code \in Answers,
           NEW allowed \in BOOLEAN, NEW app \in AnyReaction
    PROVE  Settled(w, ProcessResponse(w, code, allowed, app), a)
<1>1. code \in Codes /\ "491" \in Codes /\ TRUE \in BOOLEAN /\ FALSE \in BOOLEAN
  BY DEF Codes, Answers
<1>2. Settled(w, ProcessSuccess(w, FALSE, app), a)
      /\ Settled(w, ProcessSuccess(w, TRUE, app), a)
  BY <1>1, SuccessSettles, Zenon
<1>3. Settled(w, ProcessRedirection(w, allowed, app), a)
  BY RedirectionSettles, Zenon
<1>4. Settled(w, ProcessChallenge(w, allowed, app), a)
  BY ChallengeSettles, Zenon
<1>5. Settled(w, ProcessTooBrief(w, allowed, app), a)
  BY TooBriefSettles, Zenon
<1>6. Settled(w, ProcessPending(w, app), a)
  BY <1>1, AnswerSettles, Zenon DEF ProcessPending
<1>7. Settled(w, Tell(w, code, FALSE, app), a)
  BY <1>1, AnswerSettles, Zenon
<1>8. Settled(w, ProcessFailure(w, code, app), a)
  BY <1>1, AnswerSettles, Zenon DEF ProcessFailure
<1> HIDE DEF Settled
<1> QED BY <1>2, <1>3, <1>4, <1>5, <1>6, <1>7, <1>8 DEF ProcessResponse, Answers

-----------------------------------------------------------------------------
\* The state between two handlers, as a world.
LEMMA NowFacts ==
    ASSUME RefresherInv
    PROVE  /\ Now \in Worlds /\ Within(Now) /\ refresher.current \in Ids
           /\ asked \in {0, 1} /\ channel \in Channel
           /\ Now.transactions = transactions /\ Now.channel = channel
           /\ Now.refresher = refresher /\ Now.told = told
           /\ Current(Now) = transactions[refresher.current]
           /\ Exclusive(Now) /\ Faithful(Now, asked)
           /\ Reachability \subseteq BOOLEAN /\ Reactions \subseteq AnyReaction
<1>1. refresher \in Refreshers /\ refresher.current \in Ids
  BY NonInviteAssumption DEF RefresherInv, TypeOK, RefresherRecord, Refreshers, Ids
<1>2. Now \in Worlds
  BY <1>1 DEF RefresherInv, TypeOK, Worlds, Now
<1>3. /\ Now.transactions = transactions /\ Now.channel = channel
      /\ Now.refresher = refresher /\ Now.told = told
  BY DEF Now
<1>4. Reachability \subseteq BOOLEAN
  BY DEF Reachability
<1>5. Reactions \subseteq AnyReaction
  BY <1>4 DEF Reactions, AnyReaction
<1> QED BY <1>1, <1>2, <1>3, <1>4, <1>5 DEF RefresherInv, TypeOK, Current

LEMMA BecomeKeeps ==
    ASSUME RefresherInv, NEW v \in Worlds, Become(v), UNCHANGED settings,
           asked' \in {0, 1},
           Within(v) => Faithful(v, asked') /\ Exclusive(v)
    PROVE  RefresherInv'
<1>1. /\ transactions' = v.transactions /\ channel' = v.channel
      /\ refresher' = v.refresher /\ told' = v.told
      /\ v.refresher.current <= MaxRequests
  BY DEF Become
<1>2. Now' = v
  BY <1>1 DEF Now, Worlds
<1>3. Within(v) /\ Faithful(v, asked') /\ Exclusive(v)
  BY <1>1 DEF Within
<1>4. refresher' \in RefresherRecord
  BY <1>1, NonInviteAssumption DEF Worlds, Refreshers, RefresherRecord, Ids
<1>5. TypeOK'
  BY <1>1, <1>4 DEF RefresherInv, TypeOK, Worlds, settings
<1>6. method' = method
  BY DEF settings
<1>7. Faithful(Now, asked)' /\ Within(Now)' /\ Exclusive(Now)'
  BY <1>2, <1>3, <1>6 DEF Faithful, Unsent, Current, Within, Exclusive, Waiting
<1> QED BY <1>5, <1>7 DEF RefresherInv

LEMMA SettledStep ==
    ASSUME RefresherInv, NEW w, NEW v, Settled(w, v, asked), Become(v),
           UNCHANGED <<settings, asked>>
    PROVE  RefresherInv'
<1>1. v \in Worlds /\ (Within(v) => Faithful(v, asked) /\ Exclusive(v))
  BY DEF Settled, Keeps, Follows
<1>2. asked' = asked /\ asked \in {0, 1} /\ UNCHANGED settings
  BY NowFacts
<1>3. Within(v) => Faithful(v, asked') /\ Exclusive(v)
  BY <1>1, <1>2
<1> QED BY <1>1, <1>2, <1>3, BecomeKeeps

LEMMA ChannelErrorType ==
    ASSUME NEW c \in Channel, NEW soft \in BOOLEAN
    PROVE  ChannelError(c, soft) \in Channel
BY NonInviteAssumption DEF ChannelError, Channel, ChannelStates

\* Transactions and channel change below the refresher: its request may end,
\* but one that is over stays so.
Below(w, trans, ch) ==
    /\ trans \in [Ids -> Transaction] /\ ch \in Channel
    /\ LET old == Current(w)
           new == trans[w.refresher.current]
       IN  /\ new.expires = old.expires
           /\ Transient(new.state) => Transient(old.state)
           /\ old.state = "TERMINATED" /\ ~old.linked
                  => new.state = "TERMINATED" /\ ~new.linked

LEMMA BelowSettles ==
    ASSUME NEW w \in Worlds, NEW trans, NEW ch, Below(w, trans, ch),
           NEW a \in {0, 1}, Faithful(w, a), Exclusive(w)
    PROVE  LET v == [w EXCEPT !.transactions = trans, !.channel = ch]
           IN  Settled(w, v, a) /\ Faithful(v, a) /\ Exclusive(v)
<1> DEFINE v == [w EXCEPT !.transactions = trans, !.channel = ch]
<1>1. /\ v \in Worlds /\ v.transactions = trans /\ v.channel = ch
      /\ v.refresher = w.refresher /\ v.told = w.told
  BY DEF Below, Worlds
<1> HIDE DEF v
<1>2. Current(v) = trans[w.refresher.current]
  BY <1>1 DEF Current
<1>3. Faithful(v, a)
  BY <1>1, <1>2 DEF Faithful, Unsent, Below
<1>4. Exclusive(v)
  BY <1>1, <1>2 DEF Exclusive, Waiting, Below
<1>5. Follows(w, v)
  BY <1>1, CurrentId DEF Follows
<1> QED BY <1>3, <1>4, <1>5 DEF Settled, Keeps, v

LEMMA BelowStep ==
    ASSUME RefresherInv, NEW trans, NEW ch, Below(Now, trans, ch),
           Become([Now EXCEPT !.transactions = trans, !.channel = ch]),
           UNCHANGED <<settings, asked>>
    PROVE  RefresherInv'
<1> DEFINE v == [Now EXCEPT !.transactions = trans, !.channel = ch]
<1>1. Settled(Now, v, asked)
  BY NowFacts, BelowSettles
<1> HIDE DEF v
<1>2. Become(v)
  BY DEF v
<1> QED BY <1>1, <1>2, SettledStep

\* One transaction changes.
LEMMA OneBelow ==
    ASSUME RefresherInv, NEW t \in Ids, NEW new \in Transaction, NEW ch \in Channel,
           new.expires = transactions[t].expires,
           t = refresher.current =>
              /\ Transient(new.state) => Transient(transactions[t].state)
              /\ transactions[t].state = "TERMINATED" => new.state = "TERMINATED"
              /\ new.linked = transactions[t].linked
    PROVE  LET trans == [transactions EXCEPT ![t] = new]
           IN  /\ Below(Now, trans, ch)
               /\ [Now EXCEPT !.transactions = trans, !.channel = ch] =
                  [Now EXCEPT !.transactions[t] = new, !.channel = ch]
<1> DEFINE trans == [transactions EXCEPT ![t] = new]
<1>1. /\ Now \in Worlds /\ refresher.current \in Ids
      /\ Now.transactions = transactions /\ Now.refresher = refresher
      /\ Current(Now) = transactions[refresher.current]
      /\ transactions \in [Ids -> Transaction]
  BY NowFacts DEF Worlds
<1>2. /\ trans \in [Ids -> Transaction] /\ trans[t] = new
      /\ \A u \in Ids : u # t => trans[u] = transactions[u]
  BY <1>1
<1>3. [Now EXCEPT !.transactions = trans, !.channel = ch] =
      [Now EXCEPT !.transactions[t] = new, !.channel = ch]
  BY <1>1
<1> HIDE DEF trans
<1>4. Below(Now, trans, ch)
  <2>1. CASE t = refresher.current
    BY <1>1, <1>2, <2>1 DEF Below
  <2>2. CASE t # refresher.current
    BY <1>1, <1>2, <2>2 DEF Below
  <2> QED BY <2>1, <2>2
<1> QED BY <1>3, <1>4 DEF trans

LEMMA ProvisionalKeeps ==
    ASSUME RefresherInv, UNCHANGED <<settings, asked>>, NEW t \in Ids, Provisional(t)
    PROVE  RefresherInv'
<1> DEFINE new == [transactions[t] EXCEPT !.state = "PROCEEDING"]
           trans == [transactions EXCEPT ![t] = new]
<1>1. /\ Now \in Worlds /\ channel \in Channel
      /\ Now.transactions = transactions /\ Now.channel = channel
      /\ transactions[t] \in Transaction
  BY NowFacts DEF Worlds
<1>2. /\ new \in Transaction /\ new.expires = transactions[t].expires
      /\ new.state = "PROCEEDING" /\ new.linked = transactions[t].linked
  BY <1>1 DEF Transaction, TransactionStates
<1>3. transactions[t].state = "TRYING"
  BY DEF Provisional
<1>4. Become([Now EXCEPT !.transactions[t] = new])
  BY DEF Provisional, Now
<1> HIDE DEF new
<1>5. [Now EXCEPT !.transactions[t] = new] =
      [Now EXCEPT !.transactions[t] = new, !.channel = channel]
  BY <1>1 DEF Now
<1>6. /\ Below(Now, trans, channel)
      /\ [Now EXCEPT !.transactions = trans, !.channel = channel] =
         [Now EXCEPT !.transactions[t] = new, !.channel = channel]
  BY <1>1, <1>2, <1>3, OneBelow DEF Transient
<1> HIDE DEF trans
<1>7. Become([Now EXCEPT !.transactions = trans, !.channel = channel])
  BY <1>4, <1>5, <1>6
<1> QED BY <1>6, <1>7, BelowStep

LEMMA SetChannelKeeps ==
    ASSUME RefresherInv, UNCHANGED <<settings, asked>>, NEW c \in Channel, SetChannel(c)
    PROVE  RefresherInv'
<1>1. Below(Now, transactions, c)
  <2>1. /\ Current(Now) = transactions[refresher.current]
        /\ Now.refresher = refresher
        /\ transactions \in [Ids -> Transaction]
    BY NowFacts DEF Worlds
  <2> QED BY <2>1 DEF Below
<1>2. [Now EXCEPT !.channel = c] =
      [Now EXCEPT !.transactions = transactions, !.channel = c]
  <2>1. Now \in Worlds /\ Now.transactions = transactions
    BY NowFacts
  <2> QED BY <2>1 DEF Worlds
<1>3. Become([Now EXCEPT !.transactions = transactions, !.channel = c])
  BY <1>2 DEF SetChannel
<1> QED BY <1>1, <1>3, BelowStep

LEMMA ChannelKeeps ==
    ASSUME RefresherInv, UNCHANGED <<settings, asked>>,
           ConnectNext \/ ConnectFails \/ Breaks
    PROVE  RefresherInv'
<1>1. channel \in Channel
  BY NowFacts
<1>2. CASE ConnectNext
  <2>1. [channel EXCEPT !.state = "connecting"] \in Channel
    BY <1>1 DEF Channel, ChannelStates
  <2> QED BY <1>2, <2>1, SetChannelKeeps DEF ConnectNext
<1>3. CASE ConnectFails \/ Breaks
  <2>1. ChannelError(channel, FALSE) \in Channel
    BY <1>1, ChannelErrorType
  <2>2. SetChannel(ChannelError(channel, FALSE))
    BY <1>3 DEF ConnectFails, Breaks
  <2> QED BY <2>1, <2>2, SetChannelKeeps
<1> QED BY <1>2, <1>3

LEMMA ConnectedKeeps ==
    ASSUME RefresherInv, UNCHANGED <<settings, asked>>, Connected
    PROVE  RefresherInv'
<1> DEFINE trans == SentWhenReady(transactions)
           ch    == [channel EXCEPT !.state = "ready"]
<1>1. /\ Now \in Worlds /\ refresher.current \in Ids
      /\ Now.channel = channel /\ channel \in Channel /\ Now.refresher = refresher
      /\ Current(Now) = transactions[refresher.current]
      /\ transactions \in [Ids -> Transaction]
  BY NowFacts DEF Worlds
<1>2. ch \in Channel
  BY <1>1 DEF Channel, ChannelStates
<1>3. \A t \in Ids : trans[t] \in {transactions[t], NictSend(transactions[t])}
         /\ (trans[t] # transactions[t] => transactions[t].state = "INIT")
  BY DEF SentWhenReady
<1>4. \A t \in Ids : transactions[t] \in Transaction
  BY <1>1
<1>5. \A t \in Ids : trans[t] \in Transaction /\ trans[t].expires = transactions[t].expires
  BY <1>3, <1>4, NictSendType
<1>6. trans \in [Ids -> Transaction]
  BY <1>5 DEF SentWhenReady
<1>7. Become([Now EXCEPT !.transactions = trans, !.channel = ch])
  <2>1. [Now EXCEPT !.channel.state = "ready", !.transactions = trans] =
        [Now EXCEPT !.transactions = trans, !.channel = ch]
    BY <1>1 DEF Now
  <2> HIDE DEF trans, ch
  <2>2. Become([Now EXCEPT !.channel.state = "ready", !.transactions = trans])
    BY DEF Connected, trans
  <2> QED BY <2>1, <2>2
<1> HIDE DEF trans, ch
<1>8. Below(Now, trans, ch)
  BY <1>1, <1>2, <1>3, <1>5, <1>6 DEF Below, Transient
<1> QED BY <1>7, <1>8, BelowStep

-----------------------------------------------------------------------------
\* The calls of the application.
LEMMA AppStopKeeps ==
    ASSUME RefresherInv, UNCHANGED settings, NEW reachable \in BOOLEAN,
           AppStop(reachable)
    PROVE  RefresherInv'
<1> DEFINE v == Stop(Now, reachable)
<1>1. Now \in Worlds /\ Now.refresher.current \in Ids
      /\ asked \in {0, 1} /\ Faithful(Now, asked)
  BY NowFacts
<1>2. Keeps(Now, v, asked) /\ v.refresher.timer = "none"
  BY <1>1, StopKeeps
<1>3. Become(v) /\ UNCHANGED <<settings, asked>>
  BY DEF AppStop
<1> HIDE DEF v
<1>4. Settled(Now, v, asked)
  BY <1>2 DEF Settled, Exclusive
<1> QED BY <1>3, <1>4, SettledStep

LEMMA AskedKeeps ==
    ASSUME RefresherInv, UNCHANGED settings, NEW keep \in BOOLEAN,
           NEW expires \in {0, 1}, NEW reachable \in BOOLEAN,
           Asked(keep, expires, reachable),
           asked' \in {0, 1},
           method = "REGISTER" =>
              asked' = IF keep THEN refresher.expires ELSE expires,
           keep => Live(Now, asked')
    PROVE  RefresherInv'
<1> DEFINE w == Refresh(Now, keep, expires, reachable)
           code == OnFailure(keep, expires)
           x == [w EXCEPT !.told = [code |-> code, retry |-> FALSE]]
           v == IF RefreshSucceeds(Now, TRUE, reachable) THEN w ELSE x
<1>1. PICK a \in {0, 1} : asked' = a
  OBVIOUS
<1>2. Now \in Worlds /\ Now.refresher = refresher
  BY NowFacts
<1>3. /\ method = "REGISTER" => a = IF keep THEN Now.refresher.expires ELSE expires
      /\ keep => Live(Now, a)
  BY <1>1, <1>2
<1>4. Keeps(Now, w, a) /\ w.refresher.timer = "none"
  BY <1>2, <1>3, RefreshKeeps
<1>5. Become(v) /\ code \in {"refused", "lost"}
  BY DEF Asked, OnFailure
<1> HIDE DEF w, code
<1>6. /\ x \in Worlds /\ x.refresher = w.refresher
      /\ x.transactions = w.transactions /\ x.told.code \in {"refused", "lost"}
  <2> DEFINE new == [code |-> code, retry |-> FALSE]
  <2>1. new \in [code : Codes, retry : BOOLEAN] /\ new.code = code
    BY <1>5 DEF Codes
  <2> HIDE DEF new
  <2>2. w \in Worlds
    BY <1>4 DEF Keeps, Follows
  <2> QED BY <1>5, <2>1, <2>2 DEF Worlds
<1> HIDE DEF x
<1>7. Within(x) => Faithful(x, a)
  BY <1>4, <1>6 DEF Keeps, Within, Faithful, Unsent, Current
<1>8. v \in {w, x} /\ w \in Worlds /\ (Within(w) => Faithful(w, a))
  BY <1>4 DEF Keeps, Follows
<1> HIDE DEF v
<1>9. v \in Worlds /\ (Within(v) => Faithful(v, a) /\ Exclusive(v))
  BY <1>4, <1>6, <1>7, <1>8 DEF Exclusive
<1>10. Within(v) => Faithful(v, asked') /\ Exclusive(v)
  BY <1>1, <1>9
<1> QED BY <1>5, <1>9, <1>10, BecomeKeeps

LEMMA AppRefreshKeeps ==
    ASSUME RefresherInv, UNCHANGED settings, NEW reachable \in BOOLEAN,
           NEW expires \in {0, 1}, AppRefresh(expires, reachable)
    PROVE  RefresherInv'
<1> DEFINE keep == FALSE
<1>1. keep \in BOOLEAN /\ ~keep
  OBVIOUS
<1>2. asked' = expires /\ Asked(keep, expires, reachable)
  BY DEF AppRefresh
<1> HIDE DEF keep
<1> QED BY <1>1, <1>2, AskedKeeps

\* Credentials are given for a registration that was refused: it has not been
\* asked to end, or it was stopped.
LEMMA AppAuthenticateKeeps ==
    ASSUME RefresherInv, UNCHANGED settings, NEW reachable \in BOOLEAN,
           AppAuthenticate(reachable)
    PROVE  RefresherInv'
<1> DEFINE keep == TRUE
           expires == 0
<1>1. keep \in BOOLEAN /\ keep /\ expires \in {0, 1}
  OBVIOUS
<1>2. /\ asked' = asked /\ Asked(keep, expires, reachable) /\ told.code = "401"
  BY DEF AppAuthenticate
<1> HIDE DEF keep, expires
<1>3. /\ Faithful(Now, asked) /\ asked \in {0, 1}
      /\ Now.told = told /\ Now.refresher = refresher
  BY NowFacts
<1>4. method = "REGISTER" => asked = refresher.expires
  BY <1>3 DEF Faithful
<1>5. Live(Now, asked)
  BY <1>2, <1>3 DEF Faithful, Unsent, Live
<1>6. Live(Now, asked') /\ asked' \in {0, 1}
  BY <1>2, <1>3, <1>5
<1>7. method = "REGISTER" => asked' = IF keep THEN refresher.expires ELSE expires
  BY <1>1, <1>2, <1>4
<1> QED BY <1>1, <1>2, <1>6, <1>7, AskedKeeps

LEMMA TimerKKeeps ==
    ASSUME RefresherInv, UNCHANGED <<settings, asked>>, NEW t \in Ids,
           NEW reachable \in BOOLEAN, TimerK(t, reachable)
    PROVE  RefresherInv'
<1> DEFINE v == Terminate(Now, t, reachable)
<1>1. Now \in Worlds /\ asked \in {0, 1} /\ Faithful(Now, asked) /\ Exclusive(Now)
  BY NowFacts
<1>2. Keeps(Now, v, asked) /\ (Within(v) => Exclusive(v))
  BY <1>1, TerminateKeeps
<1>3. Become(v)
  BY DEF TimerK
<1> HIDE DEF v
<1> QED BY <1>2, <1>3, SettledStep DEF Settled

-----------------------------------------------------------------------------
\* The timer of the refresher.
LEMMA UnreachableEnds ==
    ASSUME NEW w \in Worlds, NEW expires \in {0, 1}, NEW reachable \in BOOLEAN,
           ~Delayed(w), ~HasChannel(w, reachable)
    PROVE  LET v == Refresh(w, FALSE, expires, reachable)
           IN  Within(v) => ~Waiting(v)
<1> DEFINE w1 == [w EXCEPT !.refresher.timer = "none", !.refresher.challenged = FALSE]
           w2 == [w1 EXCEPT !.refresher.expires = expires]
           w3 == Replaced(w2)
           c  == w3.refresher.current
           w4 == SendRequest(w3, c, reachable)
<1>1. /\ w1 \in Worlds /\ w1.channel = w.channel
      /\ w1.transactions = w.transactions
      /\ w1.refresher.current = w.refresher.current
  BY DEF Worlds, Refreshers
<1>2. ~Delayed(w1) /\ ~HasChannel(w1, reachable)
  BY <1>1 DEF Delayed, HasChannel, Current
<1>3. Refresh(w, FALSE, expires, reachable) =
      RefreshInternal(w1, FALSE, expires, TRUE, reachable)
  BY DEF Refresh
<1> HIDE DEF w1
<1>4. RefreshInternal(w1, FALSE, expires, TRUE, reachable) = w4
  BY <1>2 DEF RefreshInternal
<1>5. w2 \in Worlds /\ w2.channel = w1.channel
  BY <1>1 DEF Worlds, Refreshers
<1> HIDE DEF w2
<1>6. w3 \in Worlds /\ w3.channel = w2.channel
  BY <1>5, ReplacedFacts
<1> HIDE DEF w3
<1>7. ~HasChannel(w3, reachable)
  BY <1>2, <1>5, <1>6 DEF HasChannel
<1>8. c \in Nat /\ (Within(w3) => c \in Ids)
  BY <1>6, CurrentId
<1>9. /\ w4.refresher = w3.refresher
      /\ c \in Ids => w4.transactions[c].state = "TERMINATED"
  <2> HIDE DEF c
  <2> QED BY <1>6, <1>7, <1>8, SendRequestFacts
<1> HIDE DEF w4
<1>10. Within(w4) => ~Waiting(w4)
  BY <1>8, <1>9 DEF Within, Waiting, Current, Transient
<1> QED BY <1>3, <1>4, <1>10

LEMMA RefreshTimerKeeps ==
    ASSUME RefresherInv, UNCHANGED <<settings, asked>>, NEW reachable \in BOOLEAN,
           RefreshTimer(reachable)
    PROVE  RefresherInv'
<1> DEFINE w1   == [Now EXCEPT !.refresher.timer = "none"]
           w2   == Refresh(w1, FALSE, refresher.expires, reachable)
           gone == [w1 EXCEPT !.told = [code |-> "expiring", retry |-> FALSE]]
           v    == IF refresher.timer = "normal" /\ manual THEN gone
                   ELSE IF RefreshSucceeds(Now, TRUE, reachable) THEN w2
                   ELSE Schedule(w2, "retry")
<1>1. /\ Now \in Worlds /\ asked \in {0, 1} /\ Faithful(Now, asked) /\ Exclusive(Now)
      /\ Now.refresher = refresher /\ Now.told = told /\ Within(Now)
      /\ Now.transactions = transactions /\ Now.channel = channel
  BY NowFacts
<1>2. refresher.timer # "none" /\ Become(v)
  BY DEF RefreshTimer
<1>3. Live(Now, asked) /\ ~Waiting(Now)
  BY <1>1, <1>2 DEF Faithful, Unsent, Live, Exclusive
<1>4. /\ w1 \in Worlds /\ w1.transactions = transactions /\ w1.told = told
      /\ w1.channel = channel
      /\ w1.refresher = [refresher EXCEPT !.timer = "none"]
  BY <1>1 DEF Worlds, Refreshers
<1>5. /\ w1.refresher.current = refresher.current
      /\ w1.refresher.expires = refresher.expires
      /\ w1.refresher.started = refresher.started
      /\ w1.refresher.timer = "none" /\ refresher.expires \in {0, 1}
  BY <1>1, <1>4 DEF Worlds, Refreshers
<1> HIDE DEF w1
<1>6. Current(w1) = Current(Now) /\ Faithful(w1, asked) /\ Live(w1, asked)
  BY <1>1, <1>3, <1>4, <1>5 DEF Current, Faithful, Live
<1>7. Settled(w1, w2, asked)
  <2>1. Settled(w1, Refresh(w1, FALSE, w1.refresher.expires, reachable), asked)
    BY <1>1, <1>4, <1>6, RefreshSettles
  <2> QED BY <1>5, <2>1
<1>8. CASE v = gone
  <2>1. /\ v \in Worlds /\ v.refresher = w1.refresher
        /\ v.transactions = w1.transactions
    <3> DEFINE new == [code |-> "expiring", retry |-> FALSE]
    <3>1. new \in [code : Codes, retry : BOOLEAN]
      BY DEF Codes
    <3> HIDE DEF new, v
    <3> QED BY <1>4, <1>8, <3>1 DEF Worlds, new
  <2> HIDE DEF v
  <2>2. Within(v) => Faithful(v, asked)
    BY <1>6, <2>1 DEF Faithful, Live, Current
  <2>3. Settled(Now, v, asked)
    BY <1>1, <1>5, <2>1, <2>2, CurrentId DEF Settled, Keeps, Follows, Exclusive
  <2> QED BY <1>2, <2>3, SettledStep
<1>9. CASE v = w2
  <2> HIDE DEF w2, v
  <2> QED BY <1>2, <1>7, <1>9, SettledStep
<1>10. CASE ~RefreshSucceeds(Now, TRUE, reachable) /\ v = Schedule(w2, "retry")
  <2>1. ~Delayed(w1) /\ ~HasChannel(w1, reachable)
    BY <1>1, <1>4, <1>6, <1>10 DEF RefreshSucceeds, Delayed, HasChannel
  <2>2. Within(w2) => ~Waiting(w2)
    BY <1>4, <1>5, <2>1, UnreachableEnds
  <2> HIDE DEF w2, v
  <2>3. /\ w2 \in Worlds /\ (Within(w2) => Faithful(w2, asked))
        /\ Live(w2, asked)
    BY <1>6, <1>7 DEF Settled, Keeps, Follows, Live
  <2>4. /\ Keeps(w2, v, asked) /\ SameRequest(w2, v)
        /\ Waiting(v) = Waiting(w2)
    BY <1>1, <1>10, <2>3, ScheduleKeeps
  <2>5. Settled(w2, v, asked)
    BY <2>2, <2>4 DEF Settled, Exclusive, SameRequest, Within
  <2> QED BY <1>2, <2>5, SettledStep
<1> HIDE DEF w2, gone
<1> QED BY <1>8, <1>9, <1>10

-----------------------------------------------------------------------------
\* The end of the current request, once its listener was told.
LEMMA EndSettles ==
    ASSUME NEW w \in Worlds, NEW u, NEW t \in Ids, NEW a \in {0, 1},
           NEW reachable \in BOOLEAN, Keeps(w, u, a),
           u.refresher.timer = "none" \/ u.refresher.current = t
    PROVE  Settled(w, Terminate(u, t, reachable), a)
<1> DEFINE v == Terminate(u, t, reachable)
<1>1. u \in Worlds /\ (Within(u) => Faithful(u, a))
  BY DEF Keeps, Follows
<1>2. Keeps(u, v, a) /\ (Within(v) => Exclusive(v))
  BY <1>1, TerminateKeeps
<1> HIDE DEF v
<1>3. Settled(u, v, a)
  BY <1>2 DEF Settled
<1>4. Settled(w, v, a)
  BY <1>3, SettledFrom
<1> QED BY <1>4 DEF v

\* What a handler does to the transaction itself after its listener.
LEMMA AfterSettles ==
    ASSUME NEW w \in Worlds, NEW z, NEW a \in {0, 1}, Settled(w, z, a),
           NEW t \in Ids, NEW new \in Transaction,
           new.expires = z.transactions[t].expires,
           new.state = z.transactions[t].state,
           new.linked => z.transactions[t].linked
    PROVE  Settled(w, [z EXCEPT !.transactions[t] = new], a)
<1> DEFINE v == [z EXCEPT !.transactions[t] = new]
<1>1. z \in Worlds
  BY DEF Settled, Keeps, Follows
<1>2. /\ v \in Worlds /\ v.refresher = z.refresher /\ v.told = z.told
      /\ v.transactions[t] = new
      /\ \A u \in Ids : u # t => v.transactions[u] = z.transactions[u]
  BY <1>1 DEF Worlds
<1> HIDE DEF v
<1>3. Within(v) => /\ Within(z) /\ Current(v).expires = Current(z).expires
                   /\ Current(v).state = Current(z).state
                   /\ Current(v).linked => Current(z).linked
  <2>1. ASSUME Within(v)
        PROVE  Within(z) /\ z.refresher.current \in Ids
    BY <1>1, <1>2, <2>1, CurrentId DEF Within
  <2>2. CASE z.refresher.current = t
    BY <1>2, <2>1, <2>2 DEF Current
  <2>3. CASE z.refresher.current # t
    BY <1>2, <2>1, <2>3 DEF Current
  <2> QED BY <2>2, <2>3
<1>4. Within(v) => Faithful(v, a) /\ Exclusive(v)
  BY <1>2, <1>3 DEF Settled, Keeps, Faithful, Unsent, Exclusive, Waiting
<1>5. Follows(w, v)
  BY <1>2 DEF Settled, Keeps, Follows
<1> QED BY <1>4, <1>5 DEF Settled, Keeps, v

\* The channel changes in the middle of a handler.
LEMMA ChannelSettles ==
    ASSUME NEW w \in Worlds, NEW u, NEW a \in {0, 1}, Settled(w, u, a),
           NEW c \in Channel
    PROVE  Settled(w, [u EXCEPT !.channel = c], a)
<1> DEFINE v == [u EXCEPT !.channel = c]
<1>1. u \in Worlds
  BY DEF Settled, Keeps, Follows
<1>2. /\ v \in Worlds /\ v.refresher = u.refresher /\ v.told = u.told
      /\ v.transactions = u.transactions
  BY <1>1 DEF Worlds
<1> HIDE DEF v
<1>3. Within(v) => Faithful(v, a) /\ Exclusive(v)
  BY <1>2 DEF Settled, Keeps, Within, Faithful, Unsent, Exclusive, Waiting, Current
<1>4. Follows(w, v)
  BY <1>2 DEF Settled, Keeps, Follows
<1> QED BY <1>3, <1>4 DEF Settled, Keeps, v

LEMMA TimerFKeeps ==
    ASSUME RefresherInv, UNCHANGED <<settings, asked>>, NEW t \in Ids, TimerF(t)
    PROVE  RefresherInv'
<1> DEFINE new   == [transactions[t] EXCEPT !.timers = @ \ {"F"}]
           trans == [transactions EXCEPT ![t] = new]
           w     == [Now EXCEPT !.transactions[t].timers = @ \ {"F"}]
<1>1. /\ Now \in Worlds /\ channel \in Channel /\ asked \in {0, 1}
      /\ refresher.current \in Ids /\ Now.refresher = refresher
      /\ Now.transactions = transactions /\ Now.channel = channel
      /\ Faithful(Now, asked) /\ Exclusive(Now)
      /\ Current(Now) = transactions[refresher.current]
      /\ transactions[t] \in Transaction /\ Reactions \subseteq AnyReaction
  BY NowFacts DEF Worlds
<1>2. /\ new \in Transaction /\ new.expires = transactions[t].expires
      /\ new.state = transactions[t].state /\ new.linked = transactions[t].linked
  BY <1>1 DEF Transaction
<1>3. w = [Now EXCEPT !.transactions[t] = new, !.channel = channel]
  BY <1>1 DEF Worlds
<1>4. Below(Now, trans, channel) /\ w = [Now EXCEPT !.transactions = trans, !.channel = channel]
  <2> HIDE DEF new
  <2> QED BY <1>1, <1>2, <1>3, OneBelow
<1>5. CASE Become(w)
  <2> HIDE DEF trans
  <2>1. Become([Now EXCEPT !.transactions = trans, !.channel = channel])
    BY <1>4, <1>5
  <2> QED BY <1>4, <2>1, BelowStep
<1>6. /\ Settled(Now, w, asked) /\ Faithful(w, asked) /\ Exclusive(w)
      /\ w \in Worlds /\ w.refresher = refresher /\ w.transactions = trans
      /\ w.channel = channel
  <2> DEFINE x == [Now EXCEPT !.transactions = trans, !.channel = channel]
  <2> HIDE DEF trans, w
  <2>1. Settled(Now, w, asked) /\ Faithful(w, asked) /\ Exclusive(w)
    <3>1. Settled(Now, x, asked) /\ Faithful(x, asked) /\ Exclusive(x)
      BY <1>1, <1>4, BelowSettles, ZenonT(40)
    <3>2. w = x
      BY <1>4
    <3> QED BY <3>1, <3>2
  <2>2. w \in Worlds
    BY <2>1 DEF Settled, Keeps, Follows
  <2>3. w.refresher = refresher /\ w.transactions = trans /\ w.channel = channel
    BY <1>1, <1>4 DEF Worlds
  <2> QED BY <2>1, <2>2, <2>3
<1>7. w.transactions[t] = new
  BY <1>1, <1>6 DEF Worlds
<1> HIDE DEF w, trans
<1>8. ASSUME NEW quiet \in BOOLEAN, Become(ReportDeadChannel(w, t, quiet))
      PROVE  RefresherInv'
  <2> DEFINE dead == ChannelError(channel, FALSE)
             late == [new EXCEPT !.timedOut = TRUE]
             u    == [w EXCEPT !.channel = dead]
             v    == [u EXCEPT !.transactions[t] = late]
  <2>1. dead \in Channel
    BY <1>1, ChannelErrorType
  <2>2. /\ late \in Transaction /\ late.expires = new.expires
        /\ late.state = new.state /\ late.linked = new.linked
    BY <1>2 DEF Transaction
  <2>3. ReportDeadChannel(w, t, quiet) \in {w, v}
    <3> HIDE DEF new
    <3>1. [w EXCEPT !.channel = dead, !.transactions[t].timedOut = TRUE] = v
      BY <1>6, <1>7 DEF Worlds
    <3>2. ReportDeadChannel(w, t, quiet) \in
             {w, [w EXCEPT !.channel = dead, !.transactions[t].timedOut = TRUE]}
      BY <1>6 DEF ReportDeadChannel
    <3> QED BY <3>1, <3>2
  <2> HIDE DEF dead, new
  <2>4. Settled(Now, u, asked)
    BY <1>1, <1>6, <2>1, ChannelSettles
  <2>5. u.transactions[t] = new
    BY <1>6, <1>7 DEF Worlds
  <2> HIDE DEF u, late
  <2>6. Settled(Now, v, asked)
    BY <1>1, <2>2, <2>4, <2>5, AfterSettles
  <2> HIDE DEF v
  <2> QED BY <1>6, <1>8, <2>3, <2>6, SettledStep
<1>9. ASSUME NEW app \in Reactions, Transient(transactions[t].state),
             Become(Terminate(IF t = refresher.current THEN ProcessTimeout(w, app)
                              ELSE w, t, app.reachable))
      PROVE  RefresherInv'
  <2>1. app \in AnyReaction /\ app.reachable \in BOOLEAN
    BY <1>1 DEF AnyReaction
  <2>2. CASE t = refresher.current
    <3> DEFINE u == ProcessTimeout(w, app)
    <3>1. Live(Now, asked)
      BY <1>1, <1>9, <2>2 DEF Faithful, Unsent, Live, Transient
    <3>2. Live(w, asked)
      BY <1>1, <1>6, <3>1 DEF Live
    <3>3. Reports(w, u, asked)
      BY <1>1, <1>6, <2>1, <3>2, ErrorReports
    <3> HIDE DEF u
    <3>4. Keeps(w, u, asked) /\ (u.refresher.timer = "none" \/ u.refresher.current = t)
      BY <1>6, <2>2, <3>3 DEF Reports, SameRequest
    <3>5. Settled(w, Terminate(u, t, app.reachable), asked)
      BY <1>1, <1>6, <2>1, <3>4, EndSettles
    <3> DEFINE v == Terminate(u, t, app.reachable)
    <3>6. Become(v)
      BY <1>9, <2>2 DEF u
    <3> HIDE DEF v
    <3>7. Settled(w, v, asked)
      BY <3>5 DEF v
    <3> QED BY <3>6, <3>7, SettledStep
  <2>3. CASE t # refresher.current
    <3> DEFINE v == Terminate(w, t, app.reachable)
    <3>1. Settled(w, v, asked)
      BY <1>1, <1>6, <2>1, TerminateKeeps DEF Settled
    <3>2. Become(v)
      BY <1>9, <2>3
    <3> HIDE DEF v
    <3> QED BY <3>1, <3>2, SettledStep
  <2> QED BY <2>2, <2>3
<1> QED
  <2>1. \/ Become(w)
        \/ \E quiet \in BOOLEAN : Become(ReportDeadChannel(w, t, quiet))
        \/ /\ Transient(transactions[t].state)
           /\ \E app \in Reactions :
                 Become(Terminate(IF t = refresher.current THEN ProcessTimeout(w, app)
                                  ELSE w, t, app.reachable))
    BY DEF TimerF, w
  <2> QED BY <1>5, <1>8, <1>9, <2>1

\* The listener runs while the transaction is in COMPLETED, and may find the
\* channel another address before the transaction ends.
LEMMA FinalKeeps ==
    ASSUME RefresherInv, UNCHANGED <<settings, asked>>, NEW t \in Ids,
           NEW code \in Answers, NEW allowed \in BOOLEAN, NEW app \in Reactions,
           Final(t, code, allowed, app)
    PROVE  RefresherInv'
<1> DEFINE new   == [transactions[t] EXCEPT !.state = "COMPLETED"]
           trans == [transactions EXCEPT ![t] = new]
           x  == [Now EXCEPT !.transactions = trans, !.channel = channel]
           w1 == [Now EXCEPT !.transactions[t].state = "COMPLETED"]
           w2 == IF t = refresher.current
                 THEN ProcessResponse(w1, code, allowed, app) ELSE w1
           w3 == IF code = "500" /\ method = "REGISTER"
                 THEN [w2 EXCEPT !.channel = ChannelError(@, TRUE)] ELSE w2
           w4 == [w3 EXCEPT !.transactions[t].timers = @ \cup {"K"}]
           v  == IF reliable THEN Terminate(w3, t, app.reachable) ELSE w4
<1>1. /\ Now \in Worlds /\ channel \in Channel /\ asked \in {0, 1}
      /\ refresher.current \in Ids /\ Now.refresher = refresher
      /\ Now.transactions = transactions /\ Now.channel = channel
      /\ Faithful(Now, asked) /\ Exclusive(Now) /\ Within(Now)
      /\ Current(Now) = transactions[refresher.current]
      /\ transactions[t] \in Transaction /\ app \in AnyReaction
  BY NowFacts DEF Worlds
<1>2. app.reachable \in BOOLEAN
  BY <1>1 DEF AnyReaction
<1>3. Become(v) /\ transactions[t].state \in {"TRYING", "PROCEEDING"}
  BY DEF Final, Answerable
<1>4. /\ new \in Transaction /\ new.expires = transactions[t].expires
      /\ new.state = "COMPLETED" /\ new.linked = transactions[t].linked
  BY <1>1 DEF Transaction, TransactionStates
<1>5. Below(Now, trans, channel) /\ w1 = x
  <2>1. w1 = [Now EXCEPT !.transactions[t] = new, !.channel = channel]
    BY <1>1 DEF Worlds
  <2> HIDE DEF new, w1
  <2> QED BY <1>1, <1>3, <1>4, <2>1, OneBelow DEF Transient
<1>6. /\ Settled(Now, w1, asked) /\ Faithful(w1, asked) /\ Exclusive(w1)
      /\ w1 \in Worlds /\ w1.refresher = refresher /\ w1.transactions = trans
      /\ trans[t] = new
  <2>1. trans[t] = new
    BY <1>1 DEF Worlds
  <2> HIDE DEF trans, w1
  <2>2. Settled(Now, x, asked) /\ Faithful(x, asked) /\ Exclusive(x)
    BY <1>1, <1>5, BelowSettles, ZenonT(40)
  <2>3. x.refresher = refresher /\ x.transactions = trans
    BY <1>1 DEF Worlds
  <2> HIDE DEF x
  <2> QED BY <1>5, <2>1, <2>2, <2>3 DEF Settled, Keeps, Follows
<1> HIDE DEF w1, trans, new, x
<1>7. Settled(w1, w2, asked)
  <2>1. CASE t = refresher.current
    <3>1. refresher.timer = "none"
      BY <1>1, <1>3, <2>1 DEF Exclusive, Waiting, Transient
    <3>2. Answered(w1, asked)
      BY <1>1, <1>4, <1>6, <2>1, <3>1 DEF Answered, Current, Within
    <3>3. Settled(w1, ProcessResponse(w1, code, allowed, app), asked)
      BY <1>1, <3>2, ResponseSettles, Zenon
    <3> QED BY <2>1, <3>3
  <2>2. CASE t # refresher.current
    <3>1. Settled(w1, w1, asked)
      BY <1>6, CurrentId DEF Settled, Keeps, Follows
    <3> QED BY <2>2, <3>1
  <2> QED BY <2>1, <2>2
<1> HIDE DEF w2
<1>8. Settled(w1, w3, asked)
  <2> DEFINE c == ChannelError(w2.channel, TRUE)
             u == [w2 EXCEPT !.channel = c]
  <2>1. w2.channel \in Channel
    BY <1>7 DEF Settled, Keeps, Follows, Worlds
  <2>2. c \in Channel
    BY <2>1, ChannelErrorType
  <2>3. w3 \in {w2, u}
    OBVIOUS
  <2> HIDE DEF c, w3
  <2>4. Settled(w1, u, asked)
    BY <1>1, <1>6, <1>7, <2>2, ChannelSettles
  <2> HIDE DEF u
  <2> QED BY <1>7, <2>3, <2>4
<1> HIDE DEF w3
<1>9. w3 \in Worlds /\ (Within(w3) => Faithful(w3, asked) /\ Exclusive(w3))
  BY <1>8 DEF Settled, Keeps, Follows
<1>10. CASE reliable
  <2> DEFINE u == Terminate(w3, t, app.reachable)
  <2>1. Settled(w3, u, asked)
    BY <1>1, <1>2, <1>9, TerminateKeeps DEF Settled
  <2>2. Become(u)
    BY <1>3, <1>10
  <2> HIDE DEF u
  <2> QED BY <2>1, <2>2, SettledStep
<1>11. CASE ~reliable
  <2> DEFINE last == [w3.transactions[t] EXCEPT !.timers = @ \cup {"K"}]
             u    == [w3 EXCEPT !.transactions[t] = last]
  <2>1. w3.transactions[t] \in Transaction
    BY <1>9 DEF Worlds
  <2>2. /\ last \in Transaction
        /\ last.expires = w3.transactions[t].expires
        /\ last.state = w3.transactions[t].state
        /\ last.linked = w3.transactions[t].linked
    BY <2>1 DEF Transaction
  <2>3. w4 = u
    BY <1>9 DEF Worlds
  <2>4. Become(u)
    BY <1>3, <1>11, <2>3
  <2> HIDE DEF last
  <2>5. Settled(w1, u, asked)
    BY <1>1, <1>6, <1>8, <2>2, AfterSettles
  <2> HIDE DEF u
  <2> QED BY <2>4, <2>5, SettledStep
<1> QED BY <1>10, <1>11

-----------------------------------------------------------------------------
\* The provider reports the end of a channel whose request was answered: its
\* registration has not been asked to end, or the refresher was stopped.
LEMMA ProviderErrorSettles ==
    ASSUME NEW w \in Worlds, NEW app \in AnyReaction, NEW a \in {0, 1},
           w.refresher.current \in Ids, Faithful(w, a), Exclusive(w)
    PROVE  LET v == ProcessProviderIoError(w, app)
           IN  Settled(w, v, a) /\ SameRequest(w, v)
<1> DEFINE v == ProcessProviderIoError(w, app)
           s == Schedule(w, "retry")
           x == Tell(s, "io", TRUE, app)
           y == [x EXCEPT !.refresher.ioError = TRUE]
           Over == Current(w).state = "TERMINATED" /\ Current(w).linked
<1>1. (Over /\ v = y) \/ v = w
  BY DEF ProcessProviderIoError
<1> SUFFICES Settled(w, v, a) /\ SameRequest(w, v)
  OBVIOUS
<1> HIDE DEF v
<1>2. CASE v = w
  BY <1>2, CurrentId DEF Settled, Keeps, Follows, SameRequest
<1>3. CASE Over /\ v = y
  <2> DEFINE code == "io"
             retry == TRUE
             purpose == "retry"
  <2>1. /\ Live(w, a) /\ ~Waiting(w)
        /\ code \in Codes /\ retry \in BOOLEAN /\ purpose \in {"normal", "retry"}
    BY <1>3 DEF Faithful, Unsent, Live, Waiting, Transient, Codes
  <2>2. /\ Keeps(w, s, a) /\ SameRequest(w, s) /\ Live(s, a)
        /\ Waiting(s) = Waiting(w)
    BY ScheduleKeeps, <2>1
  <2> HIDE DEF s, code, retry
  <2>3. s \in Worlds /\ s.refresher.current \in Ids /\ (Within(s) => Faithful(s, a))
        /\ ~Waiting(s)
    BY <2>1, <2>2 DEF Keeps, Follows, SameRequest
  <2>4. Reacted(s, Tell(s, code, retry, app), a)
    BY <2>1, <2>2, <2>3, TellKeeps, Zenon
  <2>5. Reacted(s, x, a)
    BY <2>4 DEF code, retry
  <2> HIDE DEF x
  <2>6. Keeps(s, x, a) /\ SameRequest(s, x) /\ x \in Worlds
    BY <2>3, <2>5 DEF Reacted, Keeps, Follows
  <2>7. /\ y \in Worlds /\ y.transactions = x.transactions /\ y.told = x.told
        /\ y.refresher = [x.refresher EXCEPT !.ioError = TRUE]
    BY <2>6 DEF Worlds, Refreshers
  <2> HIDE DEF y
  <2>8. /\ y.refresher.current = x.refresher.current
        /\ y.refresher.started = x.refresher.started
        /\ y.refresher.expires = x.refresher.expires
        /\ y.refresher.timer = x.refresher.timer
    BY <2>6, <2>7 DEF Worlds, Refreshers
  <2>9. Within(y) => Faithful(y, a)
    BY <2>6, <2>7, <2>8 DEF Keeps, Within, Faithful, Unsent, Current
  <2>10. SameRequest(w, y)
    BY <2>2, <2>6, <2>7, <2>8 DEF SameRequest
  <2>11. Exclusive(y)
    BY <2>1, <2>10 DEF SameRequest, Exclusive, Waiting, Current
  <2>12. Follows(w, y)
    BY <2>2, <2>6, <2>7, <2>8, <2>10, CurrentId DEF Keeps, Follows, SameRequest
  <2> QED BY <1>3, <2>9, <2>10, <2>11, <2>12 DEF Settled, Keeps
<1> QED BY <1>1, <1>2, <1>3

\* What the error of a channel brings to the transaction it was linked to.
LEMMA NotifiedKeeps ==
    ASSUME NEW w \in Worlds, NEW app \in AnyReaction, NEW a \in {0, 1}, NEW c \in Ids,
           w.refresher.current = c, Within(w) => Faithful(w, a), Live(w, a),
           NEW over \in BOOLEAN, NEW late \in BOOLEAN
    PROVE  LET w3 == IF over THEN w ELSE ProcessTransactionIoError(w, app)
               w4 == IF late /\ w3.refresher.current = c
                     THEN ProcessTimeout(w3, app) ELSE w3
           IN  Keeps(w, w4, a)
               /\ (w4.refresher.timer = "none" \/ w4.refresher.current = c)
<1> DEFINE w3 == IF over THEN w ELSE ProcessTransactionIoError(w, app)
           w4 == IF late /\ w3.refresher.current = c
                 THEN ProcessTimeout(w3, app) ELSE w3
<1> SUFFICES /\ Keeps(w, w4, a)
             /\ w4.refresher.timer = "none" \/ w4.refresher.current = c
  OBVIOUS
<1>1. /\ Keeps(w, w3, a)
      /\ w3.refresher.timer = "none" \/ w3.refresher.current = c
  <2>1. Reports(w, ProcessTransactionIoError(w, app), a)
    BY ErrorReports
  <2>2. Keeps(w, w, a)
    BY CurrentId DEF Keeps, Follows
  <2> QED BY <2>1, <2>2 DEF Reports, SameRequest
<1> HIDE DEF w3
<1>2. CASE late /\ w3.refresher.current = c
  <2> DEFINE u == ProcessTimeout(w3, app)
  <2>1. /\ w3 \in Worlds /\ w3.refresher.current \in Ids
        /\ Within(w3) => Faithful(w3, a)
        /\ Live(w3, a)
    BY <1>1, <1>2 DEF Keeps, Follows, Live
  <2>2. Reports(w3, u, a)
    BY <2>1, ErrorReports
  <2>3. w4 = u
    BY <1>2
  <2> HIDE DEF u, w4
  <2>4. Keeps(w, w4, a)
    BY <1>1, <2>2, <2>3, CurrentId DEF Reports, Keeps, Follows
  <2>5. w4.refresher.timer = "none" \/ w4.refresher.current = c
    BY <1>2, <2>2, <2>3 DEF Reports, SameRequest
  <2> QED BY <2>4, <2>5
<1>3. CASE ~(late /\ w3.refresher.current = c)
  <2>1. w4 = w3
    BY <1>3
  <2> HIDE DEF w4
  <2> QED BY <1>1, <2>1
<1> QED BY <1>2, <1>3

LEMMA EndedByErrorType ==
    ASSUME NEW trans \in [Ids -> Transaction], NEW c \in Ids
    PROVE  /\ EndedByError(trans, c) \in [Ids -> Transaction]
           /\ EndedByError(trans, c)[c] = trans[c]
<1>1. ASSUME NEW x \in Transaction
      PROVE  [x EXCEPT !.state = "TERMINATED", !.timers = {}, !.linked = FALSE]
                \in Transaction
  <2> DEFINE none == {}
  <2>1. none \in SUBSET {"F", "K"} /\ "TERMINATED" \in TransactionStates
    BY DEF TransactionStates
  <2> HIDE DEF none
  <2>2. [x EXCEPT !.state = "TERMINATED", !.timers = none, !.linked = FALSE]
           \in Transaction
    BY <2>1 DEF Transaction
  <2> QED BY <2>2 DEF none
<1> QED BY <1>1 DEF EndedByError

LEMMA ErrorNotifiedKeeps ==
    ASSUME RefresherInv, UNCHANGED <<settings, asked>>, NEW app \in Reactions,
           ErrorNotified(app)
    PROVE  RefresherInv'
<1> DEFINE c  == refresher.current
           p  == ProcessProviderIoError(Now, app)
           ch == [state |-> "none", left |-> Alternates]
           w2 == [[p EXCEPT !.channel = ch]
                     EXCEPT !.transactions = EndedByError(@, c)]
           over == transactions[c].state \in {"COMPLETED", "TERMINATED"}
           late == transactions[c].timedOut
           w3 == IF over THEN w2 ELSE ProcessTransactionIoError(w2, app)
           w4 == IF late /\ w3.refresher.current = c THEN ProcessTimeout(w3, app)
                                                     ELSE w3
           z  == Terminate(w4, c, app.reachable)
           w5 == [z EXCEPT !.transactions[c].linked = FALSE]
<1>1. /\ Now \in Worlds /\ asked \in {0, 1}
      /\ c \in Ids /\ Now.refresher.current = c /\ Now.refresher = refresher
      /\ Now.transactions = transactions
      /\ Faithful(Now, asked) /\ Exclusive(Now) /\ Within(Now)
      /\ Current(Now) = transactions[c]
      /\ transactions[c] \in Transaction /\ app \in AnyReaction
  BY NowFacts DEF Worlds
<1>2. app.reachable \in BOOLEAN /\ over \in BOOLEAN /\ late \in BOOLEAN
  BY <1>1 DEF AnyReaction, Transaction
<1>3. Become(IF transactions[c].linked THEN w5 ELSE w2)
  BY DEF ErrorNotified
<1>4. ch \in Channel
  BY NonInviteAssumption DEF Channel, ChannelStates
<1>5. Settled(Now, p, asked) /\ SameRequest(Now, p)
  BY <1>1, ProviderErrorSettles
<1> HIDE DEF p, ch
<1>6. /\ p \in Worlds /\ p.refresher.current = c /\ p.transactions = transactions
      /\ Faithful(p, asked) /\ Exclusive(p) /\ Current(p) = transactions[c]
      /\ p.refresher.started => refresher.started
  BY <1>1, <1>5 DEF Settled, Keeps, Follows, SameRequest, Within, Current
<1>7. Settled(p, w2, asked) /\ w2.refresher.current = c
  <2> DEFINE trans == EndedByError(transactions, c)
             x     == [p EXCEPT !.transactions = trans, !.channel = ch]
  <2>1. transactions \in [Ids -> Transaction]
    BY <1>6 DEF Worlds
  <2>2. trans \in [Ids -> Transaction] /\ trans[c] = transactions[c]
    BY <1>1, <2>1, EndedByErrorType
  <2> HIDE DEF trans
  <2>3. w2 = x
    BY <1>6 DEF Worlds, trans
  <2>4. Below(p, trans, ch)
    BY <1>4, <1>6, <2>2 DEF Below
  <2>5. Settled(p, x, asked)
    BY <1>1, <1>6, <2>4, BelowSettles
  <2>6. x.refresher = p.refresher
    BY <1>6 DEF Worlds
  <2> HIDE DEF x, w2
  <2> QED BY <1>6, <2>3, <2>5, <2>6
<1> HIDE DEF w2
<1>8. CASE ~transactions[c].linked
  <2>1. Become(w2)
    BY <1>3, <1>8
  <2> QED BY <1>7, <2>1, SettledStep
<1>9. CASE transactions[c].linked
  <2>1. Become(w5)
    BY <1>3, <1>9
  <2>2. Live(Now, asked)
    BY <1>1, <1>9 DEF Faithful, Unsent, Live
  <2>3. w2 \in Worlds /\ (Within(w2) => Faithful(w2, asked)) /\ Live(w2, asked)
    BY <1>1, <1>6, <1>7, <2>2 DEF Settled, Keeps, Follows, Live
  <2> HIDE DEF over, late, c
  <2>4. /\ Keeps(w2, w4, asked)
        /\ w4.refresher.timer = "none" \/ w4.refresher.current = c
    BY <1>1, <1>2, <1>7, <2>3, NotifiedKeeps
  <2> HIDE DEF w4
  <2>5. Settled(w2, z, asked)
    BY <1>1, <1>2, <2>3, <2>4, EndSettles
  <2> HIDE DEF z
  <2> DEFINE last == [z.transactions[c] EXCEPT !.linked = FALSE]
             u    == [z EXCEPT !.transactions[c] = last]
  <2>6. z \in Worlds /\ z.transactions[c] \in Transaction
    BY <1>1, <2>5 DEF Settled, Keeps, Follows, Worlds
  <2>7. /\ last \in Transaction
        /\ last.expires = z.transactions[c].expires
        /\ last.state = z.transactions[c].state
        /\ ~last.linked
    BY <2>6 DEF Transaction
  <2>8. w5 = u
    BY <2>6 DEF Worlds
  <2>9. Become(u)
    BY <2>1, <2>8
  <2> HIDE DEF last
  <2>10. Settled(w2, u, asked)
    BY <1>1, <2>3, <2>5, <2>7, AfterSettles
  <2> HIDE DEF u
  <2> QED BY <2>9, <2>10, SettledStep
<1> QED BY <1>8, <1>9

-----------------------------------------------------------------------------
LEMMA InitKeeps == Init => RefresherInv
<1> SUFFICES ASSUME Init
             PROVE  RefresherInv
  OBVIOUS
<1> DEFINE nothing == {}
           sent == [Unused EXCEPT !.state = "INIT", !.linked = TRUE, !.expires = 1]
           first == IF channel.state = "ready" THEN NictSend(sent) ELSE sent
<1>1. 1 \in Ids /\ 1 <= MaxRequests
  BY NonInviteAssumption DEF Ids
<1>2. Unused \in Transaction /\ sent \in Transaction
      /\ sent.expires = 1 /\ sent.linked /\ sent.state = "INIT"
  <2>1. nothing \in SUBSET {"F", "K"} /\ {"NULL", "INIT"} \subseteq TransactionStates
    BY DEF TransactionStates
  <2>2. Unused = [state |-> "NULL", timers |-> nothing, linked |-> FALSE,
                  timedOut |-> FALSE, expires |-> 0]
    BY DEF Unused
  <2> HIDE DEF nothing
  <2> QED BY <2>1, <2>2 DEF Transaction
<1>3. /\ first \in Transaction /\ first.expires = 1 /\ first.linked
  <2> HIDE DEF sent
  <2> QED BY <1>2, NictSendType
<1>4. transactions = [t \in Ids |-> IF t # 1 THEN Unused ELSE first]
  BY DEF Init
<1> HIDE DEF first
<1>5. transactions \in [Ids -> Transaction] /\ transactions[1] = first
  BY <1>1, <1>2, <1>3, <1>4
<1>6. channel \in Channel
  BY NonInviteAssumption DEF Init, Channel, ChannelStates
<1>7. /\ refresher = [started |-> TRUE, timer |-> "none", expires |-> 1,
                      challenged |-> FALSE, ioError |-> FALSE, pending |-> FALSE,
                      current |-> 1]
      /\ refresher \in RefresherRecord
  BY <1>1 DEF Init, RefresherRecord
<1>8. told \in [code : Codes, retry : BOOLEAN]
  BY DEF Init, Nothing, Codes
<1>9. TypeOK
  BY <1>5, <1>6, <1>7, <1>8 DEF TypeOK, Init
<1>10. /\ Now.refresher = refresher /\ Current(Now) = first
  BY <1>5, <1>7 DEF Now, Current
<1>11. asked = 1
  BY DEF Init
<1>12. Within(Now) /\ Exclusive(Now) /\ Faithful(Now, asked)
  BY <1>1, <1>3, <1>7, <1>10, <1>11 DEF Within, Exclusive, Faithful
<1> QED BY <1>9, <1>12 DEF RefresherInv

LEMMA StepKeeps == RefresherInv /\ [Next]_vars => RefresherInv'
<1> SUFFICES ASSUME RefresherInv, [Next]_vars
             PROVE  RefresherInv'
  OBVIOUS
<1>0. Reachability \subseteq BOOLEAN
  BY NowFacts
<1>1. CASE MainLoop
  <2>1. UNCHANGED <<settings, asked>>
    BY <1>1 DEF MainLoop
  <2>2. ASSUME NEW t \in Ids, Provisional(t) PROVE RefresherInv'
    BY <2>1, <2>2, ProvisionalKeeps
  <2>3. ASSUME NEW t \in Ids, NEW code \in Answers, NEW allowed \in BOOLEAN,
               NEW app \in Reactions, Final(t, code, allowed, app)
        PROVE  RefresherInv'
    BY <2>1, <2>3, FinalKeeps
  <2>4. ASSUME NEW t \in Ids, TimerF(t) PROVE RefresherInv'
    BY <2>1, <2>4, TimerFKeeps
  <2>5. ASSUME NEW t \in Ids, NEW reachable \in Reachability, TimerK(t, reachable)
        PROVE  RefresherInv'
    BY <1>0, <2>1, <2>5, TimerKKeeps
  <2>6. CASE ConnectNext \/ ConnectFails \/ Breaks
    BY <2>1, <2>6, ChannelKeeps
  <2>7. CASE Connected
    BY <2>1, <2>7, ConnectedKeeps
  <2>8. ASSUME NEW app \in Reactions, ErrorNotified(app) PROVE RefresherInv'
    BY <2>1, <2>8, ErrorNotifiedKeeps
  <2>9. ASSUME NEW reachable \in Reachability, RefreshTimer(reachable)
        PROVE  RefresherInv'
    BY <1>0, <2>1, <2>9, RefreshTimerKeeps
  <2> QED BY <1>1, <2>2, <2>3, <2>4, <2>5, <2>6, <2>7, <2>8, <2>9 DEF MainLoop, Due
<1>2. CASE Application
  <2>1. UNCHANGED settings
    BY <1>2 DEF Application
  <2>2. ASSUME NEW reachable \in Reachability, NEW expires \in {0, 1},
               AppRefresh(expires, reachable)
        PROVE  RefresherInv'
    BY <1>0, <2>1, <2>2, AppRefreshKeeps
  <2>3. ASSUME NEW reachable \in Reachability, AppAuthenticate(reachable)
        PROVE  RefresherInv'
    BY <1>0, <2>1, <2>3, AppAuthenticateKeeps
  <2>4. ASSUME NEW reachable \in Reachability, AppStop(reachable)
        PROVE  RefresherInv'
    BY <1>0, <2>1, <2>4, AppStopKeeps
  <2> QED BY <1>2, <2>2, <2>3, <2>4 DEF Application
<1>3. CASE UNCHANGED vars
  BY <1>3 DEF vars, settings, world, RefresherInv, TypeOK, Within, Exclusive, Waiting,
              Faithful, Unsent, Current, Now
<1> QED BY <1>1, <1>2, <1>3 DEF Next

LEMMA Invariance == Spec => []RefresherInv
BY InitKeeps, StepKeeps, PTL DEF Spec

\* Every handler of refresher.c, nict.c and channel.c leaves the refresher, its
\* transactions and its channel within their types, for every bound.
THEOREM TypeCorrect == Spec => []TypeOK
<1>1. RefresherInv => TypeOK
  BY DEF RefresherInv
<1> QED BY <1>1, Invariance, PTL

\* belle_sip_refresher_refresh cancels the timer before it sends, and each
\* handler that arms it ends the request in the same turn if it is not over:
\* no retry is scheduled while one is under way.
THEOREM RetryExcludesRequest == Spec => []RetryXorRequest
<1>1. RefresherInv => RetryXorRequest
  BY NowFacts DEF Exclusive, Waiting, RetryXorRequest, Running
<1> QED BY <1>1, Invariance, PTL

\* refresher->expires and the Expires of the request agree with what the
\* application asked for last, across the challenges, the redirections, the
\* retries and the timeouts of process_response_event and process_io_error.
THEOREM AskedExpiryIsSent == Spec => []AskedExpiry
<1>1. RefresherInv => AskedExpiry
  BY DEF RefresherInv, Faithful, AskedExpiry
<1> QED BY <1>1, Invariance, PTL
=============================================================================
