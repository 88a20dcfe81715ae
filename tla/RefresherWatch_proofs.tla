------------------------ MODULE RefresherWatch_proofs ------------------------
(***************************************************************************)
(* A refresher never stops without a word, for every number of requests    *)
(* and addresses: as long as it is started it has a request under way, a   *)
(* timer, or an application that knows.                                    *)
(*                                                                         *)
(* As in Refresher_proofs the lemmas are about the worlds in the middle of *)
(* a handler.                                                              *)
(***************************************************************************)
EXTENDS Refresher_proofs

-----------------------------------------------------------------------------
\* Nothing is under way and nothing is scheduled, but the application knows
\* and was not promised a retry, if that is one process_response_event makes.
Excused(w) ==
    w.refresher.started /\ w.refresher.timer = "none" =>
        /\ w.told.code \notin {"none", "200"}
        /\ w.told.retry => w.told.code \in {"301", "401"}

Watched(w) == Waiting(w) \/ Excused(w)

\* The current request is not one that was never made, nor, over a reliable
\* transport, one that was answered and not ended; timer K waits only for the
\* end of one that was answered, and an error that the provider reported was
\* of a request that is over and that no other error can reach.
Steady(w) ==
    /\ Current(w).state # "NULL"
    /\ reliable => Current(w).state # "COMPLETED"
    /\ "K" \in Current(w).timers => ~Waiting(w)
    /\ w.refresher.ioError => ~Waiting(w) /\ ~Current(w).linked

\* A started refresher that was asked to end is about to send it once the
\* request under way, or the one that was challenged, is over.
Ending(w) == w.refresher.started /\ w.refresher.expires = 0

EndPending(w) ==
    Ending(w) /\ (Waiting(w) \/ w.told.code = "401") => w.refresher.pending

Tended(w) == Steady(w) /\ Watched(w) /\ EndPending(w)

WatchInv == RefresherInv /\ Tended(Now)

-----------------------------------------------------------------------------
(***************************************************************************)
(* What a request that is sent leaves behind.                              *)
(***************************************************************************)
LEMMA NictSendTimers ==
    ASSUME NEW x \in Transaction, "K" \notin x.timers
    PROVE  "K" \notin NictSend(x).timers /\ NictSend(x).state = "TRYING"
BY DEF NictSend, Transaction

LEMMA SentFacts ==
    ASSUME NEW w \in Worlds, NEW t \in Ids, NEW reachable \in BOOLEAN,
           w.transactions[t].state = "INIT", "K" \notin w.transactions[t].timers
    PROVE  LET v == SendRequest(w, t, reachable) IN
           /\ "K" \notin v.transactions[t].timers
           /\ v.transactions[t].state =
                 IF ~HasChannel(w, reachable) THEN "TERMINATED"
                 ELSE IF w.channel.state = "ready" THEN "TRYING" ELSE "INIT"
<1> DEFINE old    == w.transactions[t]
           linked == [old EXCEPT !.linked = TRUE]
           sent   == IF w.channel.state = "ready" THEN NictSend(linked) ELSE linked
           v == SendRequest(w, t, reachable)
<1>1. old \in Transaction /\ t \in Nat
  BY NonInviteAssumption DEF Worlds, Ids
<1>2. CASE ~HasChannel(w, reachable)
  <2>1. v = Ended(w, t)
    BY <1>2 DEF SendRequest
  <2>2. v.transactions[t] =
           [w.transactions[t] EXCEPT !.state = "TERMINATED", !.timers = {}]
    <3>1. t \in Ids /\ t \in Nat
      BY <1>1
    <3>2. Ended(w, t).transactions[t] =
             [w.transactions[t] EXCEPT !.state = "TERMINATED", !.timers = {}]
      BY <3>1, EndedFacts
    <3> QED BY <2>1, <3>2
  <2>3. \A x \in Transaction :
           LET y == [x EXCEPT !.state = "TERMINATED", !.timers = {}]
           IN  y.state = "TERMINATED" /\ y.timers = {}
    BY DEF Transaction
  <2> HIDE DEF v, old
  <2> QED BY <1>1, <1>2, <2>2, <2>3 DEF v
<1>3. CASE HasChannel(w, reachable)
  <2>1. /\ linked \in Transaction /\ linked.state = "INIT"
        /\ "K" \notin linked.timers
    BY <1>1 DEF Transaction
  <2> HIDE DEF linked
  <2>2. /\ "K" \notin sent.timers
        /\ sent.state = IF w.channel.state = "ready" THEN "TRYING" ELSE "INIT"
    BY <2>1, NictSendTimers
  <2>3. v.transactions = [w.transactions EXCEPT ![t] = sent]
    BY <1>3 DEF SendRequest, Worlds, linked
  <2> HIDE DEF v, sent
  <2>4. v.transactions[t] = sent
    BY <2>3 DEF Worlds
  <2> QED BY <1>3, <2>2, <2>4 DEF v
<1> QED BY <1>2, <1>3

LEMMA ReplacedNew ==
    ASSUME NEW w \in Worlds, Within(w)
    PROVE  LET v == Replaced(w) IN
           /\ Current(v).state = "INIT" /\ "K" \notin Current(v).timers
           /\ v.refresher.current = w.refresher.current + 1
<1> DEFINE old == w.refresher.current
           w1  == IF Current(w).state \in {"INIT", "TRYING"} THEN Ended(w, old) ELSE w
           new == [Unused EXCEPT !.state = "INIT", !.expires = w.refresher.expires]
           v   == Replaced(w)
<1>1. old \in Nat \ {0} /\ old + 1 \in Ids
  BY CurrentId
<1>2. w1 \in Worlds
  BY <1>1, EndedFacts
<1> HIDE DEF w1
<1>3. new.state = "INIT" /\ new.timers = {}
  BY DEF Unused
<1>4. /\ v.refresher.current = old + 1
      /\ v.transactions = [w1.transactions EXCEPT ![old + 1] = new]
  <2>1. v = [w1 EXCEPT !.transactions[old + 1] = new,
                       !.refresher.current = old + 1,
                       !.refresher.ioError = FALSE, !.told = Nothing]
    BY DEF Replaced, w1, new
  <2> HIDE DEF v, new, old
  <2> QED BY <1>2, <2>1 DEF Worlds, Refreshers
<1> HIDE DEF v, new
<1>5. v.transactions[old + 1] = new
  BY <1>1, <1>2, <1>4 DEF Worlds
<1> QED BY <1>3, <1>4, <1>5 DEF Current, v

\* A request that is sent at once: it is under way if it has a channel, and
\* over before it began if it has none.
Resent(w, v, reachable) ==
    /\ v.refresher.current = w.refresher.current + 1
    /\ ~v.refresher.ioError
    /\ v.refresher.pending = w.refresher.pending
    /\ v.told = Nothing
    /\ "K" \notin Current(v).timers
    /\ Current(v).state \in IF HasChannel(w, reachable) THEN {"INIT", "TRYING"}
                                                        ELSE {"TERMINATED"}

LEMMA ResentFacts ==
    ASSUME NEW w \in Worlds, Within(w), ~Delayed(w), NEW keep \in BOOLEAN,
           NEW expires \in {0, 1}, NEW reachable \in BOOLEAN
    PROVE  LET v == RefreshInternal(w, keep, expires, TRUE, reachable) IN
           /\ Resent(w, v, reachable)
           /\ v.refresher.expires = Wanted(w, keep, expires)
           /\ v.refresher.started = (/\ w.refresher.started
                                     /\ ~(~keep /\ expires = 0
                                            /\ HasChannel(w, reachable)))
<1> DEFINE v  == RefreshInternal(w, keep, expires, TRUE, reachable)
           e  == Wanted(w, keep, expires)
           w1 == [w EXCEPT !.refresher.expires = IF keep THEN @ ELSE expires]
           w2 == Replaced(w1)
           c  == w2.refresher.current
           w3 == SendRequest(w2, c, reachable)
<1>1. /\ w1 \in Worlds /\ w1.channel = w.channel
      /\ w1.refresher = [w.refresher EXCEPT !.expires = e]
      /\ w1.transactions = w.transactions
  BY DEF Worlds, Refreshers, Wanted
<1>2. v = IF ~keep /\ expires = 0 /\ HasChannel(w, reachable) THEN Stopped(w3) ELSE w3
  BY DEF RefreshInternal
<1> SUFFICES /\ Resent(w, v, reachable)
             /\ v.refresher.expires = e
             /\ v.refresher.started = (/\ w.refresher.started
                                       /\ ~(~keep /\ expires = 0
                                              /\ HasChannel(w, reachable)))
  OBVIOUS
<1> HIDE DEF w1, v, e
<1>3. Within(w1)
  BY <1>1 DEF Within, Worlds, Refreshers
<1>4. /\ w2 \in Worlds /\ w2.channel = w.channel /\ w2.told = Nothing
      /\ w2.refresher = [w1.refresher EXCEPT !.current = w1.refresher.current + 1,
                                             !.ioError = FALSE]
  BY <1>1, ReplacedFacts
<1>5. /\ w2.transactions[c].state = "INIT" /\ "K" \notin w2.transactions[c].timers
      /\ c = w1.refresher.current + 1
  BY <1>1, <1>3, ReplacedNew DEF Current
<1> HIDE DEF w2, c
<1>6. c = w.refresher.current + 1 /\ c \in Ids /\ c \in Nat
  <2>1. w1.refresher.current = w.refresher.current
    BY <1>1 DEF Worlds, Refreshers
  <2> QED BY <1>5, <2>1, CurrentId, NonInviteAssumption DEF Ids
<1>7. /\ "K" \notin w3.transactions[c].timers
      /\ w3.transactions[c].state =
            IF ~HasChannel(w2, reachable) THEN "TERMINATED"
            ELSE IF w2.channel.state = "ready" THEN "TRYING" ELSE "INIT"
  BY <1>4, <1>5, <1>6, SentFacts
<1>8. w3 \in Worlds /\ w3.refresher = w2.refresher /\ w3.told = w2.told
  BY <1>4, <1>6, SendRequestFacts
<1> HIDE DEF w3
<1>9. HasChannel(w2, reachable) = HasChannel(w, reachable)
  BY <1>4 DEF HasChannel
<1>10. /\ w3.refresher.current = c /\ ~w3.refresher.ioError
       /\ w3.refresher.pending = w.refresher.pending
       /\ w3.refresher.started = w.refresher.started
       /\ w3.refresher.expires = e
  <2>1. c = w1.refresher.current + 1
    BY <1>5
  <2> QED BY <1>1, <1>4, <1>8, <2>1 DEF Worlds, Refreshers
<1>11. /\ v.transactions = w3.transactions /\ v.told = w3.told
       /\ v.refresher.current = c /\ ~v.refresher.ioError
       /\ v.refresher.pending = w.refresher.pending
       /\ v.refresher.expires = e
       /\ v.refresher.started = (/\ w.refresher.started
                                 /\ ~(~keep /\ expires = 0
                                        /\ HasChannel(w, reachable)))
  BY <1>2, <1>8, <1>10 DEF Stopped, Worlds, Refreshers
<1>12. Resent(w, v, reachable)
  BY <1>4, <1>6, <1>7, <1>8, <1>9, <1>11 DEF Resent, Current
<1> QED BY <1>11, <1>12

\* belle_sip_refresher_refresh, called when no request is under way or to
\* replace it: what is sent is steady, and watched if it could be sent.
Tending(w, v, reachable) ==
    /\ Steady(v) /\ EndPending(v)
    /\ ~Delayed(w) => /\ v.refresher.current = w.refresher.current + 1
                      /\ v.told.code # "401"
    /\ RefreshSucceeds(w, TRUE, reachable) => Waiting(v)
    /\ ~RefreshSucceeds(w, TRUE, reachable) => ~Waiting(v)

LEMMA RefreshTends ==
    ASSUME NEW w \in Worlds, Within(w), NEW keep \in BOOLEAN,
           NEW expires \in {0, 1}, NEW reachable \in BOOLEAN,
           keep /\ Ending(w) => w.refresher.pending,
           Delayed(w) => Steady(w)
    PROVE  Tending(w, Refresh(w, keep, expires, reachable), reachable)
<1> DEFINE w1 == [w EXCEPT !.refresher.timer = "none", !.refresher.challenged = FALSE]
           w2 == [w1 EXCEPT !.refresher.expires = IF keep THEN @ ELSE expires]
           w3 == [w2 EXCEPT !.refresher.pending = TRUE]
           u  == RefreshInternal(w1, keep, expires, TRUE, reachable)
           v  == Refresh(w, keep, expires, reachable)
<1>1. /\ w1 \in Worlds /\ w1.transactions = w.transactions
      /\ w1.channel = w.channel /\ w1.told = w.told
      /\ w1.refresher.current = w.refresher.current
      /\ w1.refresher.started = w.refresher.started
      /\ w1.refresher.expires = w.refresher.expires
      /\ w1.refresher.pending = w.refresher.pending
      /\ w1.refresher.ioError = w.refresher.ioError
  BY DEF Worlds, Refreshers
<1>2. v = u
  BY DEF Refresh
<1>3. u = w3 \/ ~Delayed(w1)
  BY DEF RefreshInternal
<1> SUFFICES Tending(w, v, reachable)
  OBVIOUS
<1> HIDE DEF w1, u, v
<1>4. /\ Delayed(w1) = Delayed(w) /\ HasChannel(w1, reachable) = HasChannel(w, reachable)
      /\ Within(w1) /\ Current(w1) = Current(w)
  BY <1>1 DEF Delayed, HasChannel, Within, Current
<1>5. CASE Delayed(w)
  <2>1. /\ w3.transactions = w.transactions /\ w3.refresher.pending
        /\ w3.refresher.current = w.refresher.current
        /\ w3.refresher.ioError = w.refresher.ioError
    BY <1>1 DEF Worlds, Refreshers
  <2>2. v = w3
    BY <1>2, <1>3, <1>4, <1>5
  <2> HIDE DEF w3
  <2>3. Current(v) = Current(w) /\ Waiting(v) = Waiting(w) /\ Waiting(w)
    BY <1>5, <2>1, <2>2 DEF Current, Waiting, Delayed
  <2>4. Steady(v) /\ EndPending(v)
    BY <1>5, <2>1, <2>2, <2>3 DEF Steady, EndPending
  <2> QED BY <1>5, <2>3, <2>4 DEF Tending, RefreshSucceeds
<1>6. CASE ~Delayed(w)
  <2>1. /\ Resent(w1, u, reachable)
        /\ u.refresher.expires = Wanted(w1, keep, expires)
        /\ u.refresher.started = (/\ w1.refresher.started
                                  /\ ~(~keep /\ expires = 0
                                         /\ HasChannel(w1, reachable)))
    BY <1>1, <1>4, <1>6, ResentFacts DEF u
  <2>2. /\ u.refresher.current = w.refresher.current + 1
        /\ u.told.code = "none"
        /\ HasChannel(w, reachable) => Waiting(u)
        /\ ~HasChannel(w, reachable) => ~Waiting(u)
        /\ Current(u).state \in {"INIT", "TRYING", "TERMINATED"}
    BY <1>1, <2>1 DEF Resent, Nothing, Waiting, Transient, HasChannel
  <2>3. Steady(u)
    BY <2>1, <2>2 DEF Steady, Resent
  <2>4. EndPending(u)
    <3>1. CASE keep
      <4>1. Ending(u) => Ending(w)
        BY <1>1, <2>1, <3>1 DEF Ending, Wanted
      <4> QED BY <1>1, <2>1, <3>1, <4>1 DEF EndPending, Resent
    <3>2. CASE ~keep
      <4>1. Ending(u) => ~HasChannel(w, reachable)
        BY <1>4, <2>1, <3>2 DEF Ending, Wanted
      <4> QED BY <2>2, <4>1 DEF EndPending
    <3> QED BY <3>1, <3>2
  <2>5. /\ RefreshSucceeds(w, TRUE, reachable) => HasChannel(w, reachable)
        /\ ~RefreshSucceeds(w, TRUE, reachable) => ~HasChannel(w, reachable)
    BY <1>6 DEF RefreshSucceeds, HasChannel
  <2>6. v.refresher.current = w.refresher.current + 1 /\ v.told.code # "401"
    BY <1>2, <2>2
  <2> QED BY <1>2, <1>6, <2>2, <2>3, <2>4, <2>5, <2>6, Zenon DEF Tending
<1> QED BY <1>5, <1>6

-----------------------------------------------------------------------------
(***************************************************************************)
(* The end of a transaction.                                               *)
(***************************************************************************)
LEMMA RefreshWorld ==
    ASSUME NEW w \in Worlds, NEW keep \in BOOLEAN, NEW expires \in {0, 1},
           NEW reachable \in BOOLEAN
    PROVE  Refresh(w, keep, expires, reachable) \in Worlds
<1> DEFINE w1 == [w EXCEPT !.refresher.timer = "none", !.refresher.challenged = FALSE]
           yes == TRUE
<1>1. w1 \in Worlds /\ yes \in BOOLEAN
  BY DEF Worlds, Refreshers
<1>2. Refresh(w, keep, expires, reachable) =
      RefreshInternal(w1, keep, expires, yes, reachable)
  BY DEF Refresh
<1> HIDE DEF w1, yes
<1>3. Refreshed(w1, RefreshInternal(w1, keep, expires, yes, reachable), keep,
                Wanted(w1, keep, expires), yes)
  BY <1>1, RefreshInternalFacts, Zenon
<1> QED BY <1>2, <1>3, Zenon DEF Refreshed, Follows

LEMMA TerminateWorld ==
    ASSUME NEW w \in Worlds, NEW t \in Ids, NEW reachable \in BOOLEAN
    PROVE  Terminate(w, t, reachable) \in Worlds
<1> DEFINE w1 == Ended(w, t)
           w2 == [w1 EXCEPT !.refresher.pending = FALSE]
           w3 == Refresh(w2, FALSE, w.refresher.expires, reachable)
           w4 == [w3 EXCEPT !.told = [code |-> "lost", retry |-> FALSE]]
<1>1. Terminate(w, t, reachable) \in {w, w1, w2, w3, w4}
  BY Zenon DEF Terminate
<1>2. w1 \in Worlds
  <2>1. t \in Nat
    BY NonInviteAssumption DEF Ids
  <2>2. Ended(w, t) \in Worlds
    BY <2>1, EndedFacts
  <2> QED BY <2>2
<1> HIDE DEF w1
<1>3. w2 \in Worlds
  BY <1>2 DEF Worlds, Refreshers
<1> HIDE DEF w2
<1>4. w3 \in Worlds
  BY <1>3, RefreshWorld, ZenonT(40) DEF Worlds, Refreshers
<1> HIDE DEF w3
<1>5. w4 \in Worlds
  BY <1>4 DEF Worlds, Codes
<1> QED BY <1>1, <1>2, <1>3, <1>4, <1>5

\* What the invariant looks at is as it was.
Alike(w, v) ==
    v.refresher = w.refresher /\ v.told = w.told /\ Current(v) = Current(w)

LEMMA AlikeTended ==
    ASSUME NEW w, NEW v, Alike(w, v), Tended(w)
    PROVE  Tended(v)
BY DEF Alike, Tended, Steady, Watched, Excused, EndPending, Ending, Waiting

LEMMA OtherEnds ==
    ASSUME NEW w \in Worlds, w.refresher.current \in Ids, NEW t \in Ids,
           t # w.refresher.current, NEW reachable \in BOOLEAN
    PROVE  Alike(w, Terminate(w, t, reachable))
<1> DEFINE w1 == Ended(w, t)
           v  == Terminate(w, t, reachable)
<1>1. v = IF w.transactions[t].state = "TERMINATED" THEN w ELSE w1
  BY DEF Terminate
<1>2. t \in Nat /\ w.refresher.current \in Ids
  BY CurrentId, NonInviteAssumption DEF Ids
<1>3. /\ w1.refresher = w.refresher /\ w1.told = w.told
      /\ \A u \in Ids : u # t => w1.transactions[u] = w.transactions[u]
  BY <1>2, EndedFacts
<1> HIDE DEF w1, v
<1>4. Alike(w, v)
  BY <1>1, <1>2, <1>3 DEF Alike, Current
<1> QED BY <1>4 DEF v

\* The current request ends: its delayed PUBLISH goes out, or the application
\* has heard, or a timer is on.
Heard(w) ==
    /\ Ending(w) /\ w.told.code = "401" => w.refresher.pending
    /\ Excused(w) \/ (w.refresher.started /\ w.refresher.pending)

LEMMA CurrentEnds ==
    ASSUME NEW w \in Worlds, Within(w), NEW t \in Ids, t = w.refresher.current,
           NEW reachable \in BOOLEAN, Current(w).state # "TERMINATED",
           w.refresher.ioError => ~Current(w).linked
    PROVE  LET v == Terminate(w, t, reachable) IN
           /\ Steady(v)
           /\ Heard(w) => Tended(v)
           /\ v.refresher.current = t =>
                 /\ v.refresher.timer = w.refresher.timer
                 /\ v.refresher.started => w.refresher.started
           /\ w.refresher.started /\ w.refresher.pending => v.refresher.current # t
<1> DEFINE w1 == Ended(w, t)
           w2 == [w1 EXCEPT !.refresher.pending = FALSE]
           w3 == Refresh(w2, FALSE, w.refresher.expires, reachable)
           w4 == [w3 EXCEPT !.told = [code |-> "lost", retry |-> FALSE]]
           v  == Terminate(w, t, reachable)
           goes == w.refresher.pending /\ w.refresher.started
<1>0. /\ w.refresher.expires \in {0, 1} /\ t \in Nat
      /\ w.transactions[t] \in Transaction
  BY CurrentId DEF Worlds, Refreshers
<1>1. /\ ~goes => v = w2
      /\ goes /\ HasChannel(w, reachable) => v = w3
      /\ goes /\ ~HasChannel(w, reachable) => v = w4
  BY DEF Terminate, Current
<1>2. /\ w1 \in Worlds /\ w1.refresher = w.refresher /\ w1.told = w.told
      /\ w1.channel = w.channel
      /\ w1.transactions[t] = [w.transactions[t] EXCEPT !.state = "TERMINATED",
                                                        !.timers = {}]
  BY <1>0, EndedFacts
<1> HIDE DEF w1
<1>3. /\ w2 \in Worlds /\ w2.transactions = w1.transactions /\ w2.told = w.told
      /\ w2.refresher = [w.refresher EXCEPT !.pending = FALSE]
      /\ w2.channel = w.channel
  BY <1>2 DEF Worlds, Refreshers
<1> HIDE DEF w2
<1>4. /\ w2.refresher.current = t /\ ~w2.refresher.pending
      /\ w2.refresher.started = w.refresher.started
      /\ w2.refresher.expires = w.refresher.expires
      /\ w2.refresher.timer = w.refresher.timer
      /\ w2.refresher.ioError = w.refresher.ioError
  BY <1>3 DEF Worlds, Refreshers
<1>5. /\ Current(w2).state = "TERMINATED" /\ "K" \notin Current(w2).timers
      /\ Current(w2).linked = Current(w).linked
      /\ ~Waiting(w2) /\ ~Delayed(w2) /\ Within(w2)
  <2>1. \A x \in Transaction :
           LET y == [x EXCEPT !.state = "TERMINATED", !.timers = {}]
           IN  y.state = "TERMINATED" /\ y.timers = {} /\ y.linked = x.linked
    BY DEF Transaction
  <2>2. LET y == w2.transactions[t]
        IN  y.state = "TERMINATED" /\ y.timers = {}
            /\ y.linked = w.transactions[t].linked
    <3>1. w2.transactions[t] = [w.transactions[t] EXCEPT !.state = "TERMINATED",
                                                         !.timers = {}]
      BY <1>2, <1>3
    <3> QED BY <1>0, <2>1, <3>1
  <2> QED BY <1>4, <2>2 DEF Current, Waiting, Delayed, Transient, Within
<1> SUFFICES /\ Steady(v)
             /\ Heard(w) => Tended(v)
             /\ v.refresher.current = t =>
                   /\ v.refresher.timer = w.refresher.timer
                   /\ v.refresher.started => w.refresher.started
             /\ goes => v.refresher.current # t
  OBVIOUS
<1>6. CASE ~goes
  <2>1. v = w2
    BY <1>1, <1>6
  <2> HIDE DEF v
  <2>2. Heard(w) => Excused(v)
    BY <1>3, <1>4, <1>6, <2>1 DEF Heard, Excused
  <2>3. Steady(v)
    BY <1>4, <1>5, <2>1 DEF Steady
  <2>4. Heard(w) => EndPending(v)
    BY <1>3, <1>4, <1>5, <1>6, <2>1 DEF Heard, EndPending, Ending
  <2> QED BY <1>4, <1>6, <2>1, <2>2, <2>3, <2>4 DEF Tended, Watched
<1>7. CASE goes
  <2> DEFINE keep == FALSE
             e    == w.refresher.expires
  <2>1. keep \in BOOLEAN /\ ~keep /\ e \in {0, 1}
    BY <1>0
  <2> HIDE DEF keep, e
  <2>2. Tending(w2, Refresh(w2, keep, e, reachable), reachable)
    BY <1>3, <1>5, <2>1, RefreshTends, Zenon
  <2>3. Tending(w2, w3, reachable)
    BY <2>2, Zenon DEF keep, e
  <2> HIDE DEF w3
  <2>4. /\ Steady(w3) /\ EndPending(w3)
        /\ w3.refresher.current = t + 1
        /\ RefreshSucceeds(w2, TRUE, reachable) => Waiting(w3)
        /\ ~RefreshSucceeds(w2, TRUE, reachable) => ~Waiting(w3)
    BY <1>4, <1>5, <2>3 DEF Tending
  <2>5. w3.refresher.current # t
    BY <1>0, <2>4
  <2>6. CASE HasChannel(w, reachable)
    <3>1. v = w3
      BY <1>1, <1>7, <2>6
    <3>2. RefreshSucceeds(w2, TRUE, reachable)
      BY <1>3, <2>6 DEF RefreshSucceeds, HasChannel
    <3> HIDE DEF v
    <3> QED BY <2>4, <2>5, <3>1, <3>2 DEF Tended, Watched
  <2>7. CASE ~HasChannel(w, reachable)
    <3>1. v = w4
      BY <1>1, <1>7, <2>7
    <3>2. ~Waiting(w3)
      BY <1>3, <1>5, <2>4, <2>7 DEF RefreshSucceeds, HasChannel
    <3>3. w3 \in Worlds
      BY <1>0, <1>3, RefreshWorld DEF w3
    <3>4. /\ w4.refresher = w3.refresher /\ w4.transactions = w3.transactions
          /\ w4.told.code = "lost" /\ ~w4.told.retry
      BY <3>3 DEF Worlds
    <3> HIDE DEF v, w4
    <3>5. Current(v) = Current(w3) /\ ~Waiting(v) /\ v.refresher = w3.refresher
      BY <3>1, <3>2, <3>4 DEF Current, Waiting
    <3>6. Steady(v) /\ Excused(v) /\ EndPending(v)
      BY <2>4, <3>1, <3>2, <3>4, <3>5 DEF Steady, Excused, EndPending
    <3> QED BY <1>7, <2>5, <3>5, <3>6 DEF Tended, Watched
  <2> QED BY <2>6, <2>7
<1> QED BY <1>6, <1>7

-----------------------------------------------------------------------------
(***************************************************************************)
(* What the application does in its listener.                              *)
(***************************************************************************)
LEMMA StopSteady ==
    ASSUME NEW w \in Worlds, Within(w), NEW reachable \in BOOLEAN
    PROVE  LET v == Stop(w, reachable) IN
           /\ v \in Worlds /\ ~v.refresher.started /\ v.refresher.timer = "none"
           /\ Steady(w) => Steady(v)
           /\ ~Waiting(w) => /\ SameRequest(w, v)
                             /\ v.refresher.ioError = w.refresher.ioError
<1> DEFINE w1 == [w EXCEPT !.refresher.timer = "none"]
           c  == w.refresher.current
           w2 == IF Transient(Current(w).state) THEN Terminate(w1, c, reachable) ELSE w1
           v  == Stop(w, reachable)
<1>1. /\ w1 \in Worlds /\ w1.transactions = w.transactions
      /\ w1.refresher = [w.refresher EXCEPT !.timer = "none"]
  BY DEF Worlds, Refreshers
<1>2. v = Stopped(w2)
  BY DEF Stop
<1> HIDE DEF w1, v
<1>3. /\ w1.refresher.current = c /\ w1.refresher.ioError = w.refresher.ioError
      /\ Current(w1) = Current(w) /\ Within(w1) /\ c \in Ids
  BY <1>1, CurrentId DEF Worlds, Refreshers, Current, Within
<1>4. w2 \in Worlds
  <2>1. Terminate(w1, c, reachable) \in Worlds
    BY <1>1, <1>3, TerminateWorld
  <2> QED BY <1>1, <2>1
<1>5. Steady(w) => Steady(w2)
  <2>1. Steady(w) => Steady(w1)
    BY <1>1, <1>3 DEF Steady, Waiting
  <2>2. CASE Waiting(w)
    <3>1. Steady(w) => /\ w1.refresher.ioError => ~Current(w1).linked
                       /\ Current(w1).state # "TERMINATED"
      BY <1>3, <2>2 DEF Steady, Waiting, Transient
    <3>2. Steady(w) => Steady(Terminate(w1, c, reachable))
      BY <1>1, <1>3, <3>1, CurrentEnds
    <3> QED BY <2>2, <3>2 DEF Waiting
  <2>3. CASE ~Waiting(w)
    BY <2>1, <2>3 DEF Waiting
  <2> QED BY <2>2, <2>3
<1>6. ~Waiting(w) => w2 = w1
  BY DEF Waiting
<1> HIDE DEF w2
<1>7. /\ v \in Worlds /\ ~v.refresher.started /\ v.refresher.timer = "none"
      /\ v.transactions = w2.transactions
      /\ v.refresher.current = w2.refresher.current
      /\ v.refresher.ioError = w2.refresher.ioError
  BY <1>2, <1>4 DEF Stopped, Worlds, Refreshers
<1>8. Steady(w2) => Steady(v)
  BY <1>7 DEF Steady, Waiting, Current
<1>9. ~Waiting(w) => /\ SameRequest(w, v)
                     /\ v.refresher.ioError = w.refresher.ioError
  BY <1>1, <1>3, <1>6, <1>7 DEF SameRequest
<1> QED BY <1>5, <1>7, <1>8, <1>9 DEF v

\* The listener stopped the refresher, or all is as it was but for what the
\* application knows.
Announced(w, v, code, retry) ==
    /\ v \in Worlds
    /\ Steady(w) => Steady(v)
    /\ \/ /\ ~v.refresher.started /\ v.refresher.timer = "none"
          /\ ~Waiting(w) => /\ SameRequest(w, v)
                            /\ v.refresher.ioError = w.refresher.ioError
       \/ /\ v.refresher = w.refresher /\ SameRequest(w, v)
          /\ v.told.code = code /\ v.told.retry = retry

LEMMA TellAnnounces ==
    ASSUME NEW w \in Worlds, Within(w), NEW code \in Codes, NEW retry \in BOOLEAN,
           NEW app \in AnyReaction
    PROVE  Announced(w, Tell(w, code, retry, app), code, retry)
<1> DEFINE w1 == [w EXCEPT !.told = [code |-> code, retry |-> retry]]
           v  == Tell(w, code, retry, app)
<1>1. /\ w1 \in Worlds /\ w1.transactions = w.transactions
      /\ w1.refresher = w.refresher
      /\ w1.told.code = code /\ w1.told.retry = retry
  <2> DEFINE new == [code |-> code, retry |-> retry]
  <2>1. new \in [code : Codes, retry : BOOLEAN] /\ new.code = code /\ new.retry = retry
    OBVIOUS
  <2> HIDE DEF new
  <2> QED BY <2>1 DEF Worlds
<1>2. v = IF app.stops THEN Stop(w1, app.reachable) ELSE w1
  BY DEF Tell
<1> SUFFICES Announced(w, v, code, retry)
  OBVIOUS
<1> HIDE DEF w1, v
<1>3. /\ SameRequest(w, w1) /\ Within(w1) /\ Current(w1) = Current(w)
      /\ Steady(w) => Steady(w1)
      /\ ~Waiting(w) => ~Waiting(w1)
  BY <1>1 DEF SameRequest, Within, Current, Waiting, Steady
<1>4. CASE app.stops
  <2>1. app.reachable \in BOOLEAN
    BY DEF AnyReaction
  <2>2. /\ v \in Worlds /\ ~v.refresher.started /\ v.refresher.timer = "none"
        /\ Steady(w1) => Steady(v)
        /\ ~Waiting(w1) => /\ SameRequest(w1, v)
                           /\ v.refresher.ioError = w1.refresher.ioError
    <3>1. v = Stop(w1, app.reachable)
      BY <1>2, <1>4
    <3>2. LET x == Stop(w1, app.reachable) IN
          /\ x \in Worlds /\ ~x.refresher.started /\ x.refresher.timer = "none"
          /\ Steady(w1) => Steady(x)
          /\ ~Waiting(w1) => /\ SameRequest(w1, x)
                             /\ x.refresher.ioError = w1.refresher.ioError
      BY <1>1, <1>3, <2>1, StopSteady
    <3> QED BY <3>1, <3>2, Zenon
  <2>3. ~Waiting(w) => /\ SameRequest(w, v)
                       /\ v.refresher.ioError = w.refresher.ioError
    BY <1>1, <1>3, <2>2 DEF SameRequest
  <2> QED BY <1>3, <2>2, <2>3, Zenon DEF Announced
<1>5. CASE ~app.stops
  <2>1. v = w1
    BY <1>2, <1>5
  <2> QED BY <1>1, <1>3, <2>1, Zenon DEF Announced
<1> QED BY <1>4, <1>5

-----------------------------------------------------------------------------
(***************************************************************************)
(* process_response_event.                                                 *)
(***************************************************************************)
\* The current request was answered.
Replying(w) ==
    /\ w \in Worlds /\ Within(w)
    /\ Current(w).state = "COMPLETED"
    /\ w.refresher.timer = "none" /\ ~w.refresher.ioError
    /\ Ending(w) => w.refresher.pending
    /\ w.channel.state = "ready"

\* It is still the current one, and someone will care when it ends ...
Handled(w, v) ==
    /\ SameRequest(w, v)
    /\ ~v.refresher.ioError
    /\ Excused(v)
    /\ Ending(v) => v.refresher.pending

\* ... or another one was sent.
Replied(w, v) ==
    /\ v \in Worlds
    /\ \/ v.refresher.current = w.refresher.current + 1 /\ Tended(v)
       \/ Handled(w, v)

\* What may be told of a refresher that has no timer.
Telling(code, retry) ==
    code \notin {"none", "200"} /\ (retry => code \in {"301", "401"})

LEMMA ToldReplied ==
    ASSUME NEW w, Replying(w), NEW x \in Worlds, SameRequest(w, x),
           ~x.refresher.ioError, Ending(x) => x.refresher.pending,
           NEW code \in Codes, NEW retry \in BOOLEAN, NEW app \in AnyReaction,
           x.refresher.started /\ x.refresher.timer = "none" => Telling(code, retry)
    PROVE  Replied(w, Tell(x, code, retry, app))
<1> DEFINE v == Tell(x, code, retry, app)
<1>1. Within(x) /\ ~Waiting(x)
  BY DEF Replying, SameRequest, Within, Waiting, Current, Transient
<1>2. Announced(x, v, code, retry)
  BY <1>1, TellAnnounces, Zenon
<1> SUFFICES Replied(w, v)
  OBVIOUS
<1> HIDE DEF v
<1>3. SameRequest(x, v) /\ ~v.refresher.ioError
  BY <1>1, <1>2 DEF Announced
<1>4. SameRequest(w, v) /\ v \in Worlds
  BY <1>2, <1>3 DEF SameRequest, Announced
<1>5. Excused(v) /\ (Ending(v) => v.refresher.pending)
  BY <1>2 DEF Announced, Excused, Telling, Ending
<1> QED BY <1>3, <1>4, <1>5 DEF Replied, Handled

\* A timer is started, before anything is told.
LEMMA ScheduledReplying ==
    ASSUME NEW w, Replying(w), NEW purpose \in {"normal", "retry"}
    PROVE  LET v == Schedule(w, purpose) IN
           /\ v \in Worlds /\ SameRequest(w, v) /\ v.refresher.timer = purpose
           /\ ~v.refresher.ioError /\ (Ending(v) => v.refresher.pending)
           /\ Replied(w, v)
<1> DEFINE v == Schedule(w, purpose)
<1>1. w \in Worlds /\ ~w.refresher.ioError /\ (Ending(w) => w.refresher.pending)
  BY DEF Replying
<1>2. /\ v \in Worlds /\ v.transactions = w.transactions
      /\ v.refresher = [w.refresher EXCEPT !.timer = purpose]
  BY <1>1 DEF Schedule, Worlds, Refreshers
<1> HIDE DEF v
<1>3. /\ v.refresher.timer = purpose /\ v.refresher.current = w.refresher.current
      /\ ~v.refresher.ioError /\ v.refresher.pending = w.refresher.pending
      /\ v.refresher.started = w.refresher.started
      /\ v.refresher.expires = w.refresher.expires
  BY <1>1, <1>2 DEF Worlds, Refreshers
<1>4. SameRequest(w, v) /\ (Ending(v) => v.refresher.pending) /\ Excused(v)
  BY <1>1, <1>2, <1>3 DEF SameRequest, Ending, Excused
<1> QED BY <1>2, <1>3, <1>4 DEF Replied, Handled, v

LEMMA ScheduledReplied ==
    ASSUME NEW w, Replying(w), NEW purpose \in {"normal", "retry"},
           NEW code \in Codes, NEW retry \in BOOLEAN, NEW app \in AnyReaction
    PROVE  Replied(w, Tell(Schedule(w, purpose), code, retry, app))
<1> DEFINE s == Schedule(w, purpose)
<1>1. /\ s \in Worlds /\ SameRequest(w, s) /\ s.refresher.timer = purpose
      /\ ~s.refresher.ioError /\ (Ending(s) => s.refresher.pending)
  BY ScheduledReplying
<1> SUFFICES Replied(w, Tell(s, code, retry, app))
  OBVIOUS
<1> HIDE DEF s
<1>2. s.refresher.timer # "none"
  BY <1>1
<1> QED BY <1>1, <1>2, ToldReplied, Zenon

LEMMA JustToldReplied ==
    ASSUME NEW w, Replying(w), NEW code \in Codes, NEW retry \in BOOLEAN,
           Telling(code, retry), NEW app \in AnyReaction
    PROVE  Replied(w, Tell(w, code, retry, app))
<1>1. w \in Worlds /\ SameRequest(w, w) /\ ~w.refresher.ioError
      /\ (Ending(w) => w.refresher.pending)
  BY DEF Replying, SameRequest
<1> QED BY <1>1, ToldReplied, Zenon

\* The channel of an answer is there for the request that follows.
LEMMA AgainReplied ==
    ASSUME NEW w, Replying(w), NEW e \in {0, 1}, NEW reachable \in BOOLEAN
    PROVE  /\ Replied(w, Refresh(w, FALSE, e, reachable))
           /\ Replied(w, RefreshInternal(w, FALSE, e, TRUE, reachable))
<1> DEFINE keep == FALSE
           u == Refresh(w, keep, e, reachable)
           v == RefreshInternal(w, keep, e, TRUE, reachable)
<1>1. /\ keep \in BOOLEAN /\ ~keep /\ w \in Worlds /\ Within(w)
      /\ ~Delayed(w) /\ HasChannel(w, reachable)
      /\ RefreshSucceeds(w, TRUE, reachable)
  BY DEF Replying, Delayed, Transient, HasChannel, RefreshSucceeds
<1>2. u \in Worlds
  BY <1>1, RefreshWorld
<1> SUFFICES Replied(w, u) /\ Replied(w, v)
  OBVIOUS
<1> HIDE DEF keep
<1>3. Tending(w, u, reachable)
  BY <1>1, RefreshTends, Zenon
<1>4. /\ Resent(w, v, reachable)
      /\ v.refresher.expires = Wanted(w, keep, e)
      /\ v.refresher.started = (/\ w.refresher.started
                                /\ ~(~keep /\ e = 0 /\ HasChannel(w, reachable)))
  BY <1>1, ResentFacts
<1>5. v \in Worlds
  <2> DEFINE yes == TRUE
  <2>1. yes \in BOOLEAN
    OBVIOUS
  <2> HIDE DEF yes
  <2>2. Refreshed(w, RefreshInternal(w, keep, e, yes, reachable), keep,
                  Wanted(w, keep, e), yes)
    BY <1>1, <2>1, RefreshInternalFacts, Zenon
  <2>3. RefreshInternal(w, keep, e, yes, reachable) \in Worlds
    BY <2>2, Zenon DEF Refreshed, Follows
  <2> QED BY <2>3 DEF yes
<1> HIDE DEF u, v
<1>6. Replied(w, u)
  BY <1>1, <1>2, <1>3, Zenon DEF Replied, Tending, Tended, Watched
<1>7. ~Ending(v)
  BY <1>1, <1>4 DEF Ending, Wanted
<1>8. Waiting(v) /\ v.refresher.current = w.refresher.current + 1
      /\ Current(v).state \in {"INIT", "TRYING"} /\ ~v.refresher.ioError
      /\ "K" \notin Current(v).timers
  BY <1>1, <1>4 DEF Resent, Waiting, Transient
<1>9. Tended(v)
  BY <1>7, <1>8 DEF Tended, Steady, Watched, EndPending
<1> QED BY <1>5, <1>6, <1>8, <1>9 DEF Replied

LEMMA RepliedFrom ==
    ASSUME NEW w, NEW x, NEW v, SameRequest(w, x), Replied(x, v)
    PROVE  Replied(w, v)
BY DEF Replied, Handled, SameRequest

LEMMA SuccessReplied ==
    ASSUME NEW w, Replying(w), NEW nat \in BOOLEAN, NEW app \in AnyReaction
    PROVE  Replied(w, ProcessSuccess(w, nat, app))
<1> DEFINE e  == Current(w).expires
           w1 == [w EXCEPT !.refresher.challenged = FALSE, !.refresher.expires = e]
           w2 == IF w1.refresher.expires = 0 THEN Stop(w1, app.reachable) ELSE w1
           v  == ProcessSuccess(w, nat, app)
<1>1. /\ ~w2.refresher.started => v = Tell(w2, "200", TRUE, app)
      /\ w2.refresher.started /\ nat
            => v = Refresh(w2, FALSE, w2.refresher.expires, app.reachable)
      /\ w2.refresher.started /\ ~nat
            => v = Tell(Schedule(w2, "normal"), "200", TRUE, app)
  BY Zenon DEF ProcessSuccess
<1>2. e \in {0, 1} /\ app.reachable \in BOOLEAN /\ w \in Worlds
  <2>1. w.refresher.current \in Ids /\ w \in Worlds
    BY CurrentId DEF Replying
  <2>2. Current(w) \in Transaction
    BY <2>1 DEF Worlds, Current
  <2> QED BY <2>1, <2>2 DEF Transaction, AnyReaction
<1> SUFFICES Replied(w, v)
  OBVIOUS
<1> HIDE DEF v, e
<1>3. /\ w1 \in Worlds /\ SameRequest(w, w1) /\ w1.channel = w.channel
      /\ w1.refresher.started = w.refresher.started
      /\ w1.refresher.timer = w.refresher.timer
      /\ w1.refresher.ioError = w.refresher.ioError
      /\ w1.refresher.expires = e
  BY <1>2 DEF Worlds, Refreshers, SameRequest
<1> HIDE DEF w1
<1>4. Within(w1) /\ ~Waiting(w1) /\ Current(w1).state = "COMPLETED"
  BY <1>3 DEF Replying, SameRequest, Within, Waiting, Current, Transient
<1>5. {"200"} \subseteq Codes /\ TRUE \in BOOLEAN /\ "normal" \in {"normal", "retry"}
  BY DEF Codes, Answers
<1>6. CASE e = 0
  <2> DEFINE x == Stop(w1, app.reachable)
  <2>1. /\ x \in Worlds /\ ~x.refresher.started
        /\ SameRequest(w1, x) /\ x.refresher.ioError = w1.refresher.ioError
    BY <1>2, <1>3, <1>4, StopSteady
  <2>2. w2 = x
    BY <1>3, <1>6
  <2> HIDE DEF x, w2
  <2>3. v = Tell(x, "200", TRUE, app)
    BY <1>1, <2>1, <2>2
  <2>4. /\ SameRequest(w, x) /\ ~x.refresher.ioError
        /\ Ending(x) => x.refresher.pending
    BY <1>3, <2>1 DEF SameRequest, Replying, Ending
  <2>5. Replied(w, Tell(x, "200", TRUE, app))
    BY <1>5, <2>1, <2>4, ToldReplied
  <2> QED BY <2>3, <2>5
<1>7. CASE e # 0
  <2>1. w2 = w1
    BY <1>3, <1>7
  <2> HIDE DEF w2
  <2>2. Replying(w1)
    BY <1>3, <1>4, <1>7 DEF Replying, Ending
  <2>3. CASE ~w1.refresher.started
    <3>1. v = Tell(w1, "200", TRUE, app)
      BY <1>1, <2>1, <2>3
    <3>2. /\ SameRequest(w, w1) /\ ~w1.refresher.ioError
          /\ Ending(w1) => w1.refresher.pending
      BY <1>3, <2>2 DEF Replying
    <3>3. Replied(w, Tell(w1, "200", TRUE, app))
      BY <1>3, <1>5, <2>3, <3>2, ToldReplied
    <3> QED BY <3>1, <3>3
  <2>4. CASE w1.refresher.started /\ nat
    <3> DEFINE x == Refresh(w1, FALSE, e, app.reachable)
    <3>1. v = x
      BY <1>1, <1>3, <2>1, <2>4
    <3>2. Replied(w1, x)
      BY <1>2, <2>2, AgainReplied
    <3> HIDE DEF x
    <3> QED BY <1>3, <3>1, <3>2, RepliedFrom
  <2>5. CASE w1.refresher.started /\ ~nat
    <3> DEFINE code == "200"
               retry == TRUE
               purpose == "normal"
               x == Tell(Schedule(w1, purpose), code, retry, app)
    <3>1. v = x
      BY <1>1, <2>1, <2>5
    <3>2. code \in Codes /\ retry \in BOOLEAN /\ purpose \in {"normal", "retry"}
      BY <1>5
    <3> HIDE DEF code, retry, purpose
    <3>3. Replied(w1, x)
      BY <2>2, <3>2, ScheduledReplied, Zenon
    <3> HIDE DEF x
    <3> QED BY <1>3, <3>1, <3>3, RepliedFrom
  <2> QED BY <2>3, <2>4, <2>5
<1> QED BY <1>6, <1>7

LEMMA ChallengeReplied ==
    ASSUME NEW w, Replying(w), NEW authorized \in BOOLEAN, NEW app \in AnyReaction
    PROVE  Replied(w, ProcessChallenge(w, authorized, app))
<1> DEFINE w1 == [w EXCEPT !.refresher.challenged = ~w.refresher.challenged]
           later == IF w.refresher.expires > 0 THEN Schedule(w1, "retry") ELSE w1
           e == w1.refresher.expires
           resent == RefreshInternal(w1, FALSE, e, authorized, app.reachable)
           v == ProcessChallenge(w, authorized, app)
<1>1. /\ v \in {Tell(later, "401", TRUE, app), resent, Tell(resent, "401", TRUE, app)}
      /\ v = resent \/ v = Tell(later, "401", TRUE, app) \/ ~authorized
         \/ ~HasChannel(w1, app.reachable)
      /\ v = Tell(later, "401", TRUE, app) \/ v = Tell(resent, "401", TRUE, app)
         \/ Delayed(w1) \/ authorized
  BY Zenon DEF ProcessChallenge, RefreshSucceeds
<1>2. /\ w \in Worlds /\ app.reachable \in BOOLEAN
  BY DEF Replying, AnyReaction
<1>3. /\ w1 \in Worlds /\ SameRequest(w, w1) /\ w1.channel = w.channel
      /\ w1.refresher.started = w.refresher.started
      /\ w1.refresher.timer = w.refresher.timer
      /\ w1.refresher.ioError = w.refresher.ioError
      /\ w1.refresher.pending = w.refresher.pending
      /\ w1.refresher.expires = w.refresher.expires
  BY <1>2 DEF Worlds, Refreshers, SameRequest
<1> SUFFICES Replied(w, v)
  OBVIOUS
<1> HIDE DEF w1, v
<1>4. Replying(w1)
  BY <1>3 DEF Replying, SameRequest, Within, Current, Ending
<1>5. /\ e \in {0, 1} /\ ~Delayed(w1) /\ HasChannel(w1, app.reachable)
  BY <1>3, <1>4 DEF Worlds, Refreshers, Replying, Delayed, Transient, HasChannel
<1> DEFINE code == "401"
           retry == TRUE
           purpose == "retry"
<1>6. code \in Codes /\ retry \in BOOLEAN /\ purpose \in {"normal", "retry"}
      /\ Telling(code, retry)
  BY DEF Codes, Answers, Telling
<1> HIDE DEF code, retry, purpose
<1>7. /\ Replied(w1, Tell(w1, code, retry, app))
      /\ Replied(w1, Tell(Schedule(w1, purpose), code, retry, app))
  BY <1>4, <1>6, JustToldReplied, ScheduledReplied, Zenon
<1>8. later = w1 \/ later = Schedule(w1, purpose)
  BY DEF purpose
<1> HIDE DEF later
<1>9. Replied(w1, Tell(later, code, retry, app))
  BY <1>7, <1>8
<1>10. ~authorized => resent = w1
  BY <1>3, <1>5 DEF RefreshInternal, Worlds, Refreshers
<1>11. authorized => Replied(w1, resent)
  <2>1. Replied(w1, RefreshInternal(w1, FALSE, e, TRUE, app.reachable))
    BY <1>2, <1>4, <1>5, AgainReplied
  <2>2. authorized => authorized = TRUE
    OBVIOUS
  <2> QED BY <2>1, <2>2
<1> HIDE DEF resent
<1>12. CASE v = Tell(later, "401", TRUE, app)
  BY <1>3, <1>9, <1>12, RepliedFrom DEF code, retry
<1>13. CASE authorized /\ v = resent
  BY <1>3, <1>11, <1>13, RepliedFrom
<1>14. CASE ~authorized /\ v = Tell(resent, "401", TRUE, app)
  <2>1. v = Tell(w1, code, retry, app)
    BY <1>10, <1>14 DEF code, retry
  <2> QED BY <1>3, <1>7, <2>1, RepliedFrom
<1> HIDE DEF e
<1> QED BY <1>1, <1>5, <1>12, <1>13, <1>14

LEMMA TooBriefReplied ==
    ASSUME NEW w, Replying(w), NEW usable \in BOOLEAN, NEW app \in AnyReaction
    PROVE  Replied(w, ProcessTooBrief(w, usable, app))
<1> DEFINE w1 == [w EXCEPT !.refresher.expires = 1]
           again == Refresh(w1, FALSE, 1, app.reachable)
           code == "423"
           retry == FALSE
<1>1. code \in Codes /\ retry \in BOOLEAN /\ Telling(code, retry)
  BY DEF Codes, Answers, Telling
<1>2. ProcessTooBrief(w, usable, app) \in {again, Tell(w, code, retry, app)}
  BY Zenon DEF ProcessTooBrief
<1> HIDE DEF code, retry
<1>3. Replied(w, Tell(w, code, retry, app))
  BY <1>1, JustToldReplied, Zenon
<1>4. /\ w1 \in Worlds /\ SameRequest(w, w1) /\ w1.channel = w.channel
      /\ w1.refresher.timer = w.refresher.timer
      /\ w1.refresher.ioError = w.refresher.ioError
      /\ w1.refresher.expires = 1
  BY DEF Replying, Worlds, Refreshers, SameRequest
<1>5. Replying(w1) /\ app.reachable \in BOOLEAN
  BY <1>4 DEF Replying, SameRequest, Within, Current, Ending, AnyReaction
<1>6. Replied(w1, again)
  <2> HIDE DEF w1
  <2> QED BY <1>5, AgainReplied
<1>7. Replied(w, again)
  <2> HIDE DEF w1, again
  <2> QED BY <1>4, <1>6, RepliedFrom
<1> HIDE DEF again
<1> QED BY <1>2, <1>3, <1>7

LEMMA ResponseReplied ==
    ASSUME NEW w, Replying(w), NEW code \in Answers, NEW allowed \in BOOLEAN,
           NEW app \in AnyReaction
    PROVE  Replied(w, ProcessResponse(w, code, allowed, app))
<1> DEFINE yes == TRUE
           no  == FALSE
           purpose == "retry"
           moved == "301"
           wait  == "491"
<1>1. /\ code \in Codes /\ moved \in Codes /\ wait \in Codes
      /\ yes \in BOOLEAN /\ no \in BOOLEAN /\ purpose \in {"normal", "retry"}
      /\ Telling(moved, yes) /\ Telling(wait, no)
      /\ code \notin {"200"} => Telling(code, no)
  BY DEF Codes, Answers, Telling
<1>2. /\ w.refresher.expires \in {0, 1} /\ app.reachable \in BOOLEAN
  BY DEF Replying, Worlds, Refreshers, AnyReaction
<1> HIDE DEF yes, no, purpose, moved, wait
<1>3. Replied(w, ProcessSuccess(w, no, app)) /\ Replied(w, ProcessSuccess(w, yes, app))
  BY <1>1, SuccessReplied, Zenon
<1>4. Replied(w, ProcessRedirection(w, allowed, app))
  <2>1. Replied(w, Tell(w, moved, yes, app))
    BY <1>1, JustToldReplied, Zenon
  <2>2. Replied(w, RefreshInternal(w, FALSE, w.refresher.expires, TRUE, app.reachable))
    BY <1>2, AgainReplied
  <2> QED BY <2>1, <2>2, Zenon DEF ProcessRedirection, moved, yes
<1>5. Replied(w, ProcessChallenge(w, allowed, app))
  BY ChallengeReplied, Zenon
<1>6. Replied(w, ProcessTooBrief(w, allowed, app))
  BY TooBriefReplied, Zenon
<1>7. Replied(w, ProcessPending(w, app))
  <2>1. Replied(w, Tell(w, wait, no, app))
    BY <1>1, JustToldReplied, Zenon
  <2>2. Replied(w, Schedule(w, purpose))
    BY <1>1, ScheduledReplying
  <2> QED BY <2>1, <2>2, Zenon DEF ProcessPending, wait, no, purpose
<1>8. code # "200" => Replied(w, Tell(w, code, no, app))
  BY <1>1, JustToldReplied, Zenon
<1>9. code # "200" => Replied(w, ProcessFailure(w, code, app))
  <2>1. Replied(w, Tell(Schedule(w, purpose), code, yes, app))
    BY <1>1, ScheduledReplied, Zenon
  <2> QED BY <1>8, <2>1, Zenon DEF ProcessFailure, purpose, yes, no
<1> HIDE DEF Replied
<1> QED BY <1>3, <1>4, <1>5, <1>6, <1>7, <1>8, <1>9 DEF ProcessResponse, Answers, yes, no

-----------------------------------------------------------------------------
(***************************************************************************)
(* The steps.                                                              *)
(***************************************************************************)
LEMMA TendedStep ==
    ASSUME NEW v \in Worlds, Become(v), UNCHANGED settings, Tended(v)
    PROVE  Tended(Now)'
<1>1. Now' = v
  BY DEF Become, Now, Worlds
<1>2. reliable' = reliable
  BY DEF settings
<1> QED BY <1>1, <1>2 DEF Tended, Steady, Watched, Excused, EndPending, Ending,
                         Waiting, Current

\* The request changes below the refresher, and is still as much under way.
Kept(w, v) ==
    /\ v.refresher = w.refresher /\ v.told = w.told
    /\ Waiting(w) => Waiting(v)
    /\ Waiting(v) => Waiting(w)
    /\ Current(v).linked => Current(w).linked
    /\ "K" \in Current(v).timers => ~Waiting(v)
    /\ Current(v).state # "NULL"
    /\ reliable => Current(v).state # "COMPLETED"

LEMMA KeptTended ==
    ASSUME NEW w, NEW v, Tended(w), Kept(w, v)
    PROVE  Tended(v)
<1>1. Steady(v)
  BY DEF Tended, Steady, Kept
<1>2. Watched(v) /\ EndPending(v)
  BY DEF Tended, Watched, Excused, EndPending, Ending, Kept
<1> QED BY <1>1, <1>2 DEF Tended

LEMMA Touched ==
    ASSUME NEW w \in Worlds, NEW t \in Ids, NEW new \in Transaction
    PROVE  LET v == [w EXCEPT !.transactions[t] = new] IN
           /\ v \in Worlds /\ v.refresher = w.refresher /\ v.told = w.told
           /\ v.channel = w.channel
           /\ v.transactions[t] = new
           /\ \A u \in Ids : u # t => v.transactions[u] = w.transactions[u]
BY DEF Worlds

LEMMA ProvisionalTends ==
    ASSUME WatchInv, UNCHANGED settings, NEW t \in Ids, Provisional(t)
    PROVE  Tended(Now)'
<1> DEFINE new == [transactions[t] EXCEPT !.state = "PROCEEDING"]
           v   == [Now EXCEPT !.transactions[t] = new]
<1>1. /\ Now \in Worlds /\ Now.transactions = transactions
      /\ Now.refresher = refresher /\ refresher.current \in Ids
      /\ transactions[t] \in Transaction /\ Tended(Now)
  BY NowFacts DEF Worlds, WatchInv
<1>2. /\ new \in Transaction /\ new.state = "PROCEEDING"
      /\ new.linked = transactions[t].linked /\ new.timers = transactions[t].timers
  BY <1>1 DEF Transaction, TransactionStates
<1>3. transactions[t].state = "TRYING"
  BY DEF Provisional
<1>4. Become(v)
  <2>1. [Now EXCEPT !.transactions[t].state = "PROCEEDING"] = v
    BY <1>1 DEF Worlds
  <2> QED BY <2>1 DEF Provisional
<1> HIDE DEF new
<1>5. /\ v \in Worlds /\ v.refresher = Now.refresher /\ v.told = Now.told
      /\ v.transactions[t] = new
      /\ \A u \in Ids : u # t => v.transactions[u] = Now.transactions[u]
  BY <1>1, <1>2, Touched
<1> HIDE DEF v
<1>6. CASE t = refresher.current
  <2>1. Current(v) = new /\ Current(Now) = transactions[t]
    BY <1>1, <1>5, <1>6 DEF Current
  <2>2. Kept(Now, v)
    BY <1>1, <1>2, <1>3, <1>5, <2>1 DEF Kept, Waiting, Transient, Tended, Steady
  <2> QED BY <1>1, <1>4, <1>5, <2>2, KeptTended, TendedStep
<1>7. CASE t # refresher.current
  <2>1. Alike(Now, v)
    BY <1>1, <1>5, <1>7 DEF Alike, Current
  <2> QED BY <1>1, <1>4, <1>5, <2>1, AlikeTended, TendedStep
<1> QED BY <1>6, <1>7

LEMMA SetChannelTends ==
    ASSUME WatchInv, UNCHANGED settings, ConnectNext \/ ConnectFails \/ Breaks
    PROVE  Tended(Now)'
<1>1. Now \in Worlds /\ channel \in Channel /\ Tended(Now)
  BY NowFacts DEF WatchInv
<1>2. PICK c \in Channel : SetChannel(c)
  <2>1. [channel EXCEPT !.state = "connecting"] \in Channel
    BY <1>1 DEF Channel, ChannelStates
  <2>2. ChannelError(channel, FALSE) \in Channel
    BY <1>1, ChannelErrorType
  <2> QED BY <2>1, <2>2 DEF ConnectNext, ConnectFails, Breaks
<1> DEFINE v == [Now EXCEPT !.channel = c]
<1>3. v \in Worlds /\ v.refresher = Now.refresher /\ v.told = Now.told
      /\ v.transactions = Now.transactions
  BY <1>1, <1>2 DEF Worlds
<1>4. Become(v)
  BY <1>2 DEF SetChannel
<1> HIDE DEF v
<1>5. Alike(Now, v)
  BY <1>3 DEF Alike, Current
<1> QED BY <1>1, <1>3, <1>4, <1>5, AlikeTended, TendedStep

LEMMA ConnectedTends ==
    ASSUME WatchInv, UNCHANGED settings, Connected
    PROVE  Tended(Now)'
<1> DEFINE trans == SentWhenReady(transactions)
           v == [Now EXCEPT !.channel.state = "ready", !.transactions = trans]
           c == refresher.current
<1>1. /\ Now \in Worlds /\ c \in Ids
      /\ Now.channel = channel /\ channel \in Channel /\ Now.refresher = refresher
      /\ Current(Now) = transactions[c] /\ transactions[c] \in Transaction
      /\ transactions \in [Ids -> Transaction] /\ Tended(Now)
  BY NowFacts DEF Worlds, WatchInv
<1>2. trans \in [Ids -> Transaction]
  <2>1. \A t \in Ids : trans[t] \in {transactions[t], NictSend(transactions[t])}
    BY DEF SentWhenReady
  <2>2. \A t \in Ids : transactions[t] \in Transaction
    BY <1>1
  <2>3. \A t \in Ids : trans[t] \in Transaction
    BY <2>1, <2>2, NictSendType
  <2> QED BY <2>3 DEF SentWhenReady
<1>3. trans[c] = IF transactions[c].linked /\ transactions[c].state = "INIT"
                 THEN NictSend(transactions[c]) ELSE transactions[c]
  BY <1>1 DEF SentWhenReady
<1> HIDE DEF trans
<1>4. /\ v \in Worlds /\ v.refresher = Now.refresher /\ v.told = Now.told
      /\ v.transactions = trans
  <2>1. [channel EXCEPT !.state = "ready"] \in Channel
    BY <1>1 DEF Channel, ChannelStates
  <2> QED BY <1>1, <1>2, <2>1 DEF Worlds
<1>5. Become(v)
  BY DEF Connected, trans
<1> HIDE DEF v
<1>6. Current(v) = trans[c]
  BY <1>1, <1>4 DEF Current
<1>7. CASE transactions[c].linked /\ transactions[c].state = "INIT"
  <2>1. "K" \notin transactions[c].timers
    BY <1>1, <1>7 DEF Tended, Steady, Waiting, Transient
  <2>2. /\ "K" \notin Current(v).timers /\ Current(v).state = "TRYING"
        /\ Current(v).linked
    BY <1>1, <1>3, <1>6, <1>7, <2>1, NictSendTimers, NictSendType
  <2>3. Kept(Now, v)
    BY <1>1, <1>4, <1>7, <2>2 DEF Kept, Waiting, Transient
  <2> QED BY <1>1, <1>4, <1>5, <2>3, KeptTended, TendedStep
<1>8. CASE ~(transactions[c].linked /\ transactions[c].state = "INIT")
  <2>1. Alike(Now, v)
    BY <1>1, <1>3, <1>4, <1>6, <1>8 DEF Alike
  <2> QED BY <1>1, <1>4, <1>5, <2>1, AlikeTended, TendedStep
<1> QED BY <1>7, <1>8

LEMMA TimerKTends ==
    ASSUME WatchInv, UNCHANGED settings, NEW t \in Ids, NEW reachable \in BOOLEAN,
           TimerK(t, reachable)
    PROVE  Tended(Now)'
<1> DEFINE v == Terminate(Now, t, reachable)
<1>1. /\ Now \in Worlds /\ Within(Now) /\ Tended(Now) /\ refresher.current \in Ids
      /\ Now.refresher = refresher /\ Now.transactions = transactions
      /\ Current(Now) = transactions[refresher.current]
  BY NowFacts DEF WatchInv
<1>2. v \in Worlds
  BY <1>1, TerminateWorld
<1>3. Become(v) /\ "K" \in transactions[t].timers
  BY DEF TimerK
<1>4. Tended(v)
  <2>1. CASE t # refresher.current
    <3>1. Alike(Now, v)
      BY <1>1, <2>1, OtherEnds
    <3> HIDE DEF v
    <3> QED BY <1>1, <3>1, AlikeTended
  <2>2. CASE t = refresher.current /\ transactions[t].state = "TERMINATED"
    <3>1. v = Now
      BY <1>1, <2>2 DEF Terminate
    <3> HIDE DEF v
    <3> QED BY <1>1, <3>1
  <2>3. CASE t = refresher.current /\ transactions[t].state # "TERMINATED"
    <3>1. ~Waiting(Now) /\ Excused(Now) /\ Steady(Now) /\ EndPending(Now)
      BY <1>1, <1>3, <2>3 DEF Tended, Steady, Watched
    <3>2. Heard(Now)
      BY <3>1 DEF Heard, EndPending
    <3>3. Now.refresher.ioError => ~Current(Now).linked
      BY <3>1 DEF Steady
    <3>4. t = Now.refresher.current /\ Current(Now).state # "TERMINATED"
      BY <1>1, <2>3
    <3> QED BY <1>1, <3>2, <3>3, <3>4, CurrentEnds
  <2> QED BY <2>1, <2>2, <2>3
<1> HIDE DEF v
<1> QED BY <1>2, <1>3, <1>4, TendedStep

-----------------------------------------------------------------------------
\* A final answer, once the listener was told: the channel may be given
\* another address, and the transaction ends now or once timer K fired.
LEMMA AnsweredEnds ==
    ASSUME NEW w, Replying(w), NEW u, Replied(w, u), NEW t \in Ids,
           t = w.refresher.current, reliable, NEW reachable \in BOOLEAN
    PROVE  Tended(Terminate(u, t, reachable))
<1> DEFINE v == Terminate(u, t, reachable)
<1>1. u \in Worlds /\ w \in Worlds /\ Within(w)
  BY DEF Replied, Replying
<1>2. CASE u.refresher.current = w.refresher.current + 1 /\ Tended(u)
  <2>1. u.refresher.current \in Ids /\ t # u.refresher.current
    BY <1>1, <1>2, CurrentId, NonInviteAssumption DEF Ids
  <2>2. Alike(u, v)
    BY <1>1, <2>1, OtherEnds
  <2> HIDE DEF v
  <2>3. Tended(v)
    BY <1>2, <2>2, AlikeTended
  <2> QED BY <2>3 DEF v
<1>3. CASE Handled(w, u)
  <2>1. /\ t = u.refresher.current /\ Within(u) /\ Current(u).state = "COMPLETED"
        /\ ~u.refresher.ioError /\ Heard(u)
    BY <1>1, <1>3 DEF Handled, SameRequest, Within, Current, Replying, Heard
  <2>2. Current(u).state # "TERMINATED" /\ (u.refresher.ioError => ~Current(u).linked)
    BY <2>1
  <2> QED BY <1>1, <2>1, <2>2, CurrentEnds
<1> QED BY <1>2, <1>3 DEF Replied

LEMMA AnsweredWaits ==
    ASSUME NEW w, Replying(w), NEW u, Replied(w, u), NEW t \in Ids,
           t = w.refresher.current, ~reliable
    PROVE  LET v == [u EXCEPT !.transactions[t].timers = @ \cup {"K"}]
           IN  v \in Worlds /\ Tended(v)
<1> DEFINE new == [u.transactions[t] EXCEPT !.timers = @ \cup {"K"}]
           v   == [u EXCEPT !.transactions[t] = new]
<1>1. u \in Worlds /\ w \in Worlds /\ Within(w)
  BY DEF Replied, Replying
<1>2. u.transactions[t] \in Transaction
  BY <1>1 DEF Worlds
<1>3. /\ new \in Transaction /\ new.state = u.transactions[t].state
      /\ new.linked = u.transactions[t].linked
  BY <1>2 DEF Transaction
<1>4. [u EXCEPT !.transactions[t].timers = @ \cup {"K"}] = v
  BY <1>1 DEF Worlds
<1> HIDE DEF new
<1>5. /\ v \in Worlds /\ v.refresher = u.refresher /\ v.told = u.told
      /\ v.transactions[t] = new
      /\ \A x \in Ids : x # t => v.transactions[x] = u.transactions[x]
  BY <1>1, <1>3, Touched
<1> HIDE DEF v
<1>6. CASE u.refresher.current = w.refresher.current + 1 /\ Tended(u)
  <2>1. u.refresher.current \in Ids /\ t # u.refresher.current
    BY <1>1, <1>6, CurrentId, NonInviteAssumption DEF Ids
  <2>2. Alike(u, v)
    BY <1>5, <2>1 DEF Alike, Current
  <2>3. Tended(v)
    BY <1>6, <2>2, AlikeTended
  <2> QED BY <1>4, <1>5, <2>3
<1>7. CASE Handled(w, u)
  <2>1. /\ t = u.refresher.current /\ u.transactions[t].state = "COMPLETED"
        /\ ~u.refresher.ioError
    BY <1>7 DEF Handled, SameRequest, Current, Replying
  <2>2. Current(v).state = "COMPLETED" /\ ~Waiting(v)
    BY <1>3, <1>5, <2>1 DEF Current, Waiting, Transient
  <2>3. Steady(v)
    BY <1>5, <2>1, <2>2 DEF Steady
  <2>4. Excused(v) /\ EndPending(v)
    BY <1>5, <1>7, <2>2 DEF Handled, Excused, EndPending, Ending
  <2>5. Tended(v)
    BY <2>3, <2>4 DEF Tended, Watched
  <2> QED BY <1>4, <1>5, <2>5
<1> QED BY <1>6, <1>7 DEF Replied

\* The channel changes below.
LEMMA RepliedBelow ==
    ASSUME NEW w, NEW u, Replied(w, u), NEW c \in Channel
    PROVE  Replied(w, [u EXCEPT !.channel = c])
<1> DEFINE v == [u EXCEPT !.channel = c]
<1>1. u \in Worlds
  BY DEF Replied
<1>2. /\ v \in Worlds /\ v.refresher = u.refresher /\ v.told = u.told
      /\ v.transactions = u.transactions
  BY <1>1 DEF Worlds
<1> HIDE DEF v
<1>3. Alike(u, v)
  BY <1>2 DEF Alike, Current
<1>4. Tended(u) => Tended(v)
  BY <1>3, AlikeTended
<1>5. Handled(w, u) => Handled(w, v)
  BY <1>2 DEF Handled, SameRequest, Excused, Ending
<1> QED BY <1>2, <1>4, <1>5 DEF Replied, v

LEMMA FinalTends ==
    ASSUME WatchInv, UNCHANGED settings, NEW t \in Ids,
           NEW code \in Answers, NEW allowed \in BOOLEAN, NEW app \in Reactions,
           Final(t, code, allowed, app)
    PROVE  Tended(Now)'
<1> DEFINE new == [transactions[t] EXCEPT !.state = "COMPLETED"]
           w1 == [Now EXCEPT !.transactions[t] = new]
           w2 == IF t = refresher.current
                 THEN ProcessResponse(w1, code, allowed, app) ELSE w1
           w3 == IF code = "500" /\ method = "REGISTER"
                 THEN [w2 EXCEPT !.channel = ChannelError(@, TRUE)] ELSE w2
           w4 == [w3 EXCEPT !.transactions[t].timers = @ \cup {"K"}]
           v  == IF reliable THEN Terminate(w3, t, app.reachable) ELSE w4
           c  == refresher.current
<1>1. /\ Now \in Worlds /\ c \in Ids /\ Now.refresher = refresher
      /\ Now.transactions = transactions /\ Now.channel = channel
      /\ Tended(Now) /\ Exclusive(Now) /\ Within(Now)
      /\ Current(Now) = transactions[c]
      /\ transactions[t] \in Transaction /\ app \in AnyReaction
  BY NowFacts DEF Worlds, WatchInv
<1>2. app.reachable \in BOOLEAN
  BY <1>1 DEF AnyReaction
<1>3. /\ Become(v) /\ transactions[t].state \in {"TRYING", "PROCEEDING"}
      /\ channel.state = "ready" /\ transactions[t].linked
  <2>1. [Now EXCEPT !.transactions[t].state = "COMPLETED"] = w1
    BY <1>1 DEF Worlds
  <2> QED BY <2>1 DEF Final, Answerable
<1>4. new \in Transaction /\ new.state = "COMPLETED"
  BY <1>1 DEF Transaction, TransactionStates
<1> HIDE DEF new
<1>5. /\ w1 \in Worlds /\ w1.refresher = refresher /\ w1.told = Now.told
      /\ w1.channel = channel /\ w1.transactions[t] = new
      /\ \A x \in Ids : x # t => w1.transactions[x] = transactions[x]
  BY <1>1, <1>4, Touched
<1> HIDE DEF w1
<1>6. CASE t = c
  <2>1. refresher.timer = "none" /\ ~refresher.ioError /\ Waiting(Now)
    BY <1>1, <1>3, <1>6 DEF Exclusive, Waiting, Transient, Tended, Steady
  <2>2. Ending(w1) => w1.refresher.pending
    BY <1>1, <1>5, <2>1 DEF Tended, EndPending, Ending
  <2>3. Replying(w1)
    BY <1>1, <1>3, <1>4, <1>5, <1>6, <2>1, <2>2 DEF Replying, Within, Current
  <2>4. Replied(w1, w2)
    <3>1. Replied(w1, ProcessResponse(w1, code, allowed, app))
      BY <1>1, <2>3, ResponseReplied, Zenon
    <3> QED BY <1>6, <3>1
  <2> HIDE DEF w2
  <2>5. Replied(w1, w3)
    <3> DEFINE d == ChannelError(w2.channel, TRUE)
               u == [w2 EXCEPT !.channel = d]
    <3>1. w2.channel \in Channel
      BY <2>4 DEF Replied, Worlds
    <3>2. d \in Channel
      BY <3>1, ChannelErrorType
    <3>3. w3 \in {w2, u}
      OBVIOUS
    <3> HIDE DEF d, w3
    <3>4. Replied(w1, u)
      BY <2>4, <3>2, RepliedBelow
    <3> HIDE DEF u
    <3> QED BY <2>4, <3>3, <3>4
  <2> HIDE DEF w3
  <2>6. t = w1.refresher.current
    BY <1>5, <1>6
  <2>7. CASE reliable
    <3> DEFINE u == Terminate(w3, t, app.reachable)
    <3>1. w3 \in Worlds
      BY <2>5 DEF Replied
    <3>2. u \in Worlds /\ Tended(u)
      BY <1>2, <2>3, <2>5, <2>6, <2>7, <3>1, AnsweredEnds, TerminateWorld
    <3>3. Become(u)
      BY <1>3, <2>7
    <3> HIDE DEF u
    <3> QED BY <3>2, <3>3, TendedStep
  <2>8. CASE ~reliable
    <3>1. w4 \in Worlds /\ Tended(w4)
      BY <2>3, <2>5, <2>6, <2>8, AnsweredWaits
    <3>2. Become(w4)
      BY <1>3, <2>8
    <3> HIDE DEF w4
    <3> QED BY <3>1, <3>2, TendedStep
  <2> QED BY <2>7, <2>8
<1>7. CASE t # c
  <2> DEFINE u == w3
  <2>1. w2 = w1
    BY <1>7
  <2> HIDE DEF w2
  <2>2. /\ w3 \in Worlds /\ w3.refresher = refresher /\ w3.told = Now.told
        /\ w3.transactions = w1.transactions
    <3>1. w1.channel \in Channel
      BY <1>5 DEF Worlds
    <3>2. ChannelError(w1.channel, TRUE) \in Channel
      BY <3>1, ChannelErrorType
    <3> QED BY <1>5, <2>1, <3>2 DEF Worlds
  <2> HIDE DEF w3
  <2>3. Alike(Now, w3) /\ w3.refresher.current = c
    BY <1>1, <1>5, <1>7, <2>2 DEF Alike, Current
  <2>4. Tended(w3)
    BY <1>1, <2>3, AlikeTended
  <2>5. CASE reliable
    <3> DEFINE z == Terminate(w3, t, app.reachable)
    <3>1. z \in Worlds /\ Alike(w3, z)
      BY <1>1, <1>2, <1>7, <2>2, <2>3, OtherEnds, TerminateWorld
    <3>2. Become(z)
      BY <1>3, <2>5
    <3> HIDE DEF z
    <3> QED BY <2>4, <3>1, <3>2, AlikeTended, TendedStep
  <2>6. CASE ~reliable
    <3> DEFINE last == [w3.transactions[t] EXCEPT !.timers = @ \cup {"K"}]
               z    == [w3 EXCEPT !.transactions[t] = last]
    <3>1. last \in Transaction
      <4>1. w3.transactions[t] \in Transaction
        BY <2>2 DEF Worlds
      <4> QED BY <4>1 DEF Transaction
    <3>2. w4 = z
      BY <2>2 DEF Worlds
    <3>3. Become(z)
      BY <1>3, <2>6, <3>2
    <3> HIDE DEF last
    <3>4. /\ z \in Worlds /\ z.refresher = w3.refresher /\ z.told = w3.told
          /\ \A x \in Ids : x # t => z.transactions[x] = w3.transactions[x]
      BY <2>2, <3>1, Touched
    <3> HIDE DEF z
    <3>5. Alike(w3, z)
      BY <1>1, <1>7, <2>3, <3>4 DEF Alike, Current
    <3> QED BY <2>4, <3>3, <3>4, <3>5, AlikeTended, TendedStep
  <2> QED BY <2>5, <2>6
<1> QED BY <1>6, <1>7

-----------------------------------------------------------------------------
(***************************************************************************)
(* Timeouts and errors of the current request, and its end after them.     *)
(***************************************************************************)
\* The listener was told and stopped the refresher, or a retry is scheduled.
Alarmed(w, u) ==
    /\ u \in Worlds /\ Steady(u)
    /\ \/ ~u.refresher.started
       \/ SameRequest(w, u) /\ u.refresher.timer = "retry" /\ u.told.code # "401"

LEMMA ReportAlarms ==
    ASSUME NEW w \in Worlds, Within(w), Steady(w), NEW code \in Codes \ {"401"},
           NEW app \in AnyReaction
    PROVE  LET x == IF w.refresher.started THEN Schedule(w, "retry") ELSE w
           IN  Alarmed(w, Tell(x, code, w.refresher.started, app))
<1> DEFINE x     == IF w.refresher.started THEN Schedule(w, "retry") ELSE w
           retry == w.refresher.started
           u     == Tell(x, code, retry, app)
<1>1. /\ x \in Worlds /\ x.transactions = w.transactions
      /\ x.refresher.current = w.refresher.current
      /\ x.refresher.ioError = w.refresher.ioError
      /\ x.refresher.started => x.refresher.timer = "retry"
      /\ code \in Codes /\ retry \in BOOLEAN
  BY DEF Schedule, Worlds, Refreshers
<1> SUFFICES Alarmed(w, u)
  OBVIOUS
<1> HIDE DEF x, retry
<1>2. Within(x) /\ SameRequest(w, x) /\ Current(x) = Current(w)
  BY <1>1 DEF Within, SameRequest, Current
<1>3. Steady(x)
  BY <1>1, <1>2 DEF Steady, Waiting
<1>4. Announced(x, u, code, retry)
  BY <1>1, <1>2, TellAnnounces, Zenon
<1> HIDE DEF u
<1>5. u \in Worlds /\ Steady(u)
  BY <1>3, <1>4 DEF Announced
<1>6. \/ ~u.refresher.started
      \/ u.refresher = x.refresher /\ SameRequest(x, u) /\ u.told.code = code
  BY <1>4 DEF Announced
<1>7. \/ ~u.refresher.started
      \/ SameRequest(w, u) /\ u.refresher.timer = "retry" /\ u.told.code # "401"
  BY <1>1, <1>2, <1>6 DEF SameRequest
<1> QED BY <1>5, <1>7 DEF Alarmed

LEMMA OtherKeepsRefresher ==
    ASSUME NEW u \in Worlds, NEW t \in Ids, t # u.refresher.current, NEW reachable
    PROVE  Terminate(u, t, reachable).refresher = u.refresher
<1>1. Terminate(u, t, reachable) = u \/ Terminate(u, t, reachable) = Ended(u, t)
  BY DEF Terminate
<1>2. Ended(u, t).refresher = u.refresher
  <2>1. t \in Nat
    BY NonInviteAssumption DEF Ids
  <2> QED BY <2>1, EndedFacts
<1> QED BY <1>1, <1>2

LEMMA AlarmedEnds ==
    ASSUME NEW w \in Worlds, Within(w), NEW u, Alarmed(w, u), NEW t \in Ids,
           t = w.refresher.current, NEW reachable \in BOOLEAN,
           Within(Terminate(u, t, reachable))
    PROVE  LET v == Terminate(u, t, reachable) IN
           /\ Tended(v)
           /\ v.refresher.started => \/ v.refresher.timer = "retry"
                                     \/ v.refresher.current # t
<1> DEFINE v == Terminate(u, t, reachable)
<1>1. u \in Worlds /\ Steady(u)
  BY DEF Alarmed
<1>2. Excused(u) /\ (u.refresher.started => u.refresher.timer = "retry")
  BY DEF Alarmed, Excused
<1>3. Ending(u) => u.told.code # "401"
  BY DEF Alarmed, Ending
<1>4. u.refresher.current # t => ~u.refresher.started
  BY DEF Alarmed, SameRequest
<1>5. CASE u.refresher.current # t
  <2>1. v.refresher = u.refresher
    BY <1>1, <1>5, OtherKeepsRefresher
  <2>2. u.refresher.current \in Ids
    <3>1. Within(u)
      BY <2>1 DEF Within
    <3> QED BY <1>1, <3>1, CurrentId
  <2>3. Alike(u, v)
    BY <1>1, <1>5, <2>2, OtherEnds
  <2>4. Tended(u)
    BY <1>1, <1>2, <1>4, <1>5 DEF Tended, Watched, EndPending, Ending
  <2> HIDE DEF v
  <2>5. Tended(v)
    BY <2>3, <2>4, AlikeTended
  <2> QED BY <1>4, <1>5, <2>1, <2>5 DEF v
<1>6. CASE u.refresher.current = t /\ Current(u).state = "TERMINATED"
  <2>1. v = u
    BY <1>6 DEF Terminate, Current
  <2>2. Tended(u)
    BY <1>1, <1>2, <1>3, <1>6 DEF Tended, Watched, EndPending, Waiting, Transient
  <2> QED BY <1>2, <2>1, <2>2
<1>7. CASE u.refresher.current = t /\ Current(u).state # "TERMINATED"
  <2>1. /\ Within(u) /\ t = u.refresher.current
        /\ u.refresher.ioError => ~Current(u).linked
    BY <1>1, <1>7 DEF Within, Steady
  <2>2. Heard(u)
    BY <1>2, <1>3 DEF Heard
  <2>3. /\ Heard(u) => Tended(v)
        /\ v.refresher.current = t =>
              /\ v.refresher.timer = u.refresher.timer
              /\ v.refresher.started => u.refresher.started
    BY <1>1, <1>7, <2>1, CurrentEnds
  <2> HIDE DEF v
  <2> QED BY <1>2, <2>2, <2>3 DEF v
<1> QED BY <1>5, <1>6, <1>7

LEMMA TimeoutAlarms ==
    ASSUME NEW w \in Worlds, Within(w), Steady(w), NEW app \in AnyReaction
    PROVE  Alarmed(w, ProcessTimeout(w, app))
<1> DEFINE code == "408"
<1>1. code \in Codes \ {"401"}
  BY DEF Codes
<1> HIDE DEF code
<1> DEFINE x == IF w.refresher.started THEN Schedule(w, "retry") ELSE w
<1>2. Alarmed(w, Tell(x, code, w.refresher.started, app))
  BY <1>1, ReportAlarms
<1> QED BY <1>2, Zenon DEF ProcessTimeout, code

\* What the invariant looks at in a transaction stays.
LEMMA TouchedTends ==
    ASSUME NEW w \in Worlds, w.refresher.current \in Ids, Tended(w), NEW t \in Ids,
           NEW v, v.refresher = w.refresher, v.told = w.told,
           \A x \in Ids : x # t => v.transactions[x] = w.transactions[x],
           v.transactions[t].state = w.transactions[t].state,
           v.transactions[t].linked => w.transactions[t].linked,
           "K" \in v.transactions[t].timers => "K" \in w.transactions[t].timers
    PROVE  Tended(v)
<1>1. /\ Current(v).state = Current(w).state
      /\ Current(v).linked => Current(w).linked
      /\ "K" \in Current(v).timers => "K" \in Current(w).timers
  <2>1. CASE t = w.refresher.current
    BY <2>1 DEF Current
  <2>2. CASE t # w.refresher.current
    BY <2>2 DEF Current
  <2> QED BY <2>1, <2>2
<1>2. Kept(w, v)
  BY <1>1 DEF Kept, Waiting, Tended, Steady
<1> QED BY <1>2, KeptTended

LEMMA TimerFTends ==
    ASSUME WatchInv, UNCHANGED settings, NEW t \in Ids, TimerF(t)
    PROVE  Tended(Now)'
<1> DEFINE new == [transactions[t] EXCEPT !.timers = @ \ {"F"}]
           w   == [Now EXCEPT !.transactions[t].timers = @ \ {"F"}]
           x   == [Now EXCEPT !.transactions[t] = new]
           c   == refresher.current
<1>1. /\ Now \in Worlds /\ channel \in Channel /\ c \in Ids
      /\ Now.refresher = refresher
      /\ Now.transactions = transactions /\ Now.channel = channel
      /\ Within(Now) /\ Tended(Now)
      /\ transactions[t] \in Transaction /\ Reactions \subseteq AnyReaction
  BY NowFacts DEF Worlds, WatchInv
<1>2. /\ new \in Transaction /\ new.state = transactions[t].state
      /\ new.linked = transactions[t].linked
      /\ "K" \in new.timers => "K" \in transactions[t].timers
  BY <1>1 DEF Transaction
<1>3. w = x
  BY <1>1 DEF Worlds
<1> HIDE DEF new
<1>4. /\ x \in Worlds /\ x.refresher = refresher /\ x.told = Now.told
      /\ x.transactions[t] = new
      /\ \A y \in Ids : y # t => x.transactions[y] = transactions[y]
  BY <1>1, <1>2, Touched
<1> HIDE DEF x, w
<1>5. /\ w \in Worlds /\ Tended(w) /\ w.refresher = refresher
      /\ w.transactions[t] = new /\ w.refresher.current = c /\ Within(w)
  <2>1. Tended(x)
    BY <1>1, <1>2, <1>4, TouchedTends
  <2> QED BY <1>1, <1>3, <1>4, <2>1 DEF Within
<1>6. CASE Become(w)
  BY <1>5, <1>6, TendedStep
<1>7. ASSUME NEW quiet \in BOOLEAN, Become(ReportDeadChannel(w, t, quiet))
      PROVE  Tended(Now)'
  <2> DEFINE dead == ChannelError(w.channel, FALSE)
             late == [new EXCEPT !.timedOut = TRUE]
             v    == [w EXCEPT !.transactions[t] = late, !.channel = dead]
  <2>1. dead \in Channel
    <3>1. w.channel \in Channel
      BY <1>5 DEF Worlds
    <3> QED BY <3>1, ChannelErrorType
  <2>2. /\ late \in Transaction /\ late.state = new.state
        /\ late.linked = new.linked /\ late.timers = new.timers
    BY <1>2 DEF Transaction
  <2>3. ReportDeadChannel(w, t, quiet) \in {w, v}
    <3>1. [w EXCEPT !.channel = dead, !.transactions[t].timedOut = TRUE] = v
      BY <1>5 DEF Worlds
    <3>2. ReportDeadChannel(w, t, quiet) \in
             {w, [w EXCEPT !.channel = dead, !.transactions[t].timedOut = TRUE]}
      BY DEF ReportDeadChannel
    <3> QED BY <3>1, <3>2
  <2> HIDE DEF dead, late
  <2>4. /\ v \in Worlds /\ v.refresher = w.refresher /\ v.told = w.told
        /\ v.transactions[t] = late
        /\ \A y \in Ids : y # t => v.transactions[y] = w.transactions[y]
    BY <1>5, <2>1, <2>2 DEF Worlds
  <2> HIDE DEF v
  <2>5. Tended(v)
    BY <1>1, <1>5, <2>2, <2>4, TouchedTends
  <2> QED BY <1>5, <1>7, <2>3, <2>4, <2>5, TendedStep
<1>8. ASSUME NEW app \in Reactions,
             Become(Terminate(IF t = c THEN ProcessTimeout(w, app) ELSE w,
                              t, app.reachable))
      PROVE  Tended(Now)'
  <2>1. app \in AnyReaction /\ app.reachable \in BOOLEAN
    BY <1>1 DEF AnyReaction
  <2>2. CASE t = c
    <3> DEFINE u == ProcessTimeout(w, app)
               v == Terminate(u, t, app.reachable)
    <3>1. Alarmed(w, u)
      BY <1>5, <2>1, TimeoutAlarms DEF Tended
    <3>2. Become(v)
      BY <1>8, <2>2
    <3> HIDE DEF u
    <3>3. Within(v)
      BY <3>2 DEF Become, Within
    <3>4. v \in Worlds
      BY <2>1, <3>1, TerminateWorld DEF Alarmed
    <3>5. Tended(v)
      BY <1>5, <2>1, <2>2, <3>1, <3>3, AlarmedEnds
    <3> HIDE DEF v
    <3> QED BY <3>2, <3>4, <3>5, TendedStep
  <2>3. CASE t # c
    <3> DEFINE v == Terminate(w, t, app.reachable)
    <3>1. Alike(w, v) /\ v \in Worlds
      BY <1>1, <1>5, <2>1, <2>3, OtherEnds, TerminateWorld
    <3>2. Become(v)
      BY <1>8, <2>3
    <3> HIDE DEF v
    <3> QED BY <1>5, <3>1, <3>2, AlikeTended, TendedStep
  <2> QED BY <2>2, <2>3
<1> QED
  <2>1. \/ Become(w)
        \/ \E quiet \in BOOLEAN : Become(ReportDeadChannel(w, t, quiet))
        \/ \E app \in Reactions :
              Become(Terminate(IF t = c THEN ProcessTimeout(w, app) ELSE w,
                               t, app.reachable))
    BY DEF TimerF, w
  <2> QED BY <1>6, <1>7, <1>8, <2>1

-----------------------------------------------------------------------------
(***************************************************************************)
(* The error of the channel.                                               *)
(***************************************************************************)
\* It retries, or another request was sent.
Retried(v, t) ==
    v.refresher.started => v.refresher.timer = "retry" \/ v.refresher.current # t

LEMMA IoErrorAlarms ==
    ASSUME NEW w \in Worlds, Within(w), Steady(w), Waiting(w), NEW app \in AnyReaction
    PROVE  LET v == ProcessTransactionIoError(w, app)
           IN  Alarmed(w, v) \/ (v = w /\ (w.refresher.started => Ending(w)))
<1> DEFINE code == "io"
           x == IF w.refresher.started THEN Schedule(w, "retry") ELSE w
<1>1. code \in Codes \ {"401"}
  BY DEF Codes
<1>2. ~w.refresher.ioError
  BY DEF Steady
<1> HIDE DEF code
<1>3. Alarmed(w, Tell(x, code, w.refresher.started, app))
  BY <1>1, ReportAlarms
<1>4. \/ ProcessTransactionIoError(w, app) = Tell(x, code, w.refresher.started, app)
      \/ /\ ProcessTransactionIoError(w, app) = w
         /\ ~w.refresher.started \/ w.refresher.expires = 0
  BY <1>2, Zenon DEF ProcessTransactionIoError, code
<1> HIDE DEF x
<1> QED BY <1>3, <1>4 DEF Ending

\* The current request, answered or not, is told and ends.
LEMMA NotifiedEnds ==
    ASSUME NEW w \in Worlds, Within(w), Tended(w), NEW t \in Ids,
           t = w.refresher.current, ~w.refresher.ioError,
           Current(w).state # "TERMINATED", NEW app \in AnyReaction,
           NEW over \in BOOLEAN, over => ~Waiting(w), ~over => Waiting(w),
           NEW late \in BOOLEAN
    PROVE  LET w3 == IF over THEN w ELSE ProcessTransactionIoError(w, app)
               w4 == IF late /\ w3.refresher.current = t
                     THEN ProcessTimeout(w3, app) ELSE w3
               z  == Terminate(w4, t, app.reachable)
           IN  /\ z \in Worlds
               /\ Within(z) => Tended(z) /\ (~over => Retried(z, t))
<1> DEFINE w3 == IF over THEN w ELSE ProcessTransactionIoError(w, app)
           w4 == IF late /\ w3.refresher.current = t
                 THEN ProcessTimeout(w3, app) ELSE w3
           z  == Terminate(w4, t, app.reachable)
           Goal == z \in Worlds /\ (Within(z) => Tended(z) /\ (~over => Retried(z, t)))
<1>0. app.reachable \in BOOLEAN /\ Steady(w)
  BY DEF AnyReaction, Tended
<1> SUFFICES Goal
  OBVIOUS
<1>1. Alarmed(w, w3) \/ (w3 = w /\ (over \/ (w.refresher.started => Ending(w))))
  BY <1>0, IoErrorAlarms
<1>2. w3 \in Worlds /\ Steady(w3)
  BY <1>0, <1>1 DEF Alarmed
<1> HIDE DEF w3
<1>3. ASSUME NEW x \in Worlds, Within(x), t = x.refresher.current, Alarmed(x, w4)
      PROVE  Goal
  <2> HIDE DEF w4
  <2>1. z \in Worlds
    BY <1>0, <1>3, TerminateWorld DEF Alarmed
  <2>2. Within(z) => Tended(z) /\ Retried(z, t)
    BY <1>0, <1>3, AlarmedEnds DEF Retried
  <2> QED BY <2>1, <2>2
<1>4. CASE late /\ w3.refresher.current = t
  <2>1. Within(w3)
    BY <1>4 DEF Within
  <2>2. Alarmed(w3, ProcessTimeout(w3, app))
    BY <1>2, <2>1, TimeoutAlarms
  <2>3. w4 = ProcessTimeout(w3, app)
    BY <1>4
  <2> HIDE DEF w4, Goal
  <2> QED BY <1>2, <1>3, <1>4, <2>1, <2>2, <2>3
<1>5. CASE ~(late /\ w3.refresher.current = t) /\ Alarmed(w, w3)
  <2>1. w4 = w3
    BY <1>5
  <2> HIDE DEF w4, Goal
  <2> QED BY <1>3, <1>5, <2>1
<1>6. CASE ~(late /\ w3.refresher.current = t) /\ ~Alarmed(w, w3)
  <2>1. w4 = w /\ (over \/ (w.refresher.started => Ending(w)))
    BY <1>1, <1>6
  <2> HIDE DEF w4
  <2>2. Heard(w)
    <3>1. CASE over
      <4>1. Excused(w) /\ EndPending(w)
        BY <3>1 DEF Tended, Watched
      <4> QED BY <4>1 DEF Heard, EndPending
    <3>2. CASE ~over
      <4>1. w.refresher.started => w.refresher.pending
        BY <2>1, <3>2 DEF Tended, EndPending
      <4> QED BY <4>1 DEF Heard, Ending, Excused
    <3> QED BY <3>1, <3>2
  <2>3. /\ Heard(w) => Tended(z)
        /\ z.refresher.current = t => (z.refresher.started => w.refresher.started)
        /\ w.refresher.started /\ w.refresher.pending => z.refresher.current # t
    BY <1>0, <2>1, CurrentEnds
  <2>4. z \in Worlds
    BY <1>0, <2>1, TerminateWorld
  <2>5. ~over => Retried(z, t)
    <3>1. ~over /\ w.refresher.started => w.refresher.pending
      BY <2>1 DEF Tended, EndPending
    <3> HIDE DEF z
    <3> QED BY <2>3, <3>1 DEF Retried
  <2> HIDE DEF z
  <2> QED BY <2>2, <2>3, <2>4, <2>5
<1> QED BY <1>4, <1>5, <1>6

\* The current request was over, and the application heard of the error or
\* had stopped the refresher.
Ceased(u, c) ==
    /\ u \in Worlds /\ u.refresher.current = c
    /\ u.transactions[c].state = "TERMINATED"
    /\ u.refresher.started => u.refresher.timer = "retry" /\ u.told.code # "401"

LEMMA CeasedTold ==
    ASSUME NEW w \in Worlds, Within(w), NEW c \in Ids, w.refresher.current = c,
           w.transactions[c].state = "TERMINATED", NEW code \in Codes \ {"401"},
           NEW retry \in BOOLEAN, NEW app \in AnyReaction
    PROVE  LET x == IF w.refresher.started THEN Schedule(w, "retry") ELSE w
           IN  Ceased(Tell(x, code, retry, app), c)
<1> DEFINE x == IF w.refresher.started THEN Schedule(w, "retry") ELSE w
           u == Tell(x, code, retry, app)
<1>1. /\ x \in Worlds /\ x.transactions = w.transactions
      /\ x.refresher.current = c
      /\ x.refresher.started => x.refresher.timer = "retry"
      /\ code \in Codes
  BY DEF Schedule, Worlds, Refreshers
<1> SUFFICES Ceased(u, c)
  OBVIOUS
<1> HIDE DEF x
<1>2. Within(x) /\ ~Waiting(x)
  BY <1>1 DEF Within, Waiting, Current, Transient
<1>3. Announced(x, u, code, retry)
  BY <1>1, <1>2, TellAnnounces, Zenon
<1> HIDE DEF u
<1>4. SameRequest(x, u) /\ u \in Worlds
  BY <1>2, <1>3 DEF Announced
<1>5. u.refresher.started => u.refresher = x.refresher /\ u.told.code = code
  BY <1>3 DEF Announced
<1> QED BY <1>1, <1>4, <1>5 DEF Ceased, SameRequest

LEMMA ProviderErrorCeases ==
    ASSUME NEW w \in Worlds, Within(w), NEW c \in Ids, w.refresher.current = c,
           ~w.refresher.ioError, w.transactions[c].linked, NEW app \in AnyReaction
    PROVE  LET p == ProcessProviderIoError(w, app)
           IN  /\ w.transactions[c].state # "TERMINATED" => p = w
               /\ w.transactions[c].state = "TERMINATED" =>
                     Ceased(p, c)
<1> DEFINE code  == "io"
           retry == TRUE
           x == IF w.refresher.started THEN Schedule(w, "retry") ELSE w
           u == Tell(x, code, retry, app)
           y == [u EXCEPT !.refresher.ioError = TRUE]
           p == ProcessProviderIoError(w, app)
<1>1. /\ w.transactions[c].state # "TERMINATED" => p = w
      /\ ~w.refresher.started => p = w
      /\ w.refresher.started /\ w.transactions[c].state = "TERMINATED" => p = y
  BY DEF ProcessProviderIoError, Current
<1>2. code \in Codes \ {"401"} /\ retry \in BOOLEAN
  BY DEF Codes
<1> HIDE DEF code, retry
<1>3. w.transactions[c].state = "TERMINATED" => Ceased(u, c)
  BY <1>2, CeasedTold
<1> HIDE DEF x, u
<1>4. Ceased(u, c) => Ceased(y, c)
  BY DEF Ceased, Worlds, Refreshers
<1> HIDE DEF y, p
<1>5. ~w.refresher.started /\ w.transactions[c].state = "TERMINATED" => Ceased(w, c)
  BY DEF Ceased
<1> QED BY <1>1, <1>3, <1>4, <1>5 DEF p

LEMMA CeasedNotified ==
    ASSUME NEW w, NEW c \in Ids, Ceased(w, c), Within(w),
           NEW app \in AnyReaction, NEW late \in BOOLEAN
    PROVE  LET w4 == IF late /\ w.refresher.current = c
                     THEN ProcessTimeout(w, app) ELSE w
               z  == Terminate(w4, c, app.reachable)
           IN  Ceased(z, c)
<1> DEFINE code == "408"
           x  == IF w.refresher.started THEN Schedule(w, "retry") ELSE w
           u  == Tell(x, code, w.refresher.started, app)
           w4 == IF late /\ w.refresher.current = c
                 THEN ProcessTimeout(w, app) ELSE w
           z  == Terminate(w4, c, app.reachable)
<1>1. /\ w \in Worlds /\ w.refresher.current = c
      /\ w.transactions[c].state = "TERMINATED"
      /\ w.refresher.started \in BOOLEAN
  BY DEF Ceased, Worlds, Refreshers
<1>2. code \in Codes \ {"401"}
  BY DEF Codes
<1>3. u = ProcessTimeout(w, app)
  BY Zenon DEF ProcessTimeout
<1> HIDE DEF code
<1>4. Ceased(u, c)
  BY <1>1, <1>2, CeasedTold
<1> HIDE DEF u
<1>5. Ceased(w4, c)
  BY <1>3, <1>4
<1> HIDE DEF w4
<1>6. z = w4
  BY <1>5 DEF Ceased, Terminate
<1> HIDE DEF z
<1>7. Ceased(z, c)
  BY <1>5, <1>6
<1> QED BY <1>7 DEF z, w4

\* The transaction forgets its channel.
LEMMA Forgets ==
    ASSUME NEW z \in Worlds, Within(z), NEW c \in Ids, NEW v,
           v = [z EXCEPT !.transactions[c].linked = FALSE]
    PROVE  /\ v \in Worlds /\ v.refresher = z.refresher
           /\ Tended(z) => Tended(v)
           /\ Ceased(z, c) => Tended(v)
<1> DEFINE last == [z.transactions[c] EXCEPT !.linked = FALSE]
           u    == [z EXCEPT !.transactions[c] = last]
<1>1. z.transactions[c] \in Transaction
  BY DEF Worlds
<1>2. /\ last \in Transaction /\ last.state = z.transactions[c].state
      /\ last.timers = z.transactions[c].timers /\ ~last.linked
  BY <1>1 DEF Transaction
<1>3. v = u
  BY DEF Worlds
<1> HIDE DEF last
<1>4. /\ u \in Worlds /\ u.refresher = z.refresher /\ u.told = z.told
      /\ u.transactions[c] = last
      /\ \A x \in Ids : x # c => u.transactions[x] = z.transactions[x]
  BY <1>2, Touched
<1> HIDE DEF u
<1>5. z.refresher.current \in Ids
  BY CurrentId
<1>6. Tended(z) => Tended(v)
  BY <1>2, <1>3, <1>4, <1>5, TouchedTends
<1>7. ASSUME Ceased(z, c)
      PROVE  Tended(v)
  <2>1. Current(v) = last /\ last.state = "TERMINATED"
    BY <1>2, <1>3, <1>4, <1>7 DEF Ceased, Current
  <2>2. ~Waiting(v) /\ Steady(v)
    BY <1>2, <2>1 DEF Waiting, Transient, Steady
  <2>3. v.refresher.started => v.refresher.timer = "retry" /\ v.told.code # "401"
    BY <1>3, <1>4, <1>7 DEF Ceased
  <2>4. Excused(v) /\ EndPending(v)
    BY <2>2, <2>3 DEF Excused, EndPending, Ending
  <2> QED BY <2>2, <2>4 DEF Tended, Watched
<1> QED BY <1>3, <1>4, <1>6, <1>7

LEMMA ErrorNotifiedTends ==
    ASSUME WatchInv, UNCHANGED settings, NEW app \in Reactions, ErrorNotified(app)
    PROVE  /\ Tended(Now)'
           /\ reliable /\ transactions[refresher.current].linked
                => \/ ~refresher'.started
                   \/ refresher'.timer = "retry"
                   \/ refresher'.current # refresher.current
<1> DEFINE c  == refresher.current
           p  == ProcessProviderIoError(Now, app)
           ch == [state |-> "none", left |-> Alternates]
           w2 == [[p EXCEPT !.channel = ch]
                     EXCEPT !.transactions = EndedByError(@, c)]
           over == transactions[c].state \in {"COMPLETED", "TERMINATED"}
           late == transactions[c].timedOut
           w3 == IF over THEN w2 ELSE ProcessTransactionIoError(w2, app)
           w4 == IF late /\ w3.refresher.current = c THEN ProcessTimeout(w3, app)
                                                     ELSE w3
           z  == Terminate(w4, c, app.reachable)
           w5 == [z EXCEPT !.transactions[c].linked = FALSE]
<1>1. /\ Now \in Worlds /\ c \in Ids /\ Now.refresher = refresher
      /\ Now.transactions = transactions /\ Within(Now) /\ Tended(Now)
      /\ Current(Now) = transactions[c]
      /\ transactions[c] \in Transaction /\ app \in AnyReaction
  BY NowFacts DEF Worlds, WatchInv
<1>2. Become(IF transactions[c].linked THEN w5 ELSE w2)
  BY DEF ErrorNotified
<1>3. over \in BOOLEAN /\ late \in BOOLEAN
  BY <1>1 DEF Transaction
<1>4. ch \in Channel
  BY NonInviteAssumption DEF Channel, ChannelStates
<1> HIDE DEF p, ch
\* What the end of the other transactions keeps.
<1>5. ASSUME p \in Worlds
      PROVE  /\ w2 \in Worlds /\ w2.refresher = p.refresher /\ w2.told = p.told
             /\ w2.transactions[c] = p.transactions[c]
  <2> DEFINE trans == EndedByError(p.transactions, c)
             x     == [p EXCEPT !.transactions = trans, !.channel = ch]
  <2>1. p.transactions \in [Ids -> Transaction]
    BY <1>5 DEF Worlds
  <2>2. trans \in [Ids -> Transaction] /\ trans[c] = p.transactions[c]
    BY <1>1, <2>1, EndedByErrorType
  <2> HIDE DEF trans
  <2>3. w2 = x
    BY <1>5 DEF Worlds, trans
  <2>4. /\ x \in Worlds /\ x.refresher = p.refresher /\ x.told = p.told
        /\ x.transactions = trans
    BY <1>4, <1>5, <2>2 DEF Worlds
  <2> HIDE DEF x, w2
  <2> QED BY <2>2, <2>3, <2>4
<1> HIDE DEF w2
\* Where nothing was told of the provider.
<1>6. ASSUME p = Now
      PROVE  /\ w2 \in Worlds /\ w2.refresher = refresher /\ w2.told = Now.told
             /\ Current(w2) = transactions[c] /\ Within(w2) /\ Tended(w2)
  <2>1. /\ w2 \in Worlds /\ w2.refresher = refresher /\ w2.told = Now.told
        /\ w2.transactions[c] = transactions[c]
    BY <1>1, <1>5, <1>6
  <2>2. Alike(Now, w2) /\ Within(w2)
    BY <1>1, <2>1 DEF Alike, Current, Within
  <2> QED BY <1>1, <2>1, <2>2, AlikeTended DEF Current
<1>7. CASE ~transactions[c].linked
  <2>1. p = Now
    BY <1>1, <1>7 DEF p, ProcessProviderIoError
  <2>2. Become(w2)
    BY <1>2, <1>7
  <2> QED BY <1>6, <1>7, <2>1, <2>2, TendedStep
<1>8. CASE transactions[c].linked
  <2>1. Become(w5) /\ ~refresher.ioError
    BY <1>1, <1>2, <1>8 DEF Tended, Steady
  <2>2. /\ transactions[c].state # "TERMINATED" => p = Now
        /\ transactions[c].state = "TERMINATED" => Ceased(p, c)
    BY <1>1, <1>8, <2>1, ProviderErrorCeases DEF p
  <2>3. ASSUME z \in Worlds, Within(z) => (Tended(z) \/ Ceased(z, c)),
               Within(z) /\ reliable => Retried(z, c)
        PROVE  /\ Tended(Now)'
               /\ reliable => \/ ~refresher'.started
                              \/ refresher'.timer = "retry"
                              \/ refresher'.current # c
    <3> HIDE DEF z
    <3>1. w5.refresher = z.refresher
      BY <2>3 DEF Worlds
    <3>2. w5 = [z EXCEPT !.transactions[c].linked = FALSE]
      OBVIOUS
    <3> HIDE DEF w5
    <3>3. Within(z)
      BY <2>1, <3>1 DEF Become, Within
    <3>4. w5 \in Worlds /\ Tended(w5)
      BY <1>1, <2>3, <3>2, <3>3, Forgets
    <3>5. Tended(Now)'
      BY <2>1, <3>4, TendedStep
    <3>6. refresher' = z.refresher
      BY <2>1, <3>1 DEF Become
    <3> QED BY <2>3, <3>3, <3>5, <3>6 DEF Retried
  <2>4. CASE transactions[c].state = "TERMINATED"
    <3>1. Ceased(p, c) /\ over
      BY <2>2, <2>4
    <3>2. Ceased(w2, c) /\ Within(w2)
      BY <1>1, <1>5, <3>1 DEF Ceased, Within
    <3>3. w3 = w2
      BY <3>1
    <3> HIDE DEF w3, late
    <3>4. Ceased(z, c)
      BY <1>1, <1>3, <3>2, <3>3, CeasedNotified
    <3> HIDE DEF z
    <3> QED BY <1>8, <2>3, <3>4 DEF Ceased, Retried
  <2>5. CASE transactions[c].state # "TERMINATED"
    <3>1. p = Now
      BY <2>2, <2>5
    <3>2. /\ w2 \in Worlds /\ w2.refresher = refresher
          /\ Current(w2) = transactions[c] /\ Within(w2) /\ Tended(w2)
      BY <1>6, <3>1
    <3>3. /\ over => ~Waiting(w2)
          /\ ~over => Waiting(w2)
          /\ reliable => ~over
      BY <1>1, <2>5, <3>2 DEF Waiting, Transient, Tended, Steady, Transaction,
                              TransactionStates
    <3> HIDE DEF over, late
    <3>4. /\ z \in Worlds
          /\ Within(z) => Tended(z) /\ (~over => Retried(z, c))
      BY <1>1, <1>3, <2>1, <2>5, <3>2, <3>3, NotifiedEnds
    <3> HIDE DEF z
    <3> QED BY <1>8, <2>3, <3>3, <3>4
  <2> QED BY <2>4, <2>5
<1> QED BY <1>7, <1>8

-----------------------------------------------------------------------------
(***************************************************************************)
(* The timer of the refresher and the application.                         *)
(***************************************************************************)
LEMMA SaidTends ==
    ASSUME NEW w \in Worlds, Steady(w), EndPending(w),
           NEW code \in {"expiring", "refused", "lost"}
    PROVE  LET v == [w EXCEPT !.told = [code |-> code, retry |-> FALSE]]
           IN  v \in Worlds /\ Tended(v)
<1> DEFINE no == FALSE
           new == [code |-> code, retry |-> no]
           v   == [w EXCEPT !.told = new]
<1>1. new \in [code : Codes, retry : BOOLEAN] /\ new.code = code /\ ~new.retry
  BY DEF Codes
<1> SUFFICES v \in Worlds /\ Tended(v)
  OBVIOUS
<1> HIDE DEF new
<1>2. /\ v \in Worlds /\ v.refresher = w.refresher /\ v.told = new
      /\ v.transactions = w.transactions
  BY <1>1 DEF Worlds
<1> HIDE DEF v
<1>3. Current(v) = Current(w) /\ (Waiting(v) => Waiting(w)) /\ (Waiting(w) => Waiting(v))
  BY <1>2 DEF Current, Waiting
<1>4. Steady(v)
  BY <1>2, <1>3 DEF Steady
<1>5. Excused(v) /\ EndPending(v)
  BY <1>1, <1>2, <1>3 DEF Excused, EndPending, Ending
<1> QED BY <1>2, <1>4, <1>5 DEF Tended, Watched

LEMMA RefreshTimerTends ==
    ASSUME WatchInv, UNCHANGED settings, NEW reachable \in BOOLEAN,
           RefreshTimer(reachable)
    PROVE  Tended(Now)'
<1> DEFINE keep == FALSE
           w1   == [Now EXCEPT !.refresher.timer = "none"]
           w2   == Refresh(w1, keep, refresher.expires, reachable)
           code == "expiring"
           gone == [w1 EXCEPT !.told = [code |-> code, retry |-> FALSE]]
           last == Schedule(w2, "retry")
           v    == IF refresher.timer = "normal" /\ manual THEN gone
                   ELSE IF RefreshSucceeds(Now, TRUE, reachable) THEN w2
                   ELSE last
<1>1. /\ Now \in Worlds /\ Exclusive(Now) /\ Tended(Now)
      /\ Now.refresher = refresher /\ Within(Now)
  BY NowFacts DEF WatchInv
<1>2. refresher.timer # "none" /\ Become(v)
  BY DEF RefreshTimer
<1>3. ~Waiting(Now)
  BY <1>1, <1>2 DEF Exclusive
<1>4. /\ w1 \in Worlds /\ w1.transactions = Now.transactions
      /\ w1.channel = Now.channel /\ w1.told = Now.told
      /\ w1.refresher = [refresher EXCEPT !.timer = "none"]
  BY <1>1 DEF Worlds, Refreshers
<1>5. /\ w1.refresher.current = refresher.current
      /\ w1.refresher.expires = refresher.expires
      /\ w1.refresher.started = refresher.started
      /\ w1.refresher.pending = refresher.pending
      /\ w1.refresher.ioError = refresher.ioError
      /\ refresher.expires \in {0, 1}
  BY <1>1, <1>4 DEF Worlds, Refreshers
<1> HIDE DEF w1
<1>6. /\ Current(w1) = Current(Now) /\ ~Waiting(w1) /\ Within(w1) /\ ~Delayed(w1)
      /\ RefreshSucceeds(Now, TRUE, reachable) => RefreshSucceeds(w1, TRUE, reachable)
      /\ RefreshSucceeds(w1, TRUE, reachable) => RefreshSucceeds(Now, TRUE, reachable)
  BY <1>1, <1>3, <1>4, <1>5 DEF Current, Waiting, Within, Delayed, RefreshSucceeds,
                               HasChannel
<1>7. Steady(w1) /\ EndPending(w1)
  BY <1>1, <1>4, <1>5, <1>6 DEF Tended, Steady, EndPending, Ending
<1>8. w2 \in Worlds
  BY <1>4, <1>5, RefreshWorld
<1>9. keep \in BOOLEAN /\ ~keep
  OBVIOUS
<1> HIDE DEF keep
<1>10. Tending(w1, w2, reachable)
  BY <1>4, <1>5, <1>6, <1>9, RefreshTends, Zenon
<1> HIDE DEF w2
<1>11. CASE v = gone
  <2>1. code \in {"expiring", "refused", "lost"}
    OBVIOUS
  <2> HIDE DEF code
  <2>2. gone \in Worlds /\ Tended(gone)
    BY <1>4, <1>7, <2>1, SaidTends
  <2> HIDE DEF v, gone
  <2> QED BY <1>2, <1>11, <2>2, TendedStep
<1>12. CASE RefreshSucceeds(Now, TRUE, reachable) /\ v = w2
  <2>1. Tended(w2)
    BY <1>6, <1>10, <1>12, Zenon DEF Tending, Tended, Watched
  <2> HIDE DEF v
  <2> QED BY <1>2, <1>8, <1>12, <2>1, TendedStep
<1>13. CASE v = last
  <2>1. /\ last \in Worlds /\ last.transactions = w2.transactions
        /\ last.told = w2.told
        /\ last.refresher = [w2.refresher EXCEPT !.timer = "retry"]
    BY <1>8 DEF Schedule, Worlds, Refreshers
  <2> HIDE DEF last, v
  <2>2. /\ last.refresher.timer = "retry"
        /\ last.refresher.current = w2.refresher.current
        /\ last.refresher.started = w2.refresher.started
        /\ last.refresher.expires = w2.refresher.expires
        /\ last.refresher.pending = w2.refresher.pending
        /\ last.refresher.ioError = w2.refresher.ioError
    BY <1>8, <2>1 DEF Worlds, Refreshers
  <2>3. Current(last) = Current(w2)
    BY <2>1, <2>2 DEF Current
  <2>4. Steady(w2) /\ EndPending(w2)
    BY <1>10, Zenon DEF Tending
  <2>5. Tended(last)
    BY <2>1, <2>2, <2>3, <2>4 DEF Tended, Steady, Watched, Excused, EndPending, Ending,
                                  Waiting
  <2> QED BY <1>2, <1>13, <2>1, <2>5, TendedStep
<1> HIDE DEF gone, last
<1> QED BY <1>11, <1>12, <1>13

LEMMA AskedTends ==
    ASSUME WatchInv, UNCHANGED settings, NEW keep \in BOOLEAN,
           NEW expires \in {0, 1}, NEW reachable \in BOOLEAN,
           Asked(keep, expires, reachable),
           keep /\ Ending(Now) => Now.refresher.pending
    PROVE  Tended(Now)'
<1> DEFINE code == OnFailure(keep, expires)
           w == Refresh(Now, keep, expires, reachable)
           x == [w EXCEPT !.told = [code |-> code, retry |-> FALSE]]
<1>1. Now \in Worlds /\ Within(Now) /\ Steady(Now)
  BY NowFacts DEF WatchInv, Tended
<1>2. Tending(Now, w, reachable)
  BY <1>1, RefreshTends, Zenon
<1>3. w \in Worlds
  BY <1>1, RefreshWorld
<1>4. /\ RefreshSucceeds(Now, TRUE, reachable) => Become(w)
      /\ ~RefreshSucceeds(Now, TRUE, reachable) => Become(x)
  BY DEF Asked
<1>5. code \in {"expiring", "refused", "lost"}
  BY DEF OnFailure
<1> HIDE DEF w, code
<1>6. CASE RefreshSucceeds(Now, TRUE, reachable)
  <2>1. Tended(w)
    BY <1>2, <1>6, Zenon DEF Tending, Tended, Watched
  <2> QED BY <1>3, <1>4, <1>6, <2>1, TendedStep
<1>7. CASE ~RefreshSucceeds(Now, TRUE, reachable)
  <2>1. Steady(w) /\ EndPending(w)
    BY <1>2, Zenon DEF Tending
  <2>2. x \in Worlds /\ Tended(x)
    BY <1>3, <1>5, <2>1, SaidTends
  <2> HIDE DEF x
  <2> QED BY <1>4, <1>7, <2>2, TendedStep
<1> QED BY <1>6, <1>7

LEMMA AppRefreshTends ==
    ASSUME WatchInv, UNCHANGED settings, NEW reachable \in BOOLEAN,
           NEW expires \in {0, 1}, AppRefresh(expires, reachable)
    PROVE  Tended(Now)'
<1> DEFINE keep == FALSE
<1>1. keep \in BOOLEAN /\ ~keep
  OBVIOUS
<1>2. Asked(keep, expires, reachable)
  BY DEF AppRefresh
<1> HIDE DEF keep
<1> QED BY <1>1, <1>2, AskedTends

LEMMA AppAuthenticateTends ==
    ASSUME WatchInv, UNCHANGED settings, NEW reachable \in BOOLEAN,
           AppAuthenticate(reachable)
    PROVE  Tended(Now)'
<1> DEFINE keep == TRUE
           expires == 0
<1>1. keep \in BOOLEAN /\ expires \in {0, 1}
  OBVIOUS
<1>2. Asked(keep, expires, reachable) /\ told.code = "401"
  BY DEF AppAuthenticate
<1> HIDE DEF keep, expires
<1>3. Ending(Now) => Now.refresher.pending
  BY <1>2, NowFacts DEF WatchInv, Tended, EndPending
<1> QED BY <1>1, <1>2, <1>3, AskedTends

LEMMA AppStopTends ==
    ASSUME WatchInv, UNCHANGED settings, NEW reachable \in BOOLEAN,
           AppStop(reachable)
    PROVE  Tended(Now)'
<1> DEFINE v == Stop(Now, reachable)
<1>1. Now \in Worlds /\ Within(Now) /\ Steady(Now)
  BY NowFacts DEF WatchInv, Tended
<1>2. v \in Worlds /\ ~v.refresher.started /\ Steady(v)
  BY <1>1, StopSteady
<1>3. Become(v)
  BY DEF AppStop
<1> HIDE DEF v
<1>4. Tended(v)
  BY <1>2 DEF Tended, Watched, Excused, EndPending, Ending
<1> QED BY <1>2, <1>3, <1>4, TendedStep

LEMMA InitTends == Init => Tended(Now)
<1> SUFFICES ASSUME Init
             PROVE  Tended(Now)
  OBVIOUS
<1> DEFINE sent == [Unused EXCEPT !.state = "INIT", !.linked = TRUE, !.expires = 1]
           first == IF channel.state = "ready" THEN NictSend(sent) ELSE sent
<1>1. 1 \in Ids
  BY NonInviteAssumption DEF Ids
<1>2. sent \in Transaction /\ sent.state = "INIT" /\ "K" \notin sent.timers
  <2> DEFINE nothing == {}
  <2>1. nothing \in SUBSET {"F", "K"} /\ {"NULL", "INIT"} \subseteq TransactionStates
        /\ "K" \notin nothing
    BY DEF TransactionStates
  <2>2. Unused = [state |-> "NULL", timers |-> nothing, linked |-> FALSE,
                  timedOut |-> FALSE, expires |-> 0]
    BY DEF Unused
  <2> HIDE DEF nothing
  <2> QED BY <2>1, <2>2 DEF Transaction
<1>3. first.state \in {"INIT", "TRYING"} /\ "K" \notin first.timers
  <2> HIDE DEF sent
  <2> QED BY <1>2, NictSendTimers
<1>4. transactions = [t \in Ids |-> IF t # 1 THEN Unused ELSE first]
  BY DEF Init
<1> HIDE DEF first
<1>5. Now.transactions[1] = first /\ Now.refresher.current = 1
      /\ Now.refresher.expires = 1 /\ ~Now.refresher.ioError
  BY <1>1, <1>4 DEF Now, Init
<1>6. Current(Now) = first /\ Waiting(Now)
  BY <1>3, <1>5 DEF Current, Waiting, Transient
<1> QED BY <1>3, <1>5, <1>6 DEF Tended, Steady, Watched, EndPending, Ending

-----------------------------------------------------------------------------
(***************************************************************************)
(* A refresher that was stopped.                                           *)
(***************************************************************************)
\* Its request and its timer stay as they were.
Quiet(w, v) ==
    /\ v.refresher.current = w.refresher.current
    /\ v.refresher.timer = w.refresher.timer

LEMMA QuietEnds ==
    ASSUME NEW w \in Worlds, ~w.refresher.started, NEW t \in Ids,
           NEW reachable \in BOOLEAN
    PROVE  Quiet(w, Terminate(w, t, reachable))
<1> DEFINE w1 == Ended(w, t)
           w2 == [w1 EXCEPT !.refresher.pending = FALSE]
<1>1. Terminate(w, t, reachable) \in {w, w1, w2}
  BY Zenon DEF Terminate
<1>2. w1 \in Worlds /\ w1.refresher = w.refresher
  <2>1. t \in Nat
    BY NonInviteAssumption DEF Ids
  <2>2. Ended(w, t) \in Worlds /\ Ended(w, t).refresher = w.refresher
    BY <2>1, EndedFacts
  <2> QED BY <2>2
<1> HIDE DEF w1
<1>3. w2.refresher = [w.refresher EXCEPT !.pending = FALSE]
  BY <1>2 DEF Worlds, Refreshers
<1> HIDE DEF w2
<1>4. Quiet(w, w) /\ Quiet(w, w1) /\ Quiet(w, w2)
  BY <1>2, <1>3 DEF Quiet, Worlds, Refreshers
<1> QED BY <1>1, <1>4

LEMMA QuietTimeout ==
    ASSUME NEW w \in Worlds, Within(w), ~w.refresher.started, ~Waiting(w),
           w.refresher.timer = "none", NEW app \in AnyReaction
    PROVE  LET v == ProcessTimeout(w, app)
           IN  Quiet(w, v) /\ v \in Worlds /\ ~v.refresher.started
<1> DEFINE code  == "408"
           retry == w.refresher.started
           v     == Tell(w, code, retry, app)
<1>1. code \in Codes /\ retry \in BOOLEAN
  BY DEF Codes, Worlds, Refreshers
<1>2. ProcessTimeout(w, app) = v
  BY Zenon DEF ProcessTimeout
<1> HIDE DEF code, retry
<1>3. Announced(w, v, code, retry)
  BY <1>1, TellAnnounces, Zenon
<1> HIDE DEF v
<1>4. Quiet(w, v) /\ v \in Worlds /\ ~v.refresher.started
  BY <1>3 DEF Announced, SameRequest, Quiet
<1> QED BY <1>2, <1>4

LEMMA StoppedIsQuiet ==
    ASSUME WatchInv, MainLoop, ~refresher.started, refresher.timer = "none", ~Running
    PROVE  refresher'.current = refresher.current /\ refresher'.timer = "none"
<1> DEFINE c == refresher.current
<1>1. /\ Now \in Worlds /\ c \in Ids /\ Now.refresher = refresher
      /\ Now.transactions = transactions /\ Within(Now) /\ Steady(Now)
      /\ Current(Now) = transactions[c] /\ ~Waiting(Now)
      /\ transactions \in [Ids -> Transaction]
      /\ Reactions \subseteq AnyReaction /\ Reachability \subseteq BOOLEAN
  BY NowFacts DEF Worlds, WatchInv, Tended, Running, Waiting
<1>2. ASSUME NEW v, Become(v), Quiet(Now, v)
      PROVE  refresher'.current = refresher.current /\ refresher'.timer = "none"
  BY <1>1, <1>2 DEF Become, Quiet
<1>3. ASSUME NEW v, Become(v), v.refresher = refresher
      PROVE  refresher'.current = refresher.current /\ refresher'.timer = "none"
  BY <1>3 DEF Become
<1>4. ASSUME NEW t \in Ids, Provisional(t)
      PROVE  refresher'.current = refresher.current /\ refresher'.timer = "none"
  <2> DEFINE v == [Now EXCEPT !.transactions[t].state = "PROCEEDING"]
  <2>1. v.refresher = refresher
    BY <1>1 DEF Worlds
  <2>2. Become(v)
    BY <1>4 DEF Provisional
  <2> HIDE DEF v
  <2> QED BY <1>3, <2>1, <2>2
<1>5. ASSUME NEW t \in Ids, NEW code \in Answers, NEW allowed \in BOOLEAN,
             NEW app \in Reactions, Final(t, code, allowed, app)
      PROVE  refresher'.current = refresher.current /\ refresher'.timer = "none"
  <2> DEFINE w1 == [Now EXCEPT !.transactions[t].state = "COMPLETED"]
             w3 == IF code = "500" /\ method = "REGISTER"
                   THEN [w1 EXCEPT !.channel = ChannelError(@, TRUE)] ELSE w1
             w4 == [w3 EXCEPT !.transactions[t].timers = @ \cup {"K"}]
             u  == Terminate(w3, t, app.reachable)
  <2>1. t # c
    BY <1>1, <1>5 DEF Final, Answerable, Waiting, Transient
  <2>2. IF reliable THEN Become(u) ELSE Become(w4)
    BY <1>5, <2>1 DEF Final
  <2>3. w1 \in Worlds /\ w1.refresher = refresher
    <3> DEFINE new == [transactions[t] EXCEPT !.state = "COMPLETED"]
               x   == [Now EXCEPT !.transactions[t] = new]
    <3>1. new \in Transaction
      BY <1>1 DEF Transaction, TransactionStates
    <3>2. w1 = x
      BY <1>1 DEF Worlds
    <3> HIDE DEF new
    <3>3. x \in Worlds /\ x.refresher = Now.refresher
      BY <1>1, <3>1, Touched
    <3> HIDE DEF x, w1
    <3> QED BY <1>1, <3>2, <3>3
  <2> HIDE DEF w1
  <2>4. w3 \in Worlds /\ w3.refresher = refresher
    <3>1. ChannelError(w1.channel, TRUE) \in Channel
      <4>1. w1.channel \in Channel
        BY <2>3 DEF Worlds
      <4> QED BY <4>1, ChannelErrorType
    <3> QED BY <2>3, <3>1 DEF Worlds
  <2> HIDE DEF w3
  <2>5. w4.refresher = refresher
    BY <2>4 DEF Worlds
  <2>6. u.refresher = refresher
    BY <2>1, <2>4, OtherKeepsRefresher
  <2> HIDE DEF u, w4
  <2> QED BY <1>3, <2>2, <2>5, <2>6
<1>6. ASSUME NEW t \in Ids, TimerF(t)
      PROVE  refresher'.current = refresher.current /\ refresher'.timer = "none"
  <2> DEFINE w == [Now EXCEPT !.transactions[t].timers = @ \ {"F"}]
  <2>1. w \in Worlds /\ w.refresher = refresher
    <3> DEFINE new == [transactions[t] EXCEPT !.timers = @ \ {"F"}]
               x   == [Now EXCEPT !.transactions[t] = new]
    <3>1. new \in Transaction
      <4>1. transactions[t] \in Transaction
        BY <1>1
      <4> QED BY <4>1 DEF Transaction
    <3>2. w = x
      BY <1>1 DEF Worlds
    <3> HIDE DEF new
    <3>3. x \in Worlds /\ x.refresher = Now.refresher
      BY <1>1, <3>1, Touched
    <3> HIDE DEF x, w
    <3> QED BY <1>1, <3>2, <3>3
  <2>2. CASE Become(w)
    BY <1>3, <2>1, <2>2
  <2>3. ASSUME NEW quiet \in BOOLEAN, Become(ReportDeadChannel(w, t, quiet))
        PROVE  refresher'.current = refresher.current /\ refresher'.timer = "none"
    <3> DEFINE v == ReportDeadChannel(w, t, quiet)
    <3> HIDE DEF w
    <3>1. v.refresher = refresher
      BY <2>1 DEF ReportDeadChannel, Worlds
    <3>2. Become(v)
      BY <2>3
    <3> HIDE DEF v
    <3> QED BY <1>3, <3>1, <3>2
  <2>4. ASSUME NEW app \in Reactions, t # c, Become(Terminate(w, t, app.reachable))
        PROVE  refresher'.current = refresher.current /\ refresher'.timer = "none"
    <3> DEFINE v == Terminate(w, t, app.reachable)
    <3> HIDE DEF w
    <3>1. v.refresher = refresher
      BY <2>1, <2>4, OtherKeepsRefresher
    <3>2. Become(v)
      BY <2>4
    <3> HIDE DEF v
    <3> QED BY <1>3, <3>1, <3>2
  <2>5. \/ Become(w)
        \/ \E quiet \in BOOLEAN : Become(ReportDeadChannel(w, t, quiet))
        \/ /\ Transient(transactions[t].state)
           /\ \E app \in Reactions :
                 Become(Terminate(IF t = c THEN ProcessTimeout(w, app) ELSE w,
                                  t, app.reachable))
    BY <1>6 DEF TimerF, w
  <2>6. Transient(transactions[t].state) => t # c
    BY <1>1 DEF Waiting
  <2> HIDE DEF w
  <2> QED BY <2>2, <2>3, <2>4, <2>5, <2>6
<1>7. ASSUME NEW t \in Ids, NEW reachable \in Reachability, TimerK(t, reachable)
      PROVE  refresher'.current = refresher.current /\ refresher'.timer = "none"
  <2> DEFINE v == Terminate(Now, t, reachable)
  <2>1. Quiet(Now, v)
    BY <1>1, QuietEnds
  <2>2. Become(v)
    BY <1>7 DEF TimerK
  <2> HIDE DEF v
  <2> QED BY <1>2, <2>1, <2>2
<1>8. CASE ConnectNext \/ ConnectFails \/ Breaks
  <2>1. PICK ch : SetChannel(ch)
    BY <1>8 DEF ConnectNext, ConnectFails, Breaks
  <2> DEFINE v == [Now EXCEPT !.channel = ch]
  <2>2. v.refresher = refresher
    BY <1>1 DEF Worlds
  <2>3. Become(v)
    BY <2>1 DEF SetChannel
  <2> HIDE DEF v
  <2> QED BY <1>3, <2>2, <2>3
<1>9. CASE Connected
  <2> DEFINE v == [Now EXCEPT !.channel.state = "ready",
                              !.transactions = SentWhenReady(transactions)]
  <2>1. v.refresher = refresher
    BY <1>1 DEF Worlds
  <2>2. Become(v)
    BY <1>9 DEF Connected
  <2> HIDE DEF v
  <2> QED BY <1>3, <2>1, <2>2
<1>10. ASSUME NEW app \in Reactions, ErrorNotified(app)
       PROVE  refresher'.current = refresher.current /\ refresher'.timer = "none"
  <2> DEFINE ch == [state |-> "none", left |-> Alternates]
             w2 == [[Now EXCEPT !.channel = ch]
                       EXCEPT !.transactions = EndedByError(@, c)]
             w4 == IF transactions[c].timedOut /\ w2.refresher.current = c
                   THEN ProcessTimeout(w2, app) ELSE w2
             z  == Terminate(w4, c, app.reachable)
             w5 == [z EXCEPT !.transactions[c].linked = FALSE]
  <2>1. app \in AnyReaction /\ app.reachable \in BOOLEAN
    BY <1>1 DEF AnyReaction
  <2>2. ProcessProviderIoError(Now, app) = Now
    BY <1>1 DEF ProcessProviderIoError
  <2>3. transactions[c].state \in {"COMPLETED", "TERMINATED"}
    BY <1>1 DEF Waiting, Transient, Steady, Transaction, TransactionStates
  <2>4. Become(IF transactions[c].linked THEN w5 ELSE w2)
    <3> DEFINE v2 == [[ProcessProviderIoError(Now, app) EXCEPT !.channel = ch]
                         EXCEPT !.transactions = EndedByError(@, c)]
               v3 == IF transactions[c].state \in {"COMPLETED", "TERMINATED"} THEN v2
                     ELSE ProcessTransactionIoError(v2, app)
               v4 == IF transactions[c].timedOut /\ v3.refresher.current = c
                     THEN ProcessTimeout(v3, app) ELSE v3
               v5 == [Terminate(v4, c, app.reachable) EXCEPT
                         !.transactions[c].linked = FALSE]
    <3>1. Become(IF transactions[c].linked THEN v5 ELSE v2)
      BY <1>10 DEF ErrorNotified
    <3>2. v2 = w2
      BY <2>2
    <3>3. v3 = w2
      BY <2>3, <3>2
    <3> HIDE DEF v2, v3, w2
    <3>4. v5 = w5
      BY <3>3
    <3> QED BY <3>1, <3>2, <3>4
  <2>5. /\ w2 \in Worlds /\ w2.refresher = refresher
        /\ w2.transactions[c] = transactions[c]
    <3> DEFINE trans == EndedByError(transactions, c)
    <3>1. trans \in [Ids -> Transaction] /\ trans[c] = transactions[c]
      BY <1>1, EndedByErrorType
    <3>2. ch \in Channel
      BY NonInviteAssumption DEF Channel, ChannelStates
    <3>3. w2 = [Now EXCEPT !.transactions = trans, !.channel = ch]
      BY <1>1 DEF Worlds
    <3> HIDE DEF trans, ch, w2
    <3> QED BY <1>1, <3>1, <3>2, <3>3 DEF Worlds
  <2> HIDE DEF w2
  <2>6. Within(w2) /\ ~Waiting(w2)
    BY <1>1, <2>3, <2>5 DEF Within, Waiting, Current, Transient
  <2>7. w4 \in Worlds /\ ~w4.refresher.started /\ Quiet(w2, w4)
    <3>1. LET v == ProcessTimeout(w2, app)
          IN  Quiet(w2, v) /\ v \in Worlds /\ ~v.refresher.started
      BY <2>1, <2>5, <2>6, QuietTimeout
    <3> QED BY <2>5, <3>1 DEF Quiet
  <2> HIDE DEF w4
  <2>8. Quiet(w4, z) /\ z \in Worlds
    BY <1>1, <2>1, <2>7, QuietEnds, TerminateWorld
  <2> HIDE DEF z
  <2>9. w5.refresher = z.refresher
    BY <2>8 DEF Worlds
  <2> HIDE DEF w5
  <2>10. Quiet(Now, w5) /\ Quiet(Now, w2)
    BY <1>1, <2>5, <2>7, <2>8, <2>9 DEF Quiet
  <2> QED BY <1>2, <2>4, <2>10
<1>11. ASSUME NEW reachable \in Reachability, RefreshTimer(reachable)
       PROVE  FALSE
  BY <1>11 DEF RefreshTimer
<1> QED BY <1>4, <1>5, <1>6, <1>7, <1>8, <1>9, <1>10, <1>11 DEF MainLoop, Due

-----------------------------------------------------------------------------
(***************************************************************************)
(* Only its notification takes a channel out of its error.                 *)
(***************************************************************************)
\* A channel is made where there is none and left alone where there is one.
Apart(w, v) == v \in Worlds /\ (w.channel.state # "none" => v.channel = w.channel)

LEMMA RefreshApart ==
    ASSUME NEW w \in Worlds, NEW keep \in BOOLEAN, NEW expires \in {0, 1},
           NEW reachable \in BOOLEAN
    PROVE  Apart(w, Refresh(w, keep, expires, reachable))
<1> DEFINE v  == Refresh(w, keep, expires, reachable)
           w1 == [[w EXCEPT !.refresher.timer = "none",
                            !.refresher.challenged = FALSE]
                     EXCEPT !.refresher.expires = IF keep THEN @ ELSE expires]
           w2 == Replaced(w1)
           c  == w2.refresher.current
           w3 == SendRequest(w2, c, reachable)
           w4 == [w1 EXCEPT !.refresher.pending = TRUE]
<1>1. w1 \in Worlds /\ w1.channel = w.channel
  BY DEF Worlds, Refreshers
<1>2. v \in {w4, w3, Stopped(w3)}
  BY Zenon DEF Refresh, RefreshInternal
<1>3. v \in Worlds
  BY RefreshWorld
<1> HIDE DEF w1, v
<1>4. w2 \in Worlds /\ w2.channel = w.channel /\ w4.channel = w.channel
  BY <1>1, ReplacedFacts DEF Worlds
<1> HIDE DEF w2, w4
<1>5. c \in Nat
  BY <1>4, CurrentId
<1> HIDE DEF c
<1>6. w3 \in Worlds
  BY <1>4, <1>5, SendRequestFacts
<1>7. w2.channel.state # "none" => w3.channel = w2.channel
  <2>1. w3 = Ended(w2, c) \/ w3.channel = IF w2.channel.state = "none"
           THEN [state |-> "connecting", left |-> Alternates] ELSE w2.channel
    BY <1>4 DEF SendRequest, Worlds
  <2>2. Ended(w2, c).channel = w2.channel
    BY <1>4, <1>5, EndedFacts
  <2> QED BY <2>1, <2>2
<1> HIDE DEF w3
<1>8. Stopped(w3).channel = w3.channel
  BY <1>6 DEF Stopped, Worlds
<1>9. Apart(w, v)
  BY <1>2, <1>3, <1>4, <1>7, <1>8 DEF Apart
<1> QED BY <1>9 DEF v

LEMMA TerminateApart ==
    ASSUME NEW w \in Worlds, NEW t \in Ids, NEW reachable \in BOOLEAN
    PROVE  Apart(w, Terminate(w, t, reachable))
<1> DEFINE w1 == Ended(w, t)
           w2 == [w1 EXCEPT !.refresher.pending = FALSE]
           keep == FALSE
           w3 == Refresh(w2, keep, w.refresher.expires, reachable)
           w4 == [w3 EXCEPT !.told = [code |-> "lost", retry |-> FALSE]]
           v  == Terminate(w, t, reachable)
<1>1. v \in {w, w1, w2, w3, w4}
  BY Zenon DEF Terminate
<1>2. v \in Worlds /\ t \in Nat /\ w.refresher.expires \in {0, 1}
  BY TerminateWorld, NonInviteAssumption DEF Ids, Worlds, Refreshers
<1> HIDE DEF v
<1>3. w1 \in Worlds /\ w1.channel = w.channel
  BY <1>2, EndedFacts
<1> HIDE DEF w1
<1>4. w2 \in Worlds /\ w2.channel = w.channel
  BY <1>3 DEF Worlds, Refreshers
<1>5. keep \in BOOLEAN
  OBVIOUS
<1> HIDE DEF w2, keep
<1>6. Apart(w2, w3)
  BY <1>2, <1>4, <1>5, RefreshApart
<1> HIDE DEF w3
<1>7. w4.channel = w3.channel
  BY <1>6 DEF Apart, Worlds
<1> HIDE DEF w4
<1>8. Apart(w, v)
  BY <1>1, <1>2, <1>3, <1>4, <1>6, <1>7 DEF Apart
<1> QED BY <1>8 DEF v

LEMMA StopApart ==
    ASSUME NEW w \in Worlds, Within(w), NEW reachable \in BOOLEAN
    PROVE  Apart(w, Stop(w, reachable))
<1> DEFINE w1 == [w EXCEPT !.refresher.timer = "none"]
           c  == w.refresher.current
           w2 == IF Transient(Current(w).state) THEN Terminate(w1, c, reachable) ELSE w1
           v  == Stop(w, reachable)
<1>1. w1 \in Worlds /\ w1.channel = w.channel /\ c \in Ids
  BY CurrentId DEF Worlds, Refreshers
<1>2. v = Stopped(w2)
  BY DEF Stop
<1> HIDE DEF w1, v, c
<1>3. Apart(w1, Terminate(w1, c, reachable))
  BY <1>1, TerminateApart
<1>4. w2 \in Worlds /\ (w.channel.state # "none" => w2.channel = w.channel)
  BY <1>1, <1>3 DEF Apart
<1> HIDE DEF w2
<1>5. v \in Worlds /\ v.channel = w2.channel
  BY <1>2, <1>4 DEF Stopped, Worlds, Refreshers
<1> QED BY <1>4, <1>5 DEF Apart, v

LEMMA TimeoutApart ==
    ASSUME NEW w \in Worlds, Within(w), NEW app \in AnyReaction
    PROVE  Apart(w, ProcessTimeout(w, app))
<1> DEFINE x   == IF w.refresher.started THEN Schedule(w, "retry") ELSE w
           new == [code |-> "408", retry |-> w.refresher.started]
           w1  == [x EXCEPT !.told = new]
           v   == ProcessTimeout(w, app)
<1>1. x \in Worlds /\ x.channel = w.channel /\ Within(x)
  BY DEF Schedule, Worlds, Refreshers, Within
<1>2. v = IF app.stops THEN Stop(w1, app.reachable) ELSE w1
  BY Zenon DEF ProcessTimeout, Tell
<1>3. new \in [code : Codes, retry : BOOLEAN] /\ app.reachable \in BOOLEAN
  BY DEF Codes, Worlds, Refreshers, AnyReaction
<1> HIDE DEF x, new, v
<1>4. w1 \in Worlds /\ w1.channel = w.channel /\ Within(w1)
  BY <1>1, <1>3 DEF Worlds, Within
<1> HIDE DEF w1
<1>5. Apart(w1, Stop(w1, app.reachable))
  BY <1>3, <1>4, StopApart
<1>6. Apart(w, v)
  BY <1>2, <1>4, <1>5 DEF Apart
<1> QED BY <1>6 DEF v

LEMMA ErrorStays ==
    ASSUME WatchInv, Next, channel.state = "error",
           ~\E app \in Reactions : ErrorNotified(app)
    PROVE  channel'.state = "error"
<1>1. /\ Now \in Worlds /\ Now.channel = channel /\ Within(Now)
      /\ Now.refresher = refresher /\ Now.transactions = transactions
      /\ transactions \in [Ids -> Transaction] /\ refresher.expires \in {0, 1}
      /\ Reactions \subseteq AnyReaction /\ Reachability \subseteq BOOLEAN
  BY NowFacts DEF Worlds, Refreshers, WatchInv
<1>2. ASSUME NEW v, Become(v), v.channel = channel
      PROVE  channel'.state = "error"
  BY <1>2 DEF Become
<1>3. ASSUME NEW w, w.channel = channel, NEW v, Apart(w, v), Become(v)
      PROVE  channel'.state = "error"
  BY <1>2, <1>3 DEF Apart
<1>4. ASSUME NEW t \in Ids, Provisional(t)
      PROVE  channel'.state = "error"
  BY <1>4 DEF Provisional, Answerable
<1>5. ASSUME NEW t \in Ids, NEW code \in Answers, NEW allowed \in BOOLEAN,
             NEW app \in Reactions, Final(t, code, allowed, app)
      PROVE  channel'.state = "error"
  BY <1>5 DEF Final, Answerable
<1>6. ASSUME NEW t \in Ids, TimerF(t)
      PROVE  channel'.state = "error"
  <2> DEFINE w == [Now EXCEPT !.transactions[t].timers = @ \ {"F"}]
  <2>1. w \in Worlds /\ w.channel = channel /\ w.refresher = refresher
    <3> DEFINE new == [transactions[t] EXCEPT !.timers = @ \ {"F"}]
               x   == [Now EXCEPT !.transactions[t] = new]
    <3>1. new \in Transaction
      <4>1. transactions[t] \in Transaction
        BY <1>1
      <4> QED BY <4>1 DEF Transaction
    <3>2. w = x
      BY <1>1 DEF Worlds
    <3> HIDE DEF new
    <3>3. x \in Worlds /\ x.refresher = Now.refresher /\ x.channel = Now.channel
      BY <1>1, <3>1, Touched
    <3> HIDE DEF x, w
    <3> QED BY <1>1, <3>2, <3>3
  <2>2. \/ Become(w)
        \/ \E quiet \in BOOLEAN : Become(ReportDeadChannel(w, t, quiet))
        \/ \E app \in Reactions :
              Become(Terminate(IF t = refresher.current THEN ProcessTimeout(w, app)
                               ELSE w, t, app.reachable))
    BY <1>6 DEF TimerF, w
  <2> HIDE DEF w
  <2>3. ASSUME NEW app \in Reactions,
               Become(Terminate(IF t = refresher.current THEN ProcessTimeout(w, app)
                                ELSE w, t, app.reachable))
        PROVE  channel'.state = "error"
    <3> DEFINE u == IF t = refresher.current THEN ProcessTimeout(w, app) ELSE w
               v == Terminate(u, t, app.reachable)
    <3>1. app \in AnyReaction /\ app.reachable \in BOOLEAN /\ Within(w)
      BY <1>1, <2>1 DEF AnyReaction, Within
    <3>2. Apart(w, ProcessTimeout(w, app))
      BY <2>1, <3>1, TimeoutApart
    <3>3. u \in Worlds /\ u.channel = channel
      BY <2>1, <3>2 DEF Apart
    <3>4. Become(v)
      BY <2>3
    <3> HIDE DEF u
    <3>5. Apart(u, v)
      BY <3>1, <3>3, TerminateApart
    <3> HIDE DEF v
    <3> QED BY <1>3, <3>3, <3>4, <3>5
  <2>4. \A quiet \in BOOLEAN : ReportDeadChannel(w, t, quiet) = w
    BY <2>1 DEF ReportDeadChannel
  <2> QED BY <1>2, <2>1, <2>2, <2>3, <2>4
<1>7. ASSUME NEW t \in Ids, NEW reachable \in Reachability, TimerK(t, reachable)
      PROVE  channel'.state = "error"
  <2> DEFINE v == Terminate(Now, t, reachable)
  <2>1. Apart(Now, v)
    BY <1>1, TerminateApart
  <2>2. Become(v)
    BY <1>7 DEF TimerK
  <2> HIDE DEF v
  <2> QED BY <1>1, <1>3, <2>1, <2>2
<1>8. ~(ConnectNext \/ Connected \/ ConnectFails \/ Breaks)
  BY DEF ConnectNext, Connected, ConnectFails, Breaks
<1>9. ASSUME NEW reachable \in Reachability, RefreshTimer(reachable)
      PROVE  channel'.state = "error"
  <2> DEFINE keep == FALSE
             w1   == [Now EXCEPT !.refresher.timer = "none"]
             w2   == Refresh(w1, keep, refresher.expires, reachable)
             gone == [w1 EXCEPT !.told = [code |-> "expiring", retry |-> FALSE]]
             last == Schedule(w2, "retry")
  <2>1. Become(gone) \/ Become(w2) \/ Become(last)
    BY <1>9, Zenon DEF RefreshTimer
  <2>2. w1 \in Worlds /\ w1.channel = channel /\ keep \in BOOLEAN
    BY <1>1 DEF Worlds, Refreshers
  <2> HIDE DEF keep, w1
  <2>3. Apart(w1, w2)
    BY <1>1, <2>2, RefreshApart
  <2> HIDE DEF w2
  <2>4. gone.channel = channel /\ w2.channel = channel /\ last.channel = channel
    BY <2>2, <2>3 DEF Apart, Schedule, Worlds
  <2> HIDE DEF gone, last
  <2> QED BY <1>2, <2>1, <2>4
<1>10. ASSUME NEW keep \in BOOLEAN, NEW expires \in {0, 1},
              NEW reachable \in Reachability, Asked(keep, expires, reachable)
       PROVE  channel'.state = "error"
  <2> DEFINE w == Refresh(Now, keep, expires, reachable)
             code == OnFailure(keep, expires)
             x == [w EXCEPT !.told = [code |-> code, retry |-> FALSE]]
  <2>1. Become(w) \/ Become(x)
    BY <1>10, Zenon DEF Asked
  <2>2. Apart(Now, w)
    BY <1>1, RefreshApart
  <2> HIDE DEF w
  <2>3. w.channel = channel /\ x.channel = channel
    BY <1>1, <2>2 DEF Apart, Worlds
  <2> HIDE DEF x
  <2> QED BY <1>2, <2>1, <2>3
<1>11. ASSUME NEW reachable \in Reachability, AppStop(reachable)
       PROVE  channel'.state = "error"
  <2> DEFINE v == Stop(Now, reachable)
  <2>1. Apart(Now, v)
    BY <1>1, StopApart
  <2>2. Become(v)
    BY <1>11 DEF AppStop
  <2> HIDE DEF v
  <2> QED BY <1>1, <1>3, <2>1, <2>2
<1>12. ASSUME NEW reachable \in Reachability, NEW expires \in {0, 1},
              AppRefresh(expires, reachable)
       PROVE  channel'.state = "error"
  <2> DEFINE keep == FALSE
  <2>1. keep \in BOOLEAN /\ Asked(keep, expires, reachable)
    BY <1>12 DEF AppRefresh
  <2> HIDE DEF keep
  <2> QED BY <1>10, <2>1
<1>13. ASSUME NEW reachable \in Reachability, AppAuthenticate(reachable)
       PROVE  channel'.state = "error"
  <2> DEFINE keep == TRUE
             expires == 0
  <2>1. keep \in BOOLEAN /\ expires \in {0, 1} /\ Asked(keep, expires, reachable)
    BY <1>13 DEF AppAuthenticate
  <2> HIDE DEF keep, expires
  <2> QED BY <1>10, <2>1
<1>14. MainLoop => channel'.state = "error"
  BY <1>4, <1>5, <1>6, <1>7, <1>8, <1>9 DEF MainLoop, Due
<1>15. Application => channel'.state = "error"
  BY <1>11, <1>12, <1>13 DEF Application
<1> QED BY <1>14, <1>15 DEF Next

-----------------------------------------------------------------------------
LEMMA StepTends == WatchInv /\ [Next]_vars => Tended(Now)'
<1> SUFFICES ASSUME WatchInv, [Next]_vars
             PROVE  Tended(Now)'
  OBVIOUS
<1>0. Reachability \subseteq BOOLEAN
  BY NowFacts DEF WatchInv
<1>1. CASE MainLoop
  <2>1. UNCHANGED settings
    BY <1>1 DEF MainLoop
  <2>2. ASSUME NEW t \in Ids, Provisional(t) PROVE Tended(Now)'
    BY <2>1, <2>2, ProvisionalTends
  <2>3. ASSUME NEW t \in Ids, NEW code \in Answers, NEW allowed \in BOOLEAN,
               NEW app \in Reactions, Final(t, code, allowed, app)
        PROVE  Tended(Now)'
    BY <2>1, <2>3, FinalTends
  <2>4. ASSUME NEW t \in Ids, TimerF(t) PROVE Tended(Now)'
    BY <2>1, <2>4, TimerFTends
  <2>5. ASSUME NEW t \in Ids, NEW reachable \in Reachability, TimerK(t, reachable)
        PROVE  Tended(Now)'
    BY <1>0, <2>1, <2>5, TimerKTends
  <2>6. CASE ConnectNext \/ ConnectFails \/ Breaks
    BY <2>1, <2>6, SetChannelTends
  <2>7. CASE Connected
    BY <2>1, <2>7, ConnectedTends
  <2>8. ASSUME NEW app \in Reactions, ErrorNotified(app) PROVE Tended(Now)'
    BY <2>1, <2>8, ErrorNotifiedTends
  <2>9. ASSUME NEW reachable \in Reachability, RefreshTimer(reachable)
        PROVE  Tended(Now)'
    BY <1>0, <2>1, <2>9, RefreshTimerTends
  <2> QED BY <1>1, <2>2, <2>3, <2>4, <2>5, <2>6, <2>7, <2>8, <2>9 DEF MainLoop, Due
<1>2. CASE Application
  <2>1. UNCHANGED settings
    BY <1>2 DEF Application
  <2>2. ASSUME NEW reachable \in Reachability, NEW expires \in {0, 1},
               AppRefresh(expires, reachable)
        PROVE  Tended(Now)'
    BY <1>0, <2>1, <2>2, AppRefreshTends
  <2>3. ASSUME NEW reachable \in Reachability, AppAuthenticate(reachable)
        PROVE  Tended(Now)'
    BY <1>0, <2>1, <2>3, AppAuthenticateTends
  <2>4. ASSUME NEW reachable \in Reachability, AppStop(reachable)
        PROVE  Tended(Now)'
    BY <1>0, <2>1, <2>4, AppStopTends
  <2> QED BY <1>2, <2>2, <2>3, <2>4 DEF Application
<1>3. CASE UNCHANGED vars
  <2>1. Tended(Now)
    BY DEF WatchInv
  <2> QED BY <1>3, <2>1 DEF vars, settings, world, Tended, Steady, Watched, Excused,
              EndPending, Ending, Waiting, Current, Now
<1> QED BY <1>1, <1>2, <1>3 DEF Next

\* A request is under way, a timer is on or the application knows (Watched),
\* which timer K, the errors and a delayed PUBLISH do not undo (Steady,
\* EndPending).
THEOREM WatchInvariant == Spec => []WatchInv
<1>1. Init => WatchInv
  BY InitKeeps, InitTends DEF WatchInv
<1>2. WatchInv /\ [Next]_vars => WatchInv'
  BY StepKeeps, StepTends DEF WatchInv
<1> QED BY <1>1, <1>2, PTL DEF Spec

\* Each way out of process_response_event, process_timeout and
\* process_io_error, and the end of the transaction after them, sends a
\* request, arms the timer or tells the application, for every sequence of
\* answers, errors and calls: no registration runs out unnoticed.
THEOREM NeverSilent == Spec => []NoSilentStop
<1>1. WatchInv => NoSilentStop
  BY NowFacts DEF WatchInv, Tended, Watched, Excused, Waiting, NoSilentStop, Running
<1> QED BY <1>1, WatchInvariant, PTL

\* Where the listener is told will_retry and goes on, schedule_timer_at was
\* called before, or the new request is out already.
THEOREM RetryIsKept == Spec => []PromisedRetry
<1>1. WatchInv => PromisedRetry
  BY NowFacts DEF WatchInv, Tended, Watched, Excused, Waiting, PromisedRetry, Running
<1> QED BY <1>1, WatchInvariant, PTL

\* Over a reliable transport process_io_error finds the request of a channel
\* that is given up, whether it waits, runs or was answered.
THEOREM LostConnectionIsRetried == Spec => LostConnectionRetried
<1> DEFINE Retry ==
        reliable /\ channel.state = "error" /\ channel'.state # "error"
            /\ transactions[refresher.current].linked
            /\ refresher.started /\ refresher'.started
            => \/ refresher'.timer = "retry"
               \/ refresher'.current # refresher.current
<1>1. WatchInv /\ [Next]_vars => [Retry]_vars
  <2> SUFFICES ASSUME WatchInv, Next, channel.state = "error",
                      channel'.state # "error", reliable, refresher'.started,
                      transactions[refresher.current].linked
               PROVE  \/ refresher'.timer = "retry"
                      \/ refresher'.current # refresher.current
    OBVIOUS
  <2>1. CASE \E app \in Reactions : ErrorNotified(app)
    <3>1. UNCHANGED settings
      BY DEF Next, MainLoop, Application
    <3> QED BY <2>1, <3>1, ErrorNotifiedTends
  <2>2. CASE ~\E app \in Reactions : ErrorNotified(app)
    BY <2>2, ErrorStays
  <2> QED BY <2>1, <2>2
<1>2. [][Retry]_vars => LostConnectionRetried
  BY DEF LostConnectionRetried
<1> HIDE DEF Retry
<1> QED BY <1>1, <1>2, WatchInvariant, PTL DEF Spec

\* Only calls of the application and the end of a request send and schedule:
\* a stopped refresher that has none under way does neither, whatever its old
\* transactions and its channel bring.
THEOREM StoppedIsLeftAlone == Spec => StoppedStaysQuiet
<1> DEFINE Left ==
        MainLoop /\ ~refresher.started /\ refresher.timer = "none" /\ ~Running
            => /\ refresher'.current = refresher.current
               /\ refresher'.timer = "none"
<1>1. WatchInv /\ [Next]_vars => [Left]_vars
  BY StoppedIsQuiet
<1>2. [][Left]_vars => StoppedStaysQuiet
  BY DEF StoppedStaysQuiet
<1> HIDE DEF Left
<1> QED BY <1>1, <1>2, WatchInvariant, PTL DEF Spec
=============================================================================
