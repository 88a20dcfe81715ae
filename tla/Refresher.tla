----------------------------- MODULE Refresher -----------------------------
(***************************************************************************)
(* A refresher of belle-sip (refresher.c) and the application above it: it *)
(* keeps a registration or a publication alive by sending a REGISTER or a  *)
(* PUBLISH again before it expires, and by retrying after a failure.       *)
(*                                                                         *)
(* SUBSCRIBE, whose refreshes go through a dialog, is not modelled.        *)
(***************************************************************************)
EXTENDS NonInviteClient

CONSTANT
    Methods   \* the methods the refresher may be of

ASSUME MethodsAssumption ==
    Methods \subseteq {"REGISTER", "PUBLISH"}

VARIABLES
    method,      \* of the refreshed request
    reliable,    \* belle_sip_channel_is_reliable
    manual,      \* refresher->manual
    refresher,   \* the refresher
    told,        \* history: what was last reported since the last request
    asked        \* history: the expiry the application asked for last

settings == <<method, reliable, manual>>
world    == <<transactions, channel, refresher, told>>
vars     == <<settings, world, asked>>

-----------------------------------------------------------------------------
\* What the listener, or the caller of belle_sip_refresher_refresh, was told:
\* the status and will_retry.  "refused" is a call that returned -1, "lost" a
\* refresh that failed when nobody looked at its result.
Nothing == [code |-> "none", retry |-> FALSE]

\* Finals by what process_response_event does with them; one status stands
\* for all that are treated alike.
Answers == {"200", "200nat", "301", "401", "423", "491", "500", "501", "503"}

\* What follows also depends on the credentials, the contact or the Min-Expires.
Conditional == {"301", "401", "423"}

Codes == Answers \cup {"none", "refused", "lost", "expiring", "io", "408"}

RefresherRecord ==
    [started : BOOLEAN, timer : {"none", "normal", "retry"}, expires : {0, 1},
     challenged : BOOLEAN, ioError : BOOLEAN, pending : BOOLEAN,
     current : Ids]

TypeOK ==
    /\ method \in Methods /\ reliable \in BOOLEAN /\ manual \in BOOLEAN
    /\ transactions \in [Ids -> Transaction]
    /\ channel \in Channel
    /\ refresher \in RefresherRecord
    /\ told \in [code : Codes, retry : BOOLEAN]
    /\ asked \in {0, 1}

\* SalOp::sendRequestAndCreateRefresher: the refresher takes over a request
\* whose transaction waits for its channel or was just sent.
Init ==
    /\ method \in Methods /\ reliable \in BOOLEAN /\ manual \in BOOLEAN
    /\ channel \in [state : {"connecting", "ready"}, left : {Alternates}]
    /\ transactions =
         [t \in Ids |-> IF t # 1 THEN Unused
            ELSE LET sent == [Unused EXCEPT !.state = "INIT", !.linked = TRUE,
                                            !.expires = 1]
                 IN  IF channel.state = "ready" THEN NictSend(sent) ELSE sent]
    /\ refresher = [started |-> TRUE, timer |-> "none", expires |-> 1,
                    challenged |-> FALSE, ioError |-> FALSE, pending |-> FALSE,
                    current |-> 1]
    /\ told = Nothing
    /\ asked = 1

-----------------------------------------------------------------------------
(***************************************************************************)
(* The functions of refresher.c, from world to world.                      *)
(***************************************************************************)
Now == [transactions |-> transactions, channel |-> channel,
        refresher |-> refresher, told |-> told]

\* The step of a handler that ends in w.
Become(w) ==
    /\ w.refresher.current <= MaxRequests
    /\ transactions' = w.transactions
    /\ channel' = w.channel
    /\ refresher' = w.refresher
    /\ told' = w.told

Current(w) == w.transactions[w.refresher.current]

\* schedule_timer_at
Schedule(w, purpose) == [w EXCEPT !.refresher.timer = purpose]

\* The end of belle_sip_refresher_stop_internal
Stopped(w) == [w EXCEPT !.refresher.timer = "none",
                        !.refresher.started = FALSE]

\* A new PUBLISH waits for the end of the one that is running.
Delayed(w) == method = "PUBLISH" /\ Transient(Current(w).state)

\* belle_sip_refresher_refresh_internal returns 0
RefreshSucceeds(w, authorized, reachable) ==
    Delayed(w) \/ (authorized /\ HasChannel(w, reachable))

\* Mutant: the request is sent again with the expiry it had.
ReplacedAsItWas(w) ==
    LET old == w.refresher.current
        w1  == IF Current(w).state \in {"INIT", "TRYING"} THEN Ended(w, old)
                                                          ELSE w
    IN  [w1 EXCEPT
            !.transactions[old + 1] =
                [Unused EXCEPT !.state = "INIT", !.expires = Current(w).expires],
            !.refresher.current = old + 1,
            !.refresher.ioError = FALSE,
            !.told = Nothing]

\* The new transaction of belle_sip_refresher_refresh_internal replaces the
\* old one, which is terminated if nobody answered it yet.
Replaced(w) ==
    LET old == w.refresher.current
        w1  == IF Current(w).state \in {"INIT", "TRYING"} THEN Ended(w, old)
                                                          ELSE w
    IN  [w1 EXCEPT
            !.transactions[old + 1] =
                [Unused EXCEPT !.state = "INIT", !.expires = w.refresher.expires],
            !.refresher.current = old + 1,
            !.refresher.ioError = FALSE,
            !.told = Nothing]

\* belle_sip_refresher_refresh_internal; expires = -1 keeps the last value.
RefreshInternal(w, keep, expires, authorized, reachable) ==
    LET w1 == [w EXCEPT !.refresher.expires = IF keep THEN @ ELSE expires]
        w2 == Replaced(w1)
        w3 == SendRequest(w2, w2.refresher.current, reachable)
    IN  IF Delayed(w) THEN [w1 EXCEPT !.refresher.pending = TRUE]
        ELSE IF ~authorized THEN w1
        ELSE IF ~keep /\ expires = 0 /\ HasChannel(w, reachable)
             THEN Stopped(w3) ELSE w3

\* Mutant: a retry that was scheduled is not cancelled.
RefreshUncancelled(w, keep, expires, reachable) ==
    RefreshInternal([w EXCEPT !.refresher.challenged = FALSE],
                    keep, expires, TRUE, reachable)

\* belle_sip_refresher_refresh
Refresh(w, keep, expires, reachable) ==
    RefreshInternal([w EXCEPT !.refresher.timer = "none",
                              !.refresher.challenged = FALSE],
                    keep, expires, TRUE, reachable)

\* belle_sip_transaction_terminate with process_transaction_terminated: the
\* end of the current transaction lets a delayed PUBLISH go.
Terminate(w, t, reachable) ==
    LET w1 == Ended(w, t)
        w2 == [w1 EXCEPT !.refresher.pending = FALSE]
        w3 == Refresh(w2, FALSE, w.refresher.expires, reachable)
    IN  IF w.transactions[t].state = "TERMINATED" THEN w
        ELSE IF t # w.refresher.current THEN w1
        ELSE IF ~(w.refresher.pending /\ w.refresher.started) THEN w2
        ELSE IF HasChannel(w, reachable) THEN w3
        ELSE [w3 EXCEPT !.told = [code |-> "lost", retry |-> FALSE]]

\* belle_sip_refresher_stop
Stop(w, reachable) ==
    LET w1 == [w EXCEPT !.refresher.timer = "none"]
    IN  Stopped(IF Transient(Current(w).state)
                THEN Terminate(w1, w.refresher.current, reachable) ELSE w1)

\* refresher->listener: the application may stop the refresher inside it
\* (LinphoneEvent on PublishError, linphone_event_set_publish_state).
Tell(w, code, retry, app) ==
    LET w1 == [w EXCEPT !.told = [code |-> code, retry |-> retry]]
    IN  IF app.stops THEN Stop(w1, app.reachable) ELSE w1

\* Whether a channel can be had if one has to be made, which is only asked
\* once the last one is gone.
Reachability == IF channel.state \in {"none", "error"} THEN BOOLEAN ELSE {TRUE}

\* What the application may do inside the listener.
Reactions == [stops : BOOLEAN, reachable : Reachability]

\* Mutant: a transaction that is over is taken for one the error will reach.
OnlyCompletedLost(w, app) ==
    IF /\ ~w.refresher.ioError /\ w.refresher.started
       /\ Current(w).state = "COMPLETED" /\ Current(w).linked
    THEN [Tell(Schedule(w, "retry"), "io", TRUE, app)
              EXCEPT !.refresher.ioError = TRUE]
    ELSE w

\* Mutant: a refresher that was stopped reconnects too.
StoppedReconnects(w, app) ==
    IF /\ ~w.refresher.ioError
       /\ Current(w).state = "TERMINATED" /\ Current(w).linked
    THEN [Tell(Schedule(w, "retry"), "io", TRUE, app)
              EXCEPT !.refresher.ioError = TRUE]
    ELSE w

\* process_io_error with the provider as its source: the current transaction
\* is over but its channel just died.
ProcessProviderIoError(w, app) ==
    IF /\ ~w.refresher.ioError /\ w.refresher.started
       /\ Current(w).state = "TERMINATED" /\ Current(w).linked
    THEN [Tell(Schedule(w, "retry"), "io", TRUE, app)
              EXCEPT !.refresher.ioError = TRUE]
    ELSE w

\* process_io_error of the current transaction
ProcessTransactionIoError(w, app) ==
    LET involved == Current(w).state \in {"INIT", "TRYING"}
        w1       == IF w.refresher.started THEN Schedule(w, "retry") ELSE w
    IN  IF \/ w.refresher.ioError
           \/ ~w.refresher.started /\ ~involved
           \/ w.refresher.expires = 0 /\ ~involved
        THEN w
        ELSE Tell(w1, "io", w.refresher.started, app)

\* process_timeout of the current transaction
ProcessTimeout(w, app) ==
    Tell(IF w.refresher.started THEN Schedule(w, "retry") ELSE w,
         "408", w.refresher.started, app)

-----------------------------------------------------------------------------
(***************************************************************************)
(* process_response_event of the current transaction, by status code.      *)
(***************************************************************************)
\* Mutant: a success that is reported does not arm the timer again.
SuccessNotRearmed(w, nat, app) ==
    LET w1 == [w EXCEPT !.refresher.challenged = FALSE,
                        !.refresher.expires = Current(w).expires]
        w2 == IF w1.refresher.expires = 0 THEN Stop(w1, app.reachable) ELSE w1
    IN  IF ~w2.refresher.started \/ ~nat THEN Tell(w2, "200", TRUE, app)
        ELSE Refresh(w2, FALSE, w2.refresher.expires, app.reachable)

\* 2xx: the expiry is taken from the request that was answered.  nat says that
\* its contact turned out wrong, so that it is sent again at once.
ProcessSuccess(w, nat, app) ==
    LET w1 == [w EXCEPT !.refresher.challenged = FALSE,
                        !.refresher.expires = Current(w).expires]
        w2 == IF w1.refresher.expires = 0 THEN Stop(w1, app.reachable) ELSE w1
    IN  IF ~w2.refresher.started THEN Tell(w2, "200", TRUE, app)
        ELSE IF nat
             THEN Refresh(w2, FALSE, w2.refresher.expires, app.reachable)
             ELSE Tell(Schedule(w2, "normal"), "200", TRUE, app)

\* 401 and 407: with credentials the request is sent again once, without a
\* word to the application.
ProcessChallenge(w, authorized, app) ==
    LET again   == w.refresher.challenged
        w1      == [w EXCEPT !.refresher.challenged = ~again]
        later   == IF w.refresher.expires > 0 THEN Schedule(w1, "retry") ELSE w1
        resent  == RefreshInternal(w1, FALSE, w1.refresher.expires, authorized,
                                   app.reachable)
    IN  IF again THEN Tell(later, "401", TRUE, app)
        ELSE IF RefreshSucceeds(w1, authorized, app.reachable) THEN resent
             ELSE Tell(resent, "401", TRUE, app)

\* 301 and 302, usable says that the contact can be followed.
ProcessRedirection(w, usable, app) ==
    IF usable /\ RefreshSucceeds(w, TRUE, app.reachable)
    THEN RefreshInternal(w, FALSE, w.refresher.expires, TRUE, app.reachable)
    ELSE Tell(w, "301", TRUE, app)

\* 423, usable says that a Min-Expires came with it.
ProcessTooBrief(w, usable, app) ==
    IF usable /\ w.refresher.started
    THEN Refresh([w EXCEPT !.refresher.expires = 1], FALSE, 1, app.reachable)
    ELSE Tell(w, "423", FALSE, app)

\* 491, and 412 to a PUBLISH: retried without a word.
ProcessPending(w, app) ==
    IF w.refresher.expires > 0 THEN Schedule(w, "retry")
                               ELSE Tell(w, "491", FALSE, app)

\* Mutant: a failure after a final answer promises a retry and arms nothing.
FailureNotRetried(w, code, app) == Tell(w, code, TRUE, app)

\* Every other failure: retried as long as there is something to refresh.
ProcessFailure(w, code, app) ==
    IF w.refresher.expires > 0 THEN Tell(Schedule(w, "retry"), code, TRUE, app)
                               ELSE Tell(w, code, FALSE, app)

\* allowed: the credentials, the contact or the Min-Expires the answer needs.
ProcessResponse(w, code, allowed, app) ==
    CASE code = "200"             -> ProcessSuccess(w, FALSE, app)
      [] code = "200nat"          -> ProcessSuccess(w, TRUE, app)
      [] code = "301"             -> ProcessRedirection(w, allowed, app)
      [] code = "401"             -> ProcessChallenge(w, allowed, app)
      [] code = "423"             -> ProcessTooBrief(w, allowed, app)
      [] code = "491"             -> ProcessPending(w, app)
      [] code = "501"             -> Tell(w, code, FALSE, app)
      [] code \in {"500", "503"}  -> ProcessFailure(w, code, app)

-----------------------------------------------------------------------------
(***************************************************************************)
(* The turns of the main loop: what a transaction meets.                   *)
(***************************************************************************)
Answerable(t) ==
    /\ transactions[t].linked /\ channel.state = "ready"
    /\ transactions[t].state \in {"TRYING", "PROCEEDING"}

\* nict_on_response of a provisional response; a second one is ignored.  The
\* listener hears of the first, and no application acts on it.
Provisional(t) ==
    /\ Answerable(t)
    /\ transactions[t].state = "TRYING"
    /\ Become([Now EXCEPT !.transactions[t].state = "PROCEEDING"])

\* nict_set_completed, with belle_sip_client_transaction_notify_response: a
\* 500 to a REGISTER is held against the server's address.
Final(t, code, allowed, app) ==
    LET w1 == [Now EXCEPT !.transactions[t].state = "COMPLETED"]
        w2 == IF t = refresher.current
              THEN ProcessResponse(w1, code, allowed, app) ELSE w1
        w3 == IF code = "500" /\ method = "REGISTER"
              THEN [w2 EXCEPT !.channel = ChannelError(@, TRUE)] ELSE w2
    IN  /\ Answerable(t)
        /\ allowed => code \in Conditional
        /\ Become(IF reliable THEN Terminate(w3, t, app.reachable)
                  ELSE [w3 EXCEPT !.transactions[t].timers = @ \cup {"K"}])

\* nict_on_timer_F, with belle_sip_transaction_notify_timeout
TimerF(t) ==
    LET w == [Now EXCEPT !.transactions[t].timers = @ \ {"F"}]
        Reported(app) ==
            IF t = refresher.current THEN ProcessTimeout(w, app) ELSE w
    IN  /\ "F" \in transactions[t].timers
        /\ \/ /\ ~Transient(transactions[t].state)
              /\ Become(w)
           \/ /\ Transient(transactions[t].state) /\ method = "REGISTER"
              /\ \E quiet \in BOOLEAN : Become(ReportDeadChannel(w, t, quiet))
           \/ /\ Transient(transactions[t].state) /\ method # "REGISTER"
              /\ \E app \in Reactions :
                    Become(Terminate(Reported(app), t, app.reachable))

\* nict_on_timer_K
TimerK(t, reachable) ==
    /\ "K" \in transactions[t].timers
    /\ Become(Terminate(Now, t, reachable))

-----------------------------------------------------------------------------
(***************************************************************************)
(* The channel.                                                            *)
(***************************************************************************)
SetChannel(c) == Become([Now EXCEPT !.channel = c])

\* channel_connect_next
ConnectNext ==
    /\ channel.state = "retry"
    /\ SetChannel([channel EXCEPT !.state = "connecting"])

Connected ==
    /\ channel.state = "connecting"
    /\ Become([Now EXCEPT !.channel.state = "ready",
                          !.transactions = SentWhenReady(transactions)])

\* A connection attempt, or a name resolution, that fails; a connection that
\* breaks.
ConnectFails ==
    /\ channel.state = "connecting"
    /\ SetChannel(ChannelError(channel, FALSE))

Breaks ==
    /\ channel.state = "ready"
    /\ SetChannel(ChannelError(channel, FALSE))

\* channel_notify_error_to_listeners: the provider comes first, and releases
\* the channel, then the transactions, the oldest first.
ErrorNotified(app) ==
    LET c  == refresher.current
        w1 == [ProcessProviderIoError(Now, app) EXCEPT
                  !.channel = [state |-> "none", left |-> Alternates]]
        w2 == [w1 EXCEPT !.transactions = EndedByError(@, c)]
        w3 == IF transactions[c].state \in {"COMPLETED", "TERMINATED"} THEN w2
              ELSE ProcessTransactionIoError(w2, app)
        w4 == IF transactions[c].timedOut /\ w3.refresher.current = c
              THEN ProcessTimeout(w3, app) ELSE w3
        w5 == [Terminate(w4, c, app.reachable) EXCEPT
                  !.transactions[c].linked = FALSE]
    IN  /\ channel.state = "error"
        /\ Become(IF transactions[c].linked THEN w5 ELSE w2)

-----------------------------------------------------------------------------
(***************************************************************************)
(* The refresher's timer and the application.                              *)
(***************************************************************************)
\* timer_cb
RefreshTimer(reachable) ==
    LET w1 == [Now EXCEPT !.refresher.timer = "none"]
        w2 == Refresh(w1, FALSE, refresher.expires, reachable)
    IN  /\ refresher.timer # "none"
        /\ Become(IF refresher.timer = "normal" /\ manual
                  THEN [w1 EXCEPT !.told = [code |-> "expiring", retry |-> FALSE]]
                  ELSE IF RefreshSucceeds(Now, TRUE, reachable) THEN w2
                  ELSE Schedule(w2, "retry"))

\* A call of belle_sip_refresher_refresh that fails returns -1.  publish,
\* refreshRegister and unregister hand that to the application; unpublish
\* and authenticate drop it.
OnFailure(keep, expires) ==
    IF ~keep /\ (expires # 0 \/ method = "REGISTER") THEN "refused" ELSE "lost"

Asked(keep, expires, reachable) ==
    LET w    == Refresh(Now, keep, expires, reachable)
        code == OnFailure(keep, expires)
    IN  Become(IF RefreshSucceeds(Now, TRUE, reachable) THEN w
               ELSE [w EXCEPT !.told = [code |-> code, retry |-> FALSE]])

\* SalRegisterOp::refreshRegister and unregister, SalPublishOp::publish and
\* unpublish.  A publication may be updated after it was paused.
AppRefresh(expires, reachable) ==
    /\ refresher.started \/ method = "PUBLISH"
    /\ Asked(FALSE, expires, reachable)
    /\ asked' = expires

\* SalRegisterOp::authenticate
AppAuthenticate(reachable) ==
    /\ told.code = "401"
    /\ Asked(TRUE, 0, reachable)
    /\ UNCHANGED asked

\* SalOp::stopRefreshing and release
AppStop(reachable) ==
    /\ refresher.started
    /\ Become(Stop(Now, reachable))
    /\ UNCHANGED asked

-----------------------------------------------------------------------------
\* What the main loop owes whatever the network and the application do: the
\* timers that are due, the deferred calls, the end of a connection attempt.
Due ==
    \/ \E t \in Ids : TimerF(t)
    \/ \E t \in Ids, reachable \in Reachability : TimerK(t, reachable)
    \/ ConnectNext \/ Connected \/ ConnectFails
    \/ \E app \in Reactions : ErrorNotified(app)

MainLoop ==
    /\ UNCHANGED <<settings, asked>>
    /\ \/ \E t \in Ids : Provisional(t)
       \/ \E t \in Ids, code \in Answers, allowed \in BOOLEAN,
             app \in Reactions : Final(t, code, allowed, app)
       \/ Due
       \/ Breaks
       \/ \E reachable \in Reachability : RefreshTimer(reachable)

Application ==
    /\ UNCHANGED settings
    /\ \E reachable \in Reachability :
          \/ \E expires \in {0, 1} : AppRefresh(expires, reachable)
          \/ AppAuthenticate(reachable)
          \/ AppStop(reachable)

Next == MainLoop \/ Application

Spec == Init /\ [][Next]_vars

FairSpec == Spec /\ WF_vars(Due /\ UNCHANGED <<settings, asked>>)

-----------------------------------------------------------------------------
(***************************************************************************)
(* Properties.                                                             *)
(***************************************************************************)
\* The current request waits for its channel or for its answer.
Running == Transient(Current(Now).state)

\* A REGISTER whose timer F fired on a channel that is not given up.
Forgotten(t) ==
    /\ method = "REGISTER"
    /\ transactions[t].state \in {"TRYING", "PROCEEDING"}
    /\ "F" \notin transactions[t].timers
    /\ channel.state # "error"

\* A started refresher has a timer or a request under way, or the application
\* heard of something else than success since: whatever the answers, their
\* order and the calls made in between, no registration runs out unnoticed.
\* "lost" is the way it does: process_transaction_terminated, unpublish and
\* authenticate drop the result of a refresh no channel can be had for.
NoSilentStop ==
    refresher.started => \/ refresher.timer # "none"
                         \/ Running
                         \/ told.code \notin {"none", "200"}

\* A retry is never scheduled while a request is under way: each function
\* that sends one cancels the timer, and each that arms it runs at the end of
\* one.
RetryXorRequest == refresher.timer # "none" => ~Running

\* When the listener was told will_retry and the refresher was not stopped,
\* something is scheduled.  301 without a contact and 401 without credentials
\* are left out: process_response_event promises a retry for them and makes
\* none.
PromisedRetry ==
    refresher.started /\ told.retry /\ told.code \notin {"301", "401"}
        => refresher.timer # "none" \/ Running

\* The last REGISTER carries the expiry that was asked for last, whichever
\* answer, retry, challenge or timeout came in between: an application that
\* unregistered is not registered again by a retry.
AskedExpiry ==
    method = "REGISTER" => Current(Now).expires = asked

\* Of a PUBLISH it does not hold: the answer to the one under way brings its
\* own expiry back before the delayed one goes out.
PublishedAsAsked ==
    method = "PUBLISH" /\ ~refresher.pending => Current(Now).expires = asked

\* A REGISTER that times out is reported by its channel.  It is not when the
\* channel is not ready, or received anything during the last minute.
TimeoutReported == \A t \in Ids : ~Forgotten(t)

\* Every request ends: it is answered, times out, or its channel is given up;
\* but for a REGISTER that is forgotten, and as long as a request is left for
\* its end to send.
RequestSettles ==
    \A t \in Ids : Transient(transactions[t].state)
        ~> \/ ~Transient(transactions[t].state)
           \/ Forgotten(t)
           \/ refresher.current = MaxRequests

\* When the connection of the last request is given up, a started refresher
\* retries or has already sent another request, even if the request was
\* answered long ago.  Over UDP an answered request in COMPLETED hides the
\* error: it is neither terminated nor told.
LostConnectionRetried ==
    [][ reliable /\ channel.state = "error" /\ channel'.state # "error"
        /\ transactions[refresher.current].linked
        /\ refresher.started /\ refresher'.started
        => \/ refresher'.timer = "retry"
           \/ refresher'.current # refresher.current ]_vars

\* A refresher that was stopped and has nothing under way sends and schedules
\* nothing, whatever a channel or a timer of an old transaction brings.
StoppedStaysQuiet ==
    [][ MainLoop /\ ~refresher.started /\ refresher.timer = "none" /\ ~Running
        => /\ refresher'.current = refresher.current
           /\ refresher'.timer = "none" ]_vars
=============================================================================
