------------------------------- MODULE PushUrl ------------------------------
(***************************************************************************)
(* Music Assistant's push-url callbacks for one Alexa player of one home   *)
(* (ma/router.py, ma_push_url), together with the Worker's playback        *)
(* handoff (connectors.ts) and the playback-start watch it registers.      *)
(*                                                                         *)
(* Callbacks without an Alexa request behind them first try to wake the    *)
(* skill and wait for a new probe.  Then one start attempt at a time runs  *)
(* under the player's lock: hand off to the Worker, poll until the device  *)
(* fetched the stream or reported playback, read the player back, cache    *)
(* the result so that duplicates within 8 s reuse it.                      *)
(*                                                                         *)
(* A callback that is not about an Alexa device has Music Assistant play   *)
(* the URL on the player itself (PlayerHandoff), in edge mode the one of a *)
(* Worker handoff.  A step is a callback's run between two awaits.         *)
(***************************************************************************)
EXTENDS PlaybackStart, Naturals, Sequences

CONSTANTS
    Callbacks,      \* push-url requests
    MaxProbes,      \* bound on the Alexa probes that arrive (main.py)
    MediaAttempts   \* see PlayerHandoff

ASSUME MaxProbesIsNat == MaxProbes \in Nat
ASSUME MediaAttemptsIsNat == MediaAttempts \in Nat
ASSUME NoneIsNobody == None \notin Callbacks \cup Sessions

VARIABLES
    pc,         \* where each callback stands
    kind,       \* "live": carries an x-request-id; "hinted": does not, but its
                \* body names Alexa as the provider; "plain": neither
    probe,      \* the id of the last probe registered by the add-on
    seenProbe,  \* the probe a callback saw on arrival
    confirmed,  \* bootstrap_confirmed
    lockQueue,  \* holder and waiters of the player's asyncio.Lock, in order
    cache,      \* _PUSH_URL_SESSION_CACHE of the player
    session,    \* the playback session of each callback's handoff
    result,     \* the HTTP answer of each callback; "error" stands for every
                \* answer that reports no playback
    alexaPlayer,                    \* the player's fields mention Alexa or Echo
    edgeMode, holder, hand, loaded  \* see PlayerHandoff

INSTANCE PlayerHandoff

ASSUME NoneIsNoUrl == None \notin Urls

directVars == <<alexaPlayer, edgeMode, holder, hand, loaded>>
addonVars == <<pc, kind, probe, seenProbe, confirmed, lockQueue, cache,
               session, result, directVars>>
vars == <<watchVars, addonVars>>

Results == {"none", "error", "coalesced", "reused", "ok", "sent"}
Starting == {"handoff", "polling", "readback"}
PCs == {"idle", "bootstrap", "awaitProbe", "players", "locking", "reusing",
        "askWorker", "handing", "done"} \cup Starting

TypeOK ==
    /\ WatchTypeOK
    /\ pc \in [Callbacks -> PCs]
    /\ kind \in [Callbacks -> {"live", "hinted", "plain"}]
    /\ probe \in 0..MaxProbes
    /\ seenProbe \in [Callbacks -> 0..MaxProbes]
    /\ confirmed \in [Callbacks -> BOOLEAN]
    /\ lockQueue \in Seq(Callbacks)
    /\ cache \in [status : {"none", "running", "succeeded", "failed"},
                  by : Callbacks \cup {None}, fresh : BOOLEAN]
    /\ session \in [Callbacks -> Sessions \cup {None}]
    /\ result \in [Callbacks -> Results]
    /\ alexaPlayer \in BOOLEAN
    /\ HandoffTypeOK

Init ==
    /\ WatchInit
    /\ pc = [p \in Callbacks |-> "idle"]
    /\ kind \in [Callbacks -> {"live", "hinted", "plain"}]
    /\ probe = 0
    /\ seenProbe = [p \in Callbacks |-> 0]
    /\ confirmed = [p \in Callbacks |-> FALSE]
    /\ lockQueue = <<>>
    /\ cache = [status |-> "none", by |-> None, fresh |-> FALSE]
    /\ session = [p \in Callbacks |-> None]
    /\ result = [p \in Callbacks |-> "none"]
    /\ alexaPlayer \in BOOLEAN
    /\ HandoffInit

Goto(p, l) == pc' = [pc EXCEPT ![p] = l]

\* Mutant: the answer is built, the handler does not end.
Answer_strands(p, res) ==
    /\ Goto(p, "answering")
    /\ result' = [result EXCEPT ![p] = res]

Answer(p, res) ==
    /\ Goto(p, "done")
    /\ result' = [result EXCEPT ![p] = res]

-----------------------------------------------------------------------------
(* Before the lock *)

\* Bad JSON, no stream URL, or the add-on's services are not up yet.
Refuse(p) ==
    /\ pc[p] = "idle"
    /\ Answer(p, "error")
    /\ UNCHANGED <<watchVars, directVars, kind, probe, seenProbe, confirmed, lockQueue,
                   cache, session>>

\* A callback that names Alexa but comes without a request id asks the player
\* to open the skill first; any other goes on to the player list.
Receive(p) ==
    /\ pc[p] = "idle"
    /\ seenProbe' = [seenProbe EXCEPT ![p] = probe]
    /\ Goto(p, IF kind[p] = "hinted" THEN "bootstrap" ELSE "players")
    /\ UNCHANGED <<watchVars, directVars, kind, probe, confirmed, lockQueue, cache,
                   session, result>>

BootstrapSent(p) ==
    /\ pc[p] = "bootstrap"
    /\ Goto(p, "awaitProbe")
    /\ UNCHANGED <<watchVars, directVars, kind, probe, seenProbe, confirmed, lockQueue,
                   cache, session, result>>

BootstrapFailed(p) ==
    /\ pc[p] = "bootstrap"
    /\ Answer(p, "error")
    /\ UNCHANGED <<watchVars, directVars, kind, probe, seenProbe, confirmed, lockQueue,
                   cache, session>>

\* The poll accepts a probe other than the one seen on arrival.
NewProbe(p) == probe # seenProbe[p]

ProbeObserved(p) ==
    /\ pc[p] = "awaitProbe"
    /\ NewProbe(p)
    /\ confirmed' = [confirmed EXCEPT ![p] = TRUE]
    /\ Goto(p, "players")
    /\ UNCHANGED <<watchVars, directVars, kind, probe, seenProbe, lockQueue, cache,
                   session, result>>

BootstrapTimeout(p) ==
    /\ pc[p] = "awaitProbe"
    /\ Answer(p, "error")
    /\ UNCHANGED <<watchVars, directVars, kind, probe, seenProbe, confirmed, lockQueue,
                   cache, session>>

HasActiveContext(p) == kind[p] = "live" \/ confirmed[p]

\* _is_alexa_request: the body names Alexa, as a live one may, or the player does.
ForAlexa(p) == kind[p] = "hinted" \/ alexaPlayer
ForPlayer(p) == kind[p] # "hinted" /\ ~alexaPlayer

\* get_players returned: no player, or an Alexa one without an active Alexa
\* request or outside edge mode, or a URL that cannot be made public.
Rejected(p) ==
    /\ pc[p] = "players"
    /\ Answer(p, "error")
    /\ UNCHANGED <<watchVars, directVars, kind, probe, seenProbe, confirmed,
                   lockQueue, cache, session>>

\* The Alexa branch queues for the player's lock.
QueueForLock(p) ==
    /\ pc[p] = "players"
    /\ ForAlexa(p) \/ kind[p] = "live"
    /\ HasActiveContext(p) /\ edgeMode
    /\ lockQueue' = Append(lockQueue, p)
    /\ Goto(p, "locking")
    /\ UNCHANGED <<watchVars, directVars, kind, probe, seenProbe, confirmed,
                   cache, session, result>>

-----------------------------------------------------------------------------
(* Under the lock *)

\* Mutant: the lock is not waited for.
HoldsLock_any(p) == \E i \in 1..Len(lockQueue) : lockQueue[i] = p

HoldsLock(p) == lockQueue # <<>> /\ Head(lockQueue) = p

\* Mutant: an early return leaves the lock held.
Release_never(p) == UNCHANGED lockQueue

\* Leaving the async with block hands the lock to the next waiter; the callback
\* that leaves is the one at the head.
Release(p) == lockQueue' = Tail(lockQueue)

\* Mutant: the age test is the wrong way round.
Cached_old(status) == cache.status = status /\ ~cache.fresh

\* The entry has this status and is at most 8 s old.
Cached(status) == cache.status = status /\ cache.fresh

Store(p, status) == cache' = [status |-> status, by |-> p, fresh |-> TRUE]

\* A cached attempt that still runs: answered 202 at once.
EnterCoalesced(p) ==
    /\ pc[p] = "locking"
    /\ HoldsLock(p)
    /\ Cached("running")
    /\ Answer(p, "coalesced")
    /\ Release(p)
    /\ UNCHANGED <<watchVars, directVars, kind, probe, seenProbe, confirmed, cache,
                   session>>

\* A cached success: read the player back and reuse the session.
EnterReuse(p) ==
    /\ pc[p] = "locking"
    /\ HoldsLock(p)
    /\ Cached("succeeded")
    /\ Goto(p, "reusing")
    /\ session' = [session EXCEPT ![p] = session[cache.by]]
    /\ UNCHANGED <<watchVars, directVars, kind, probe, seenProbe, confirmed, lockQueue,
                   cache, result>>

\* Anything else starts an attempt of its own.
EnterStart(p) ==
    /\ pc[p] = "locking"
    /\ HoldsLock(p)
    /\ ~Cached("running") /\ ~Cached("succeeded")
    /\ Store(p, "running")
    /\ Goto(p, "handoff")
    /\ UNCHANGED <<watchVars, directVars, kind, probe, seenProbe, confirmed, lockQueue,
                   session, result>>

\* The read-back of a reused session; get_players may raise out of the handler.
ReuseReadback(p) ==
    /\ pc[p] = "reusing"
    /\ \E res \in {"reused", "error"} : Answer(p, res)
    /\ Release(p)
    /\ UNCHANGED <<watchVars, directVars, kind, probe, seenProbe, confirmed, cache,
                   session>>

\* The Worker's part of a handoff: a new session and its token, then the watch
\* of the session, which is best effort.
WorkerHandoff(s) ==
    /\ \A p \in Callbacks : session[p] # s
    /\ Register(s) \/ UNCHANGED watchVars

\* The handoff's answer reaches the add-on.
HandoffAccepted(p, s) ==
    /\ pc[p] = "handoff"
    /\ WorkerHandoff(s)
    /\ session' = [session EXCEPT ![p] = s]
    /\ Goto(p, "polling")
    /\ UNCHANGED <<directVars, kind, probe, seenProbe, confirmed, lockQueue, cache, result>>

\* The Worker refuses, cannot be reached, or its answer is lost or late; a
\* session it made all the same is one nobody knows.
HandoffFailed(p) ==
    /\ pc[p] = "handoff"
    /\ Store(p, "failed")
    /\ Answer(p, "error")
    /\ Release(p)
    /\ UNCHANGED <<watchVars, directVars, kind, probe, seenProbe, confirmed, session>>

\* Mutant: a session the watch knows is taken for a started one.
StartObserved_known(s) == getPlaybackStartState(s) # None

StartObserved(s) == StreamFetchStarted(s) \/ PlaybackStarted(s)

\* A poll of the watch; one that sees nothing sleeps and polls again.
PollSeesStart(p) ==
    /\ pc[p] = "polling"
    /\ StartObserved(session[p])
    /\ Load(session[p])
    /\ Goto(p, "readback")
    /\ UNCHANGED <<directVars, kind, probe, seenProbe, confirmed, lockQueue, cache,
                   session, result>>

\* The polls see nothing for 5 s, or one of them fails.
PollGivesUp(p) ==
    /\ pc[p] = "polling"
    /\ Store(p, "failed")
    /\ Answer(p, "error")
    /\ Release(p)
    /\ UNCHANGED <<watchVars, directVars, kind, probe, seenProbe, confirmed,
                   session>>

ReadbackDone(p) ==
    /\ pc[p] = "readback"
    /\ Store(p, "succeeded")
    /\ Answer(p, "ok")
    /\ Release(p)
    /\ UNCHANGED <<watchVars, directVars, kind, probe, seenProbe, confirmed,
                   session>>

\* get_players raises in the read-back: the handler ends with a 500 and the
\* cache entry keeps saying "running".
ReadbackRaises(p) ==
    /\ pc[p] = "readback"
    /\ Answer(p, "error")
    /\ Release(p)
    /\ UNCHANGED <<watchVars, directVars, kind, probe, seenProbe, confirmed, cache,
                   session>>

-----------------------------------------------------------------------------
(* A player that is no Alexa device *)

\* handoff_playback_url is called: it is turned away or enters its lock.
HandOver(p, form) ==
    \/ /\ Locked
       /\ Answer(p, "error")
       /\ UNCHANGED <<edgeMode, holder, hand, loaded>>
    \/ /\ BeginHandoff(p, form)
       /\ Goto(p, "handing")
       /\ UNCHANGED result

StartDirect(p) ==
    /\ pc[p] = "players"
    /\ ForPlayer(p)
    /\ IF edgeMode
       THEN Goto(p, "askWorker") /\ UNCHANGED <<result, edgeMode, holder, hand, loaded>>
       ELSE HandOver(p, "public")
    /\ UNCHANGED <<watchVars, kind, probe, seenProbe, confirmed, lockQueue,
                   cache, session, alexaPlayer>>

\* The Worker's answer; without a stream_url in it the public URL is used.  The
\* session that the Worker made is left out: this branch never asks for it.
WorkerAnswered(p) ==
    /\ pc[p] = "askWorker"
    /\ \E form \in Forms : HandOver(p, form)
    /\ UNCHANGED <<watchVars, alexaPlayer, kind, probe, seenProbe, confirmed,
                   lockQueue, cache, session>>

WorkerFailed(p) ==
    /\ pc[p] = "askWorker"
    /\ Answer(p, "error")
    /\ UNCHANGED <<watchVars, directVars, kind, probe, seenProbe, confirmed,
                   lockQueue, cache, session>>

\* A step inside the handoff.
Handing(p) ==
    /\ pc[p] = "handing"
    /\ FindPlayer(p) \/ AttemptAccepted(p) \/ AttemptFailed(p) \/ ExplicitPlay(p)
    /\ UNCHANGED <<watchVars, alexaPlayer, pc, kind, probe, seenProbe, confirmed,
                   lockQueue, cache, session, result>>

\* The handoff ends well and the callback is answered.
Sent(p) ==
    /\ HandoffSucceeds(p)
    /\ Answer(p, "sent")
    /\ UNCHANGED <<watchVars, alexaPlayer, kind, probe, seenProbe, confirmed,
                   lockQueue, cache, session>>

\* All attempts failed: once more with the public URL if that is another one.
\* Nothing is awaited between the two handoffs, so the lock is free.
RetryWithPublicUrl(p) ==
    /\ AttemptsUsedUp(p)
    /\ edgeMode /\ hand[p].form = "stream"
    /\ hand' = [hand EXCEPT ![p] = [at |-> "players", form |-> "public", left |-> <<>>]]
    /\ UNCHANGED <<watchVars, alexaPlayer, edgeMode, holder, loaded, pc, kind, probe,
                   seenProbe, confirmed, lockQueue, cache, session, result>>

NotSent(p) ==
    /\ \/ AbandonHandoff(p)
       \/ /\ AttemptsUsedUp(p)
          /\ ~(edgeMode /\ hand[p].form = "stream")
          /\ EndHandoff(p)
          /\ UNCHANGED <<edgeMode, loaded>>
    /\ Answer(p, "error")
    /\ UNCHANGED <<watchVars, alexaPlayer, kind, probe, seenProbe, confirmed,
                   lockQueue, cache, session>>

-----------------------------------------------------------------------------
(* Around the add-on *)

\* 8 s pass since the cache entry was written.
CacheAges ==
    /\ cache.fresh
    /\ cache' = [cache EXCEPT !.fresh = FALSE]
    /\ UNCHANGED <<watchVars, directVars, pc, kind, probe, seenProbe, confirmed,
                   lockQueue, session, result>>

\* Alexa invokes the skill, the add-on registers the probe.
AlexaProbe ==
    /\ probe < MaxProbes
    /\ probe' = probe + 1
    /\ UNCHANGED <<watchVars, directVars, pc, kind, seenProbe, confirmed, lockQueue,
                   cache, session, result>>

\* Somebody outside may have the stream URL of session s: the add-on has it.
\* Before the 200 answer, which carries it, no line of the repository hands it
\* on; Music Assistant and Alexa have routes of their own.
UrlIsOut(s) == \E p \in Callbacks : session[p] = s

\* The device fetches a stream URL it was given, or reports on it.
DeviceActs(s) ==
    /\ UrlIsOut(s)
    /\ MarkFetched(s) \/ \E e \in {"started", "failed", "other"} : MarkPlaybackEvent(s, e)
    /\ UNCHANGED addonVars

ObjectRestarts ==
    /\ WatchRestart
    /\ UNCHANGED addonVars

\* A step of the handler of callback p, from one await to the next.
Handle(p) ==
    \/ Refuse(p) \/ Receive(p)
    \/ BootstrapSent(p) \/ BootstrapFailed(p)
    \/ ProbeObserved(p) \/ BootstrapTimeout(p)
    \/ Rejected(p) \/ QueueForLock(p)
    \/ EnterCoalesced(p) \/ EnterReuse(p) \/ EnterStart(p) \/ ReuseReadback(p)
    \/ \E s \in Sessions : HandoffAccepted(p, s)
    \/ HandoffFailed(p)
    \/ PollSeesStart(p) \/ PollGivesUp(p)
    \/ ReadbackDone(p) \/ ReadbackRaises(p)
    \/ StartDirect(p)
    \/ WorkerAnswered(p) \/ WorkerFailed(p)
    \/ Handing(p) \/ Sent(p) \/ RetryWithPublicUrl(p) \/ NotSent(p)

Next ==
    \/ \E p \in Callbacks : Handle(p)
    \/ CacheAges
    \/ AlexaProbe
    \/ \E s \in Sessions : DeviceActs(s)
    \/ ObjectRestarts

Spec == Init /\ [][Next]_vars

\* Every await of the handler ends: HTTP calls have timeouts, the waits for a
\* probe and for a fetch have deadlines, the lock is fair.
Fairness ==
    \A p \in Callbacks :
        /\ WF_vars(BootstrapSent(p) \/ BootstrapFailed(p))
        /\ WF_vars(BootstrapTimeout(p))
        /\ WF_vars(Rejected(p))
        /\ WF_vars(EnterCoalesced(p) \/ EnterReuse(p) \/ EnterStart(p))
        /\ WF_vars(ReuseReadback(p))
        /\ WF_vars(HandoffFailed(p))
        /\ WF_vars(PollGivesUp(p))
        /\ WF_vars(ReadbackDone(p) \/ ReadbackRaises(p))
        /\ WF_vars(WorkerFailed(p))
        /\ WF_vars(Handing(p) \/ Sent(p) \/ RetryWithPublicUrl(p) \/ NotSent(p))

FairSpec == Spec /\ Fairness

-----------------------------------------------------------------------------
(* Safety properties *)

\* One start attempt at a time for the player, and the cache entry in force
\* during it is the one it wrote, aged or not: no other callback overwrites
\* the record of a running attempt.
OneAttemptAtATime ==
    /\ \A p, q \in Callbacks : pc[p] \in Starting /\ pc[q] \in Starting => p = q
    /\ \A p \in Callbacks :
          pc[p] \in Starting => cache.status = "running" /\ cache.by = p

\* A callback is told that playback started only if the watch of its session
\* has a fetch or a start on record, through cache reuse as well.
SuccessIsProven ==
    \A p \in Callbacks :
        result[p] \in {"ok", "reused"} =>
            /\ session[p] # None
            /\ StreamFetchStarted(session[p]) \/ PlaybackStarted(session[p])

\* In edge mode a callback for a player that is no Alexa device is answered
\* with success only when the player has the URL of this callback and took a
\* play command after it: not for a resume of what it had, and not when another
\* callback's handoff has replaced the URL.
SentUrlPlays ==
    [][\A p \in Callbacks :
          result'[p] = "sent" /\ result[p] # "sent" /\ edgeMode =>
              loaded # None /\ loaded.by = p /\ loaded.playing]_vars

\* While a success is fresh no attempt runs for the player and none starts: a
\* duplicate never reaches the Worker a second time.
FreshSuccessIsReused ==
    [][cache.status = "succeeded" /\ cache.fresh
          => \A p \in Callbacks : pc'[p] \notin Starting]_vars

\* Every callback is answered.
EveryCallbackAnswered ==
    \A p \in Callbacks : pc[p] # "idle" ~> pc[p] = "done"

=============================================================================
