---------------------------- MODULE WorkerPlayback --------------------------
(***************************************************************************)
(* How a home gets its audio through the Worker: play requests - by voice  *)
(* (alexa.ts, IntentRequest) or by the add-on's handoff (connectors.ts) -  *)
(* record a playback session and a stream token in D1 and give out a       *)
(* signed stream URL; the stream proxy (stream.ts) checks the token, marks *)
(* the fetch in the playback-start watch of the home's durable object,     *)
(* asks the add-on where it is reached and fetches from there.             *)
(*                                                                         *)
(* A step is one D1 statement or one call to the durable object or the     *)
(* add-on.  Sessions name the play requests as well as the playback        *)
(* sessions and tokens they would create, whose ids are fresh.  D1's row   *)
(* of the home exists and is of one tenant: HomeDirectory is about that.   *)
(***************************************************************************)
EXTENDS PlaybackStart, Naturals

CONSTANTS
    Streams,   \* stream requests in flight at a time
    Origins,   \* base URLs the add-on's tunnel can have
    MaxMoves   \* bound on the moves of the tunnel

ASSUME MaxMovesIsNat == MaxMoves \in Nat
ASSUME NoneIsNoOrigin == None \notin Origins
ASSUME NoneIsNoFlag == None \notin BOOLEAN
ASSUME SomeOrigin == Origins # {}

VARIABLES
    kind,      \* "voice" or "handoff" for each play request
    pc,        \* the step it is at
    answer,    \* what it was answered
    rows,      \* playback_sessions: None, or whether stream_token_id is set
    tokens,    \* stream_tokens
    age,       \* of a token: "live", "lastSecond" or "expired"
    urlOut,    \* sessions whose stream URL has reached a device
    origin,    \* origin_base_url of the home in D1
    tunnel,    \* where the add-on is reached
    moves,     \* moves of the tunnel so far
    names,     \* whether the add-on's configuration names an origin
    fails,     \* whether D1 statements and calls of the object may fail
    at,        \* the step each stream request is at
    of,        \* the session in its token
    target,    \* the origin it goes by: the add-on's, then the chosen one
    status,    \* its HTTP answer
    (* history *)
    registered,  \* sessions the watch was told to track
    marked,      \* sessions whose fetch it was told of
    resolvedAt   \* moves of the tunnel when the add-on named its origin

playVars == <<kind, pc, answer, rows, tokens, urlOut>>
homeVars == <<origin, tunnel, moves, names, fails>>
streamVars == <<at, of, target, status>>
history == <<registered, marked, resolvedAt>>
vars == <<watchVars, playVars, age, homeVars, streamVars, history>>

Answers == {"none", "play", "handedOff", "speech", "error"}
Ages == {"live", "lastSecond", "expired"}
PlaySteps == {"idle", "command", "session", "token", "link", "register",
              "answer", "done"}
StreamSteps == {"idle", "verify", "lookup", "mark", "resolve", "origin", "update", "fetch"}
Statuses == {"none", "audio", "unauthorized", "badGateway", "error"}

TypeOK ==
    /\ WatchTypeOK
    /\ kind \in [Sessions -> {"voice", "handoff"}]
    /\ pc \in [Sessions -> PlaySteps]
    /\ answer \in [Sessions -> Answers]
    /\ rows \in [Sessions -> {None} \cup BOOLEAN]
    /\ tokens \subseteq Sessions
    /\ age \in [Sessions -> Ages]
    /\ urlOut \subseteq Sessions
    /\ origin \in Origins /\ tunnel \in Origins
    /\ moves \in 0..MaxMoves /\ names \in BOOLEAN /\ fails \in BOOLEAN
    /\ at \in [Streams -> StreamSteps]
    /\ of \in [Streams -> Sessions \cup {None}]
    /\ target \in [Streams -> Origins \cup {None}]
    /\ status \in [Streams -> Statuses]
    /\ registered \subseteq Sessions /\ marked \subseteq Sessions
    /\ resolvedAt \in [Streams -> 0..MaxMoves]

Init ==
    /\ WatchInit
    /\ kind \in [Sessions -> {"voice", "handoff"}]
    /\ pc = [s \in Sessions |-> "idle"]
    /\ answer = [s \in Sessions |-> "none"]
    /\ rows = [s \in Sessions |-> None]
    /\ tokens = {}
    /\ age = [s \in Sessions |-> "live"]
    /\ urlOut = {}
    /\ origin \in Origins /\ tunnel = origin
    /\ moves = 0 /\ names \in BOOLEAN /\ fails \in BOOLEAN
    /\ at = [t \in Streams |-> "idle"]
    /\ of = [t \in Streams |-> None]
    /\ target = [t \in Streams |-> None]
    /\ status = [t \in Streams |-> "none"]
    /\ registered = {} /\ marked = {}
    /\ resolvedAt = [t \in Streams |-> 0]

-----------------------------------------------------------------------------
(* Play requests *)

\* From step l of request s to step m.
PlayStep(s, l, m) ==
    /\ pc[s] = l
    /\ pc' = [pc EXCEPT ![s] = m]
    /\ UNCHANGED <<kind, urlOut, age, homeVars, streamVars>>

Finish(s, l, a) ==
    /\ PlayStep(s, l, "done")
    /\ answer' = [answer EXCEPT ![s] = a]

\* Rejected envelopes, LaunchRequest, unsupported intents, missing or unlinked
\* users are answered at once, as are handoffs that lack fields or whose
\* connector or Alexa user is not the home's.
Turned(s) ==
    /\ Finish(s, "idle", IF kind[s] = "voice" THEN "speech" ELSE "error")
    /\ UNCHANGED <<watchVars, rows, tokens, history>>

\* resolveHomeByAlexaUser and the auto-link, or the handoff's look-ups.
HomeFound(s) ==
    /\ PlayStep(s, "idle", IF kind[s] = "voice" THEN "command" ELSE "session")
    /\ UNCHANGED <<watchVars, answer, rows, tokens, history>>

\* These are not guarded: a failing statement is a bare 500.
HomeLookupFails(s) ==
    /\ fails
    /\ Finish(s, "idle", "error")
    /\ UNCHANGED <<watchVars, rows, tokens, history>>

\* The prepare_play command, relayed as CommandRelay says: the connector made a
\* playable item ready, ...
Prepared(s) ==
    /\ PlayStep(s, "command", "session")
    /\ UNCHANGED <<watchVars, answer, rows, tokens, history>>

\* ... or any other reply becomes speech, an incomplete item as well; only an
\* aborted call, the object having restarted, is a bare 500.
NotPrepared(s) ==
    /\ \/ Finish(s, "command", "speech")
       \/ fails /\ Finish(s, "command", "error")
    /\ UNCHANGED <<watchVars, rows, tokens, history>>

createPlaybackSession(s) ==
    /\ PlayStep(s, "session", "token")
    /\ rows' = [rows EXCEPT ![s] = FALSE]
    /\ UNCHANGED <<watchVars, answer, tokens, history>>

\* Mutant: the insert is not awaited, so that nobody notices its failure.
recordStreamToken_notAwaited(s) ==
    /\ PlayStep(s, "token", "link")
    /\ tokens' \in {tokens, tokens \cup {s}}
    /\ UNCHANGED <<watchVars, answer, rows, history>>

\* The token's lifetime was fixed before; its row comes first ...
recordStreamToken(s) ==
    /\ PlayStep(s, "token", "link")
    /\ tokens' = tokens \cup {s}
    /\ UNCHANGED <<watchVars, answer, rows, history>>

\* Mutant: a handoff goes on to a step that nobody takes up.
AfterLink_unknown(s) == IF kind[s] = "voice" THEN "answer" ELSE "watch"

AfterLink(s) == IF kind[s] = "voice" THEN "answer" ELSE "register"

\* ... then the session is linked to it.
LinkToken(s) ==
    /\ PlayStep(s, "link", AfterLink(s))
    /\ rows' = [rows EXCEPT ![s] = TRUE]
    /\ UNCHANGED <<watchVars, answer, tokens, history>>

\* Mutant: the exception is lost and the URL given out all the same.
AfterFailure_goesOn(s) == "play"

\* What a failed write is answered with.
AfterFailure(s) == IF kind[s] = "voice" THEN "speech" ELSE "error"

WriteFails(s) ==
    /\ fails
    /\ \E l \in {"session", "token", "link"} : Finish(s, l, AfterFailure(s))
    /\ UNCHANGED <<watchVars, rows, tokens, history>>

\* A handoff's session is tracked by the watch; failing to is only logged.
RegisterWatch(s) ==
    /\ PlayStep(s, "register", "answer")
    /\ \/ Register(s) /\ registered' = registered \cup {s}
       \/ fails /\ UNCHANGED <<watchVars, registered>>
    /\ UNCHANGED <<answer, rows, tokens, marked, resolvedAt>>

AnswerPlay(s) ==
    /\ Finish(s, "answer", IF kind[s] = "voice" THEN "play" ELSE "handedOff")
    /\ UNCHANGED <<watchVars, rows, tokens, history>>

\* The answer arrives in time, within the 8 s Alexa waits, and the device has
\* the URL; an answer that does not is dropped.
UrlArrives(s) ==
    /\ answer[s] \in {"play", "handedOff"}
    /\ urlOut' = urlOut \cup {s}
    /\ UNCHANGED <<watchVars, kind, pc, answer, rows, tokens, age, homeVars,
                   streamVars, history>>

PlayRequest(s) ==
    \/ Turned(s) \/ HomeFound(s) \/ HomeLookupFails(s)
    \/ Prepared(s) \/ NotPrepared(s)
    \/ createPlaybackSession(s) \/ recordStreamToken(s) \/ LinkToken(s)
    \/ WriteFails(s) \/ RegisterWatch(s) \/ AnswerPlay(s)

-----------------------------------------------------------------------------
(* Stream requests *)

StreamStep(t, l, m) ==
    /\ at[t] = l
    /\ at' = [at EXCEPT ![t] = m]
    /\ UNCHANGED <<playVars, age>>

End(t, l, st) ==
    /\ StreamStep(t, l, "idle")
    /\ status' = [status EXCEPT ![t] = st]
    /\ UNCHANGED <<of, target>>

\* A device fetches a URL it has, at first, after a seek or a lost connection.
Fetch(t, s) ==
    /\ s \in urlOut
    /\ StreamStep(t, "idle", "verify")
    /\ of' = [of EXCEPT ![t] = s]
    /\ target' = [target EXCEPT ![t] = None]
    /\ status' = [status EXCEPT ![t] = "none"]
    /\ UNCHANGED <<watchVars, homeVars, history>>

\* The claims expire by whole seconds: they outlive the row by up to one.
ClaimsHold(s) == age[s] # "expired"
RowHolds(s) == age[s] = "live"

verifySignedStreamToken(t) ==
    /\ at[t] = "verify"
    /\ IF ClaimsHold(of[t])
       THEN StreamStep(t, "verify", "lookup") /\ UNCHANGED <<of, target, status>>
       ELSE End(t, "verify", "unauthorized")
    /\ UNCHANGED <<watchVars, homeVars, history>>

getRecordedStreamToken(t) ==
    /\ at[t] = "lookup"
    /\ IF of[t] \in tokens /\ RowHolds(of[t])
       THEN StreamStep(t, "lookup", "mark") /\ UNCHANGED <<of, target, status>>
       ELSE End(t, "lookup", "unauthorized")
    /\ UNCHANGED <<watchVars, homeVars, history>>

\* The watch hears of the fetch; a failing call is only logged.
MarkFetch(t) ==
    /\ StreamStep(t, "mark", "resolve")
    /\ \/ MarkFetched(of[t]) /\ marked' = marked \cup {of[t]}
       \/ fails /\ UNCHANGED <<watchVars, marked>>
    /\ UNCHANGED <<of, target, status, homeVars, registered, resolvedAt>>

\* resolve_stream: the add-on names its origin, if it is configured to.
StreamResolved(t) ==
    /\ StreamStep(t, "resolve", "origin")
    /\ target' = [target EXCEPT ![t] = IF names THEN tunnel ELSE None]
    /\ resolvedAt' = [resolvedAt EXCEPT ![t] = moves]
    /\ UNCHANGED <<of, status, watchVars, homeVars, registered, marked>>

\* No connector, an error or a timeout, or an aborted call.
StreamNotResolved(t) ==
    /\ \/ End(t, "resolve", "badGateway")
       \/ fails /\ End(t, "resolve", "error")
    /\ UNCHANGED <<watchVars, homeVars, history>>

\* Mutant: D1 is preferred.
Chosen_stored(live) == origin

Chosen(live) == IF live # None THEN live ELSE origin

\* Mutant: the row is never updated.
Outdated_never(live) == FALSE

Outdated(live) == live # None /\ live # origin

\* getOriginBaseUrl; a row that differs from what the add-on named is updated.
getOriginBaseUrl(t) ==
    /\ StreamStep(t, "origin", IF Outdated(target[t]) THEN "update" ELSE "fetch")
    /\ target' = [target EXCEPT ![t] = Chosen(@)]
    /\ UNCHANGED <<of, status, watchVars, homeVars, history>>

updateOriginBaseUrl(t) ==
    /\ StreamStep(t, "update", "fetch")
    /\ \/ origin' = target[t]
       \/ fails /\ UNCHANGED origin
    /\ UNCHANGED <<of, target, status, watchVars, tunnel, moves, names, fails, history>>

\* A tunnel that is gone answers 530; the add-on itself may refuse (EdgeStream).
UpstreamFetch(t) ==
    /\ \/ target[t] = tunnel /\ End(t, "fetch", "audio")
       \/ End(t, "fetch", "badGateway")
    /\ UNCHANGED <<watchVars, homeVars, history>>

\* Neither look-up is guarded.
StreamLookupFails(t) ==
    /\ fails
    /\ End(t, "lookup", "error") \/ End(t, "origin", "error")
    /\ UNCHANGED <<watchVars, homeVars, history>>

StreamRequest(t) ==
    \/ verifySignedStreamToken(t) \/ getRecordedStreamToken(t) \/ MarkFetch(t)
    \/ StreamResolved(t) \/ StreamNotResolved(t)
    \/ getOriginBaseUrl(t) \/ updateOriginBaseUrl(t) \/ UpstreamFetch(t)
    \/ StreamLookupFails(t)

-----------------------------------------------------------------------------
(* Device, time, tunnel, object *)

\* An AudioPlayer event with the token of s: unknown tokens are ignored.
DeviceReports(s) ==
    /\ s \in urlOut /\ s \in tokens
    /\ \E e \in {"started", "failed", "other"} : MarkPlaybackEvent(s, e)
    /\ UNCHANGED <<playVars, age, homeVars, streamVars, history>>

\* exp and expires_at are fixed before the first statement.
TokenAges(s) ==
    /\ pc[s] \notin {"idle", "command"}
    /\ age[s] # "expired"
    /\ age' = [age EXCEPT ![s] = IF @ = "live" THEN "lastSecond" ELSE "expired"]
    /\ UNCHANGED <<watchVars, playVars, homeVars, streamVars, history>>

TunnelMoves ==
    /\ moves < MaxMoves
    /\ moves' = moves + 1
    /\ tunnel' \in Origins \ {tunnel}
    /\ UNCHANGED <<watchVars, playVars, age, origin, names, fails, streamVars, history>>

ObjectRestarts ==
    /\ WatchRestart
    /\ UNCHANGED <<playVars, age, homeVars, streamVars, history>>

Next ==
    \/ \E s \in Sessions : PlayRequest(s) \/ UrlArrives(s) \/ DeviceReports(s) \/ TokenAges(s)
    \/ \E t \in Streams : StreamRequest(t) \/ \E s \in Sessions : Fetch(t, s)
    \/ TunnelMoves
    \/ ObjectRestarts

Spec == Init /\ [][Next]_vars

\* D1, the object and the upstream answer every call (the object gives up on
\* the connector after 8 s); devices and the tunnel do as they please.
FairSpec == Spec /\ \A t \in Streams : WF_vars(StreamRequest(t))

-----------------------------------------------------------------------------
\* Whoever has a stream URL can rely on it: both rows of its session are written
\* before the URL is given out, on every path and whatever fails.
UrlsAreRecorded ==
    /\ \A s \in Sessions : answer[s] \in {"play", "handedOff"} \/ s \in urlOut =>
          s \in tokens /\ rows[s] = TRUE
    /\ \A s \in Sessions : s \in tokens => rows[s] # None
    /\ \A s \in Sessions : rows[s] = TRUE => s \in tokens

\* A device is refused for its token only after the token's time: no URL it was
\* given is unknown to the proxy or expires early.
RefusedOnlyWhenExpired ==
    [][\A t \in Streams :
          status[t] # "unauthorized" /\ status'[t] = "unauthorized"
              => age[of[t]] # "live"]_vars

\* A fetch the watch was told of is on record for every session it tracks, in
\* whatever order and across restarts of the object: registering never comes
\* after a fetch and wipes it out.
FetchesAreOnRecord ==
    \A s \in registered \cap marked : StreamFetchStarted(s)

\* "Fix stream 530/502 error caused by stale Cloudflare Tunnel URL": a stream of
\* an add-on that names its origin fetches from where the add-on is, unless the
\* tunnel moved since it asked, whatever older streams do to the row in D1.
StreamsFollowTheTunnel ==
    \A t \in Streams :
        names /\ at[t] \in {"update", "fetch"} /\ resolvedAt[t] = moves => target[t] = tunnel

\* Once the tunnel stays where it is and streams keep resolving, D1 ends up with
\* its origin, although older answers still in flight may first put back an older one.
OriginConverges ==
    \A t \in Streams :
        names /\ ~fails /\ []<>(at[t] = "fetch") => <>[](origin = tunnel)

=============================================================================
