----------------------------- MODULE EdgeStream -----------------------------
(***************************************************************************)
(* The add-on's stream route (edge/stream_router.py, edge_stream) and the  *)
(* resolve_stream command (edge/command_dispatch.py) for one queue item,   *)
(* with the two caches they share: resolved stream URLs per queue id       *)
(* (stream_router.py) and Music Assistant's session ids per queue          *)
(* (ma/client.py).  Requests interleave at their awaits.                   *)
(*                                                                         *)
(* Music Assistant serves /single/<session>/... URLs: it refuses a session *)
(* id other than its queue's current one, checks nothing while the queue   *)
(* has none, and serves nothing before the item's details are resolved.    *)
(***************************************************************************)
EXTENDS Naturals

CONSTANTS
    Requests,      \* requests in flight at a time
    Keys,          \* queue ids the requests come with
    ItemQueue,     \* the id of Music Assistant's queue that holds the item
    MaxSessions,   \* bound on the sessions Music Assistant starts
    MaxRestarts,   \* bound on the restarts of the add-on
    Retries,       \* length of _RETRY_DELAYS (5 in the code)
    Elsewhere,     \* stands for every URL that names another queue
    Nil

ASSUME BoundsAreNat == {MaxSessions, MaxRestarts, Retries} \subseteq Nat
ASSUME NilIsNoKey == Nil \notin Keys /\ Nil \notin Nat
ASSUME ElsewhereIsNoSession == Elsewhere \notin Nat /\ Elsewhere # Nil

VARIABLES
    session,       \* Music Assistant: the queue's session id, 0 when it has none
    lastSession,   \* Music Assistant: the last id given out
    published,     \* Music Assistant: whether current_media shows the session id
    ready,         \* Music Assistant: the item's stream details are resolved
    finds,         \* what a call finds: the item's queue, another one, an error
    streamCache,   \* _stream_url_cache: the session in the cached URL of each key
    sessionCache,  \* _ma_session_cache of each queue
    restarts,      \* restarts of the add-on so far
    pc,            \* where each request stands
    key,           \* its queue id
    retries,       \* _attempt of the backoff loop, 0 before it
    url,           \* the session in the URL it fetches, or has looked up so far
    view,          \* the session the players list showed it
    kept           \* transcode_fallback: the session in a URL kept for ffmpeg

maVars == <<session, lastSession, published, ready, finds>>
caches == <<streamCache, sessionCache>>
reqVars == <<pc, key, retries, url, view, kept>>
streamVars == <<maVars, caches, reqVars, restarts>>

QueueIds == Keys \cup {ItemQueue}
Urls == (0..MaxSessions) \cup {Elsewhere}
PCs == {"idle", "resolve", "players", "answered", "fetch", "transcode", "waiting", "audio"}

\* A fetch always has a URL, a transcode one that was kept.
StreamTypeOK ==
    /\ session \in 0..MaxSessions /\ lastSession \in 0..MaxSessions
    /\ published \in BOOLEAN /\ ready \in BOOLEAN
    /\ finds \in {"queue", "another", "error"}
    /\ streamCache \in [Keys -> Urls \cup {Nil}]
    /\ sessionCache \in [QueueIds -> (0..MaxSessions) \cup {Nil}]
    /\ restarts \in 0..MaxRestarts
    /\ pc \in [Requests -> PCs]
    /\ key \in [Requests -> Keys \cup {Nil}]
    /\ retries \in [Requests -> 0..Retries]
    /\ url \in [Requests -> Urls \cup {Nil}]
    /\ view \in [Requests -> (0..MaxSessions) \cup {Nil}]
    /\ kept \in [Requests -> Urls \cup {Nil}]
    /\ \A r \in Requests : /\ pc[r] = "fetch" => url[r] # Nil
                           /\ pc[r] = "transcode" => kept[r] # Nil

StreamInit ==
    /\ session = 0 /\ lastSession = 0 /\ published = FALSE /\ ready \in BOOLEAN
    /\ finds = "queue"
    /\ streamCache = [k \in Keys |-> Nil]
    /\ sessionCache = [q \in QueueIds |-> Nil]
    /\ restarts = 0
    /\ pc = [r \in Requests |-> "idle"]
    /\ key = [r \in Requests |-> Nil]
    /\ retries = [r \in Requests |-> 0]
    /\ url = [r \in Requests |-> Nil]
    /\ view = [r \in Requests |-> Nil]
    /\ kept = [r \in Requests |-> Nil]

Goto(r, l) == pc' = [pc EXCEPT ![r] = l]

\* The request is answered, with audio or not; what it held is gone with it.
Answer(r, l) ==
    /\ Goto(r, l)
    /\ key' = [key EXCEPT ![r] = Nil]
    /\ retries' = [retries EXCEPT ![r] = 0]
    /\ url' = [url EXCEPT ![r] = Nil]
    /\ view' = [view EXCEPT ![r] = Nil]
    /\ kept' = [kept EXCEPT ![r] = Nil]

-----------------------------------------------------------------------------
(* Music Assistant *)

\* What the stream server does with a fetch of a URL of session s: the fetch of a
\* URL it would serve fails, too, while no call gets through.
Serves(s) == /\ finds # "error"
             /\ ready /\ s # Elsewhere
             /\ session = 0 \/ session = s

\* A play from Music Assistant's own UI: a new session, shown or not.
MAPlays ==
    /\ lastSession < MaxSessions
    /\ lastSession' = lastSession + 1
    /\ session' = lastSession'
    /\ published' \in BOOLEAN
    /\ UNCHANGED <<ready, finds, caches, reqVars, restarts>>

MAResolves ==
    /\ ~ready
    /\ ready' = TRUE
    /\ UNCHANGED <<session, lastSession, published, finds, caches, reqVars, restarts>>

\* A restart leaves the queue without a session and the details unresolved.
MARestarts ==
    /\ session # 0 \/ ready
    /\ session' = 0 /\ published' = FALSE /\ ready' = FALSE
    /\ UNCHANGED <<lastSession, finds, caches, reqVars, restarts>>

\* Players come and go, switch queues, time out.
MAWavers ==
    /\ finds' \in {"queue", "another", "error"} \ {finds}
    /\ UNCHANGED <<session, lastSession, published, ready, caches, reqVars, restarts>>

-----------------------------------------------------------------------------
(* get_stream_url *)

\* The stream URL cache comes first.
LookUp(r, k) ==
    IF streamCache[k] # Nil
    THEN url' = [url EXCEPT ![r] = streamCache[k]] /\ Goto(r, "fetch")
    ELSE UNCHANGED url /\ Goto(r, "resolve")

\* A request for key k; a device asks again after any answer.
Begin(r, k) ==
    /\ pc[r] \in {"idle", "audio"}
    /\ LookUp(r, k)
    /\ key' = [key EXCEPT ![r] = k]
    /\ UNCHANGED <<maVars, restarts, caches, retries, view, kept>>

\* A call raises what get_stream_url does not catch: 404, or the next attempt.
LookupRaises(r) ==
    /\ pc[r] = "resolve"
    /\ IF retries[r] = 0 THEN Answer(r, "idle")
       ELSE Goto(r, "waiting") /\ UNCHANGED <<key, retries, url, view, kept>>
    /\ UNCHANGED <<maVars, restarts, caches>>

\* Auto-discovery of the queue; when it finds none the request's own id has to
\* do.  The cached session id comes next, before the players list.
DiscoverItemQueue(r) ==
    /\ pc[r] = "resolve"
    /\ finds = "queue" \/ key[r] = ItemQueue
    /\ url' = [url EXCEPT ![r] = sessionCache[ItemQueue]]
    /\ Goto(r, "players")
    /\ UNCHANGED <<maVars, restarts, caches, key, retries, view, kept>>

\* Another player's queue came first, or the request's id is not Music
\* Assistant's: no session helps, the item is not there.
DiscoverAnother(r) ==
    /\ pc[r] = "resolve"
    /\ finds = "another" \/ (finds = "error" /\ key[r] # ItemQueue)
    /\ url' = [url EXCEPT ![r] = Elsewhere]
    /\ Goto(r, "answered")
    /\ UNCHANGED <<maVars, restarts, caches, key, retries, view, kept>>

\* Music Assistant answers with what its player shows then.
PlayersAnswer(r) ==
    /\ pc[r] = "players"
    /\ finds # "error"
    /\ view' = [view EXCEPT ![r] = IF published THEN session ELSE Nil]
    /\ Goto(r, "answered")
    /\ UNCHANGED <<maVars, restarts, caches, key, retries, url, kept>>

\* get_players fails: a placeholder in the URL, whatever session id was cached.
PlayersFail(r) ==
    /\ pc[r] = "players"
    /\ finds = "error"
    /\ url' = [url EXCEPT ![r] = 0]
    /\ Goto(r, "answered")
    /\ UNCHANGED <<maVars, restarts, caches, key, retries, view, kept>>

\* Mutant: without a placeholder.
Chosen_noPlaceholder(r) == IF url[r] # Nil THEN url[r] ELSE view[r]

\* The cached id, else the one shown, else the placeholder "nosession".
Chosen(r) == IF url[r] # Nil THEN url[r] ELSE IF view[r] # Nil THEN view[r] ELSE 0

\* A session id read from the players is cached.
CacheSession(r) ==
    sessionCache' = IF url[r] = Nil /\ view[r] # Nil
                    THEN [sessionCache EXCEPT ![ItemQueue] = view[r]] ELSE sessionCache

\* Outside of the backoff loop the URL is cached, too, before anybody has fetched
\* it.
Resolved(r) ==
    /\ pc[r] = "answered"
    /\ CacheSession(r)
    /\ url' = [url EXCEPT ![r] = Chosen(r)]
    /\ view' = [view EXCEPT ![r] = Nil]
    /\ streamCache' = IF retries[r] = 0
                      THEN [streamCache EXCEPT ![key[r]] = Chosen(r)] ELSE streamCache
    /\ Goto(r, "fetch")
    /\ UNCHANGED <<maVars, restarts, key, retries, kept>>

\* resolve_stream: the same resolution, but its cache_stream_url call names a
\* function the module does not import, so the URL is not cached; the command
\* answers without fetching.
CommandResolved(r) ==
    /\ pc[r] = "answered"
    /\ retries[r] = 0
    /\ CacheSession(r)
    /\ Answer(r, "idle")
    /\ UNCHANGED <<maVars, restarts, streamCache>>

-----------------------------------------------------------------------------
(* edge_stream *)

\* The candidate URLs are tried in order; one in a format Alexa plays is
\* streamed.  In the backoff loop its URL is cached.
FetchServed(r) ==
    /\ pc[r] = "fetch"
    /\ Serves(url[r])
    /\ Answer(r, "audio")
    /\ streamCache' = IF retries[r] = 0 THEN streamCache
                      ELSE [streamCache EXCEPT ![key[r]] = url[r]]
    /\ UNCHANGED <<maVars, restarts, sessionCache>>

\* The first one served in another format is kept for ffmpeg, at once or, from
\* the backoff loop, when the loop has found nothing better.
FetchKept(r) ==
    /\ pc[r] = "fetch"
    /\ Serves(url[r])
    /\ kept' = [kept EXCEPT ![r] = IF @ = Nil THEN url[r] ELSE @]
    /\ url' = [url EXCEPT ![r] = Nil]
    /\ Goto(r, IF retries[r] = 0 THEN "transcode" ELSE "waiting")
    /\ UNCHANGED <<maVars, restarts, caches, key, retries, view>>

\* Mutant: only the stream URL is dropped.
Invalidated_urlOnly(k) == UNCHANGED sessionCache

\* invalidate_session_cache for the queue id of the request.
Invalidated(k) == sessionCache' = [sessionCache EXCEPT ![k] = Nil]

Dropped(k) == streamCache' = [streamCache EXCEPT ![k] = Nil]

\* All candidates fail, by a refusal or an exception: both caches are invalidated
\* and the backoff begins.
FetchFails(r) ==
    /\ pc[r] = "fetch"
    /\ ~Serves(url[r])
    /\ retries[r] = 0
    /\ Dropped(key[r])
    /\ Invalidated(key[r])
    /\ url' = [url EXCEPT ![r] = Nil]
    /\ Goto(r, "waiting")
    /\ UNCHANGED <<maVars, restarts, key, retries, view, kept>>

\* A failure within the backoff invalidates nothing.
RetryFails(r) ==
    /\ pc[r] = "fetch"
    /\ ~Serves(url[r])
    /\ retries[r] > 0
    /\ url' = [url EXCEPT ![r] = Nil]
    /\ Goto(r, "waiting")
    /\ UNCHANGED <<maVars, restarts, caches, key, retries, view, kept>>

\* Mutant: the attempts are not counted.
NextAttempt_same(r) == retries[r]

NextAttempt(r) == retries[r] + 1

\* The delay of the next attempt is over; the cache may have been filled again.
Retry(r) ==
    /\ pc[r] = "waiting"
    /\ retries[r] < Retries
    /\ retries' = [retries EXCEPT ![r] = NextAttempt(r)]
    /\ LookUp(r, key[r])
    /\ UNCHANGED <<maVars, restarts, caches, key, view, kept>>

\* The attempts are used up.
GiveUp(r) ==
    /\ pc[r] = "waiting"
    /\ retries[r] = Retries
    /\ IF kept[r] = Nil THEN Answer(r, "idle")
       ELSE Goto(r, "transcode") /\ UNCHANGED <<key, retries, url, view, kept>>
    /\ UNCHANGED <<maVars, restarts, caches>>

\* The transcoder fetches its source anew.
Transcode(r) ==
    /\ pc[r] = "transcode"
    /\ Answer(r, IF Serves(kept[r]) THEN "audio" ELSE "idle")
    /\ UNCHANGED <<maVars, restarts, caches>>

-----------------------------------------------------------------------------
(* Time and restarts *)

\* 300 s and 600 s.
EntryExpires ==
    /\ \/ \E k \in Keys : /\ streamCache[k] # Nil
                          /\ streamCache' = [streamCache EXCEPT ![k] = Nil]
                          /\ UNCHANGED sessionCache
       \/ \E q \in QueueIds : /\ sessionCache[q] # Nil
                              /\ sessionCache' = [sessionCache EXCEPT ![q] = Nil]
                              /\ UNCHANGED streamCache
    /\ UNCHANGED <<maVars, restarts, reqVars>>

AddonRestarts ==
    /\ restarts < MaxRestarts
    /\ restarts' = restarts + 1
    /\ streamCache' = [k \in Keys |-> Nil]
    /\ sessionCache' = [q \in QueueIds |-> Nil]
    /\ pc' = [r \in Requests |-> "idle"]
    /\ key' = [r \in Requests |-> Nil]
    /\ retries' = [r \in Requests |-> 0]
    /\ url' = [r \in Requests |-> Nil]
    /\ view' = [r \in Requests |-> Nil]
    /\ kept' = [r \in Requests |-> Nil]
    /\ UNCHANGED maVars

Handle(r) ==
    \/ LookupRaises(r) \/ DiscoverItemQueue(r) \/ DiscoverAnother(r)
    \/ PlayersAnswer(r) \/ PlayersFail(r) \/ Resolved(r) \/ CommandResolved(r)
    \/ FetchServed(r) \/ FetchKept(r) \/ FetchFails(r) \/ RetryFails(r)
    \/ Retry(r) \/ GiveUp(r) \/ Transcode(r)

MusicAssistant == MAPlays \/ MAResolves \/ MARestarts \/ MAWavers

StreamNext ==
    \/ \E r \in Requests : Handle(r) \/ \E k \in Keys : Begin(r, k)
    \/ MusicAssistant
    \/ EntryExpires
    \/ AddonRestarts

StreamSpec == StreamInit /\ [][StreamNext]_streamVars

\* Fetches, MA calls and sleeps end; nothing is assumed of cache expiry, which
\* takes minutes, nor of Music Assistant.
FairSpec == StreamSpec /\ \A r \in Requests : WF_streamVars(Handle(r))

-----------------------------------------------------------------------------
\* Every request is answered after a bounded number of attempts, whatever the
\* other requests do to the caches meanwhile and Music Assistant answers.
EveryRequestEnds ==
    \A r \in Requests : pc[r] \notin {"idle", "audio"} ~> pc[r] \in {"idle", "audio"}

\* Music Assistant answers, can serve the item and shows the session it asks for.
Settled == finds = "queue" /\ ready /\ (session = 0 \/ published)

\* Once Music Assistant is settled the caches do not keep a device from its
\* audio: one that keeps asking with the queue's own id gets it, again and again,
\* although stale URLs and session ids were cached and no entry need ever expire.
\* (With a logical id the queue's session id is never dropped: see Invalidated.)
SettledStreamsPlay ==
    \A r \in Requests :
        <>[]Settled /\ []<>(pc[r] = "fetch" /\ key[r] = ItemQueue) => []<>(pc[r] = "audio")

=============================================================================
