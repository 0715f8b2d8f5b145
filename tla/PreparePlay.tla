----------------------------- MODULE PreparePlay -----------------------------
(* prepare_play on the add-on: resolve_play_request finds an item, or searches  *)
(* for one and starts it, between awaits on a Music Assistant (MA) whose queues *)
(* come, go and change.  Commands are handled one at a time.  An action is the  *)
(* code from one await to the next; logging reads (the player inventory) are    *)
(* left out, and every call may fail, with an error of the client's (ma) or     *)
(* with one of httpx that the client does not wrap (other).                     *)
EXTENDS FiniteSets, Naturals

CONSTANTS
    Queues,         \* the queues MA may have
    Tracks,         \* what they play; an item of a queue is named by its track
    Numeric,        \* a queue id that sanitizing discards
    NoQueue, None, Failure,
    MaxRequests     \* bound: prepare_play commands

VARIABLES
    exists, held,           \* MA: its queues now, and the tracks in each
    requests,               \* commands begun
    ask, retried,           \* the command's queue and query; the second try
    wanted,                 \* requested_queue_id of the try
    stage, at,              \* the source of an item being tried; the await
    queue, kinds,           \* effective queue; media types left to search
    found, candidates,      \* the item; the forms of it left to enqueue
    posted,                 \* plays of this command that MA took, or may have
    answer,
    uriMapping              \* _uri_mapping_cache

ma       == <<exists, held>>
command  == <<requests, ask>>
progress == <<retried, wanted, stage, at, queue, kinds, found, candidates>>
vars     == <<ma, command, progress, posted, answer, uriMapping>>

ASSUME BoundIsNat == MaxRequests \in Nat

\* The outcomes of a command are told apart.
ASSUME Outcomes ==
    /\ Failure # None
    /\ {None, Failure} \cap [queue : Queues \cup {NoQueue},
                             item : [real : BOOLEAN, track : Tracks]] = {}

AnyQueue == Queues \cup {NoQueue}       \* NoQueue is "default" in an answer

\* What a search or a queue names.  uri: a provider's or library's URI, or one
\* that is fetched (or missing); forms: its URI, its library URI, or both.
Media == [track : Tracks, uri : {"provider", "http"}, forms : 1 .. 2]

\* Items of MA's queues, and the ones made up from a search result.
Items == [real : BOOLEAN, track : Tracks]

TypeOK ==
    /\ exists \subseteq Queues
    /\ held \in [Queues -> SUBSET Tracks]
    /\ requests \in 0 .. MaxRequests
    /\ ask \in [queue : AnyQueue \cup {Numeric}, query : BOOLEAN]
    /\ retried \in BOOLEAN
    /\ wanted \in AnyQueue /\ queue \in AnyQueue
    /\ stage \in {"query", "wantedCurrent", "wantedNext", "current", "next", "nowPlaying"}
    /\ at \in {"idle", "discover", "select", "rediscover", "reselect", "build",
               "players", "search", "enqueue", "post", "read"}
    /\ kinds \in 0 .. 4 /\ candidates \in 0 .. 2
    /\ found \in Media \cup {None}
    /\ posted \subseteq Queues \X Tracks
    /\ answer \in [queue : AnyQueue, item : Items] \cup {None, Failure}
    /\ uriMapping \in [AnyQueue \X Items -> Tracks \cup {None}]

Init ==
    /\ exists \in SUBSET Queues
    /\ held = [q \in Queues |-> {}]
    /\ requests = 0
    /\ ask = [queue |-> NoQueue, query |-> FALSE] /\ retried = FALSE
    /\ wanted = NoQueue /\ queue = NoQueue
    /\ stage = "query" /\ at = "idle" /\ kinds = 0
    /\ found = None /\ candidates = 0
    /\ posted = {} /\ answer = None
    /\ uriMapping = [k \in AnyQueue \X Items |-> None]

-----------------------------------------------------------------------------
(* Music Assistant *)

\* A queue appears or goes; its content changes, also by plays asked for
\* earlier, which run in the background, and by items get_stream_url adds.
MAChanges ==
    /\ \/ \E q \in Queues :
             /\ exists' = IF q \in exists THEN exists \ {q} ELSE exists \cup {q}
             /\ UNCHANGED held
       \/ \E q \in exists, t \in Tracks :
             /\ held' = [held EXCEPT ![q] = IF t \in @ THEN @ \ {t} ELSE @ \cup {t}]
             /\ UNCHANGED exists
    /\ UNCHANGED <<command, progress, posted, answer, uriMapping>>

-----------------------------------------------------------------------------
(* Steps of one command *)

\* Mutant: numeric ids are passed on.
Sanitized_raw(q) == q

\* Purely numeric ids are stale ones of another system.
Sanitized(q) == IF q = Numeric THEN NoQueue ELSE q

Go(l, q) == at' = l /\ queue' = q

\* resolve_play_request begins with queue q wanted.
Start(q, query) ==
    /\ wanted' = q /\ kinds' = 4
    /\ stage' = IF query THEN "query" ELSE IF q # NoQueue THEN "wantedCurrent" ELSE "current"
    /\ Go(IF q = NoQueue THEN "discover" ELSE IF query THEN "search" ELSE "select", q)
    /\ found' = None /\ candidates' = 0

Request(q, query) ==
    /\ at = "idle" /\ requests < MaxRequests
    /\ requests' = requests + 1
    /\ ask' = [queue |-> q, query |-> query] /\ retried' = FALSE
    /\ posted' = {} /\ answer' = None
    /\ Start(Sanitized(q), query)
    /\ UNCHANGED <<ma, uriMapping>>

Continues == UNCHANGED <<ma, command, retried, posted, answer, uriMapping>>

End ==
    /\ Go("idle", NoQueue) /\ found' = None /\ kinds' = 0 /\ candidates' = 0
    /\ UNCHANGED <<retried, wanted, stage>>

\* The command is answered with item i of queue q, and the URI of the found
\* item is kept for i unless it is one to fetch.
Answered(q, i) ==
    /\ answer' = [queue |-> q, item |-> i]
    /\ uriMapping' = IF found.uri = "provider"
                     THEN [uriMapping EXCEPT ![<<q, i>>] = found.track] ELSE uriMapping
    /\ End

Synthetic == [real |-> FALSE, track |-> found.track]

\* The try raises.  The now-playing search turns every error into an error of
\* the client's; of those, one on a command with a queue is tried once more,
\* without the queue.
Raised(error) ==
    /\ IF (error = "ma" \/ stage = "nowPlaying") /\ ask.queue # NoQueue /\ ~retried
       THEN retried' = TRUE /\ Start(NoQueue, ask.query) /\ UNCHANGED answer
       ELSE answer' = Failure /\ End
    /\ UNCHANGED <<ma, command, posted, uriMapping>>

\* A call whose errors nobody up to resolve_play_request catches.
Unanswered ==
    /\ at \in {"discover", "select", "rediscover", "reselect", "players"}
    /\ \E error \in {"ma", "other"} : Raised(error)

\* Searches and get_stream_url catch the client's errors themselves.
CallBreaks == at \in {"search", "build"} /\ Raised("other")

\* _resolve_default_queue_id: a queue that MA confirmed, or none.
Discovered == exists \cup {NoQueue}

(* Without a query: an item of a queue *)

After(s) ==
    CASE s = "wantedCurrent" -> "wantedNext"
      [] s = "wantedNext"    -> "current"
      [] s = "current"       -> "next"
      [] s = "next"          -> "nowPlaying"

\* This source has no item: the next one is tried.
NoItem ==
    LET s == After(stage)
    IN  /\ stage' = s
        /\ Go(CASE s = "wantedNext" -> "select" [] s = "nowPlaying" -> "players"
                [] OTHER -> "discover",
              IF s = "wantedNext" THEN wanted ELSE NoQueue)
        /\ UNCHANGED <<wanted, kinds, found, candidates>>
        /\ Continues

Discover ==
    /\ at = "discover"
    /\ \E q \in Discovered :
         IF stage \in {"query", "nowPlaying"}
         THEN /\ Go("search", q)
              /\ UNCHANGED <<stage, wanted, kinds, found, candidates>> /\ Continues
         ELSE \/ q = NoQueue /\ NoItem
              \/ /\ q # NoQueue /\ Go("select", q)
                 /\ UNCHANGED <<stage, wanted, kinds, found, candidates>> /\ Continues

\* The wanted queue is gone: is there another?
Rediscover ==
    /\ at = "rediscover"
    /\ \E q \in Discovered :
         \/ q = NoQueue /\ NoItem
         \/ /\ q # NoQueue /\ Go("reselect", q)
            /\ UNCHANGED <<stage, wanted, kinds, found, candidates>> /\ Continues

\* The current or next item, in the order of the stage.
Select ==
    /\ at \in {"select", "reselect"} /\ queue \in exists
    /\ \/ NoItem
       \/ /\ \E m \in Media : m.track \in held[queue] /\ found' = m
          /\ Go("build", queue)
          /\ UNCHANGED <<stage, wanted, kinds, candidates>> /\ Continues

\* MA answers 404.  A wanted queue is looked for once; if what is found instead
\* goes too, only the first stage gives up the wanted queue and goes on.
QueueGone ==
    /\ at \in {"select", "reselect"} /\ queue \notin exists
    /\ IF at = "select" /\ stage \in {"wantedCurrent", "wantedNext"}
       THEN /\ Go("rediscover", queue)
            /\ UNCHANGED <<stage, wanted, kinds, found, candidates>> /\ Continues
       ELSE IF stage = "wantedCurrent"
       THEN /\ wanted' = NoQueue /\ stage' = "current" /\ Go("discover", NoQueue)
            /\ UNCHANGED <<kinds, found, candidates>> /\ Continues
       ELSE Raised("ma")

\* build_stream_context: get_stream_url always comes up with a URL.
Build ==
    /\ at = "build"
    /\ Answered(queue, [real |-> TRUE, track |-> found.track])
    /\ UNCHANGED <<ma, command, posted>>

\* The next player that shows what it plays is searched for, in the wanted queue
\* or its own; after the last one the command has failed.
NowPlaying ==
    /\ at = "players"
    /\ \/ Raised("ma")
       \/ \E own \in AnyQueue :
            LET q == IF wanted # NoQueue THEN wanted ELSE own
            IN  /\ Go(IF q = NoQueue THEN "discover" ELSE "search", q)
                /\ kinds' = 4
                /\ UNCHANGED <<stage, wanted, found, candidates>> /\ Continues

(* With a query, or what a player shows: search and enqueue *)

\* A media type has no result (or one with neither URI nor id), or one.
Search ==
    /\ at = "search" /\ kinds > 0
    /\ kinds' = kinds - 1
    /\ \/ UNCHANGED <<found, at>>
       \/ found' \in Media /\ at' = "enqueue"
    /\ UNCHANGED <<stage, wanted, queue, candidates>> /\ Continues

NoMatch ==
    /\ at = "search" /\ kinds = 0
    /\ \/ stage = "query" /\ Raised("ma")
       \/ /\ stage = "nowPlaying" /\ Go("players", NoQueue)
          /\ UNCHANGED <<stage, wanted, kinds, found, candidates>> /\ Continues

\* Whatever queue was asked for, a queue MA has now is taken if one is found.
Enqueue ==
    /\ at = "enqueue"
    /\ \E q \in Discovered :
         LET target == IF q # NoQueue THEN q ELSE queue
         IN  IF target = NoQueue
             THEN Answered(target, Synthetic) /\ UNCHANGED <<ma, command, posted>>
             ELSE /\ Go("post", target) /\ candidates' = found.forms
                  /\ UNCHANGED <<stage, wanted, kinds, found>> /\ Continues

Taken == posted \cup {<<queue, found.track>>}

\* MA takes the play.  (The queue's cached session id, dropped here, is EdgeStream's.)
PostAccepted ==
    /\ at = "post"
    /\ posted' = Taken
    /\ Go("read", queue)
    /\ UNCHANGED <<stage, wanted, kinds, found, candidates>>
    /\ UNCHANGED <<ma, command, retried, answer, uriMapping>>

\* Mutant: the queue is resolved for each form.
NextCandidate_resolves == Go("enqueue", queue)

NextCandidate == Go("post", queue)

\* Mutant: nothing was enqueued, so the search goes on.
NotEnqueued_searches ==
    /\ Go("search", queue) /\ found' = None /\ candidates' = 0
    /\ UNCHANGED <<retried, wanted, stage, kinds, answer, uriMapping>>

\* The made-up item is answered all the same.
NotEnqueued == Answered(queue, Synthetic)

\* A refused or timed-out play, which MA may carry out nevertheless.
PostFails ==
    /\ at = "post"
    /\ posted' \in {posted, Taken}
    /\ IF candidates > 1
       THEN /\ NextCandidate /\ candidates' = candidates - 1
            /\ UNCHANGED <<retried, wanted, stage, kinds, found, answer, uriMapping>>
       ELSE NotEnqueued
    /\ UNCHANGED <<ma, command>>

\* The item MA made, if the queue has it by now; else the queue's last one.
ReadItems ==
    /\ at = "read"
    /\ \/ Answered(queue, Synthetic)            \* unreadable or empty
       \/ /\ queue \in exists
          /\ \E t \in held[queue] :
               /\ found.track \in held[queue] => t = found.track
               /\ Answered(queue, [real |-> TRUE, track |-> t])
    /\ UNCHANGED <<ma, command, posted>>

-----------------------------------------------------------------------------
Next ==
    \/ MAChanges
    \/ \E q \in AnyQueue \cup {Numeric}, query \in BOOLEAN : Request(q, query)
    \/ Unanswered \/ CallBreaks
    \/ Discover \/ Rediscover \/ Select \/ QueueGone \/ Build \/ NowPlaying
    \/ Search \/ NoMatch \/ Enqueue \/ PostAccepted \/ PostFails \/ ReadItems

Spec == Init /\ [][Next]_vars

-----------------------------------------------------------------------------
\* Alexa is told that nothing could be played only when no play was asked of
\* Music Assistant that it may carry out, on either try.
ErrorsStartNothing == answer = Failure => posted = {}

\* Everything a command may have started, over both tries, all forms and calls
\* that time out, is one track in one queue; the answer names that queue, and a
\* made-up item that track.
StartedAsAnswered ==
    /\ Cardinality(posted) <= 1
    /\ \A p \in posted : answer \notin {None, Failure} =>
          /\ answer.queue = p[1]
          /\ ~answer.item.real => answer.item.track = p[2]

=============================================================================
