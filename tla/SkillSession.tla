---------------------------- MODULE SkillSession ----------------------------
(***************************************************************************)
(* The Alexa skill endpoint of the add-on's legacy mode (alexa/) for one   *)
(* device: voice intents, AudioPlayer events and button presses, which     *)
(* consult and command Music Assistant's queues over HTTP and leave their  *)
(* mark in the device's session (alexa/session_store.py), kept in memory   *)
(* and in a file, before their answer leaves.  A step is a handler's run   *)
(* between two awaits, or something the device, its connection or Music    *)
(* Assistant does meanwhile.                                               *)
(***************************************************************************)
EXTENDS Integers, Sequences, SequencesExt

CONSTANTS
    Requests,     \* requests of the device, each made at most once
    Queues,       \* Music Assistant's queues
    QueueLength,  \* tracks in each of them
    ConfigQueue,  \* alexa_source_queue_id, None when it is not set
    MaxEvents,    \* bound on the device's events on their way at once
    MaxRestarts,  \* bound on restarts of the add-on
    None

ASSUME QueueLengthIsPositive == QueueLength \in Nat \ {0}
ASSUME MaxEventsIsNat == MaxEvents \in Nat
ASSUME MaxRestartsIsNat == MaxRestarts \in Nat
ASSUME NoneIsNoQueue == None \notin Queues
ASSUME ConfigQueueIsOptional == ConfigQueue \in Queues \cup {None}

VARIABLES
    session,   \* the device's SessionRecord; NewSession when there is none
    file,      \* what a start-up would read back from the session's file
    device,    \* the track it last had, whether it plays, the one enqueued
    events,    \* its AudioPlayer events on their way, the oldest first
    strayed,   \* history: session and device may differ, see PlayArrives
    req,       \* what each request's handler is about: RequestRecords
    restarts

storeVars == <<session, file>>
deviceVars == <<device, events, strayed>>
vars == <<storeVars, deviceVars, req, restarts>>

-----------------------------------------------------------------------------
(* Data *)

Tracks == [queue : Queues, item : 1..QueueLength]

ASSUME NoneIsNoTrack == None \notin Tracks

PlayStates == {"IDLE", "PLAYING", "PAUSED", "STOPPED", "FINISHED", "FAILED"}

\* The fields of a record that a handler reads, and its play state.
SessionRecords ==
    [queue : Queues \cup {None}, state : PlayStates, current : Tracks \cup {None}]

NewSession == [queue |-> None, state |-> "IDLE", current |-> None]

Pauses == {"pause", "pauseButton"}
Stops == Pauses \cup {"stop"}
Nexts == {"next", "nextButton"}
Skips == Nexts \cup {"previous", "previousButton"}
Buttons == {"playButton", "pauseButton", "nextButton", "previousButton"}
Kinds == {"play", "search", "resume", "playButton", "nearly"} \cup Stops \cup Skips

Devices == [track : Tracks \cup {None}, plays : BOOLEAN, next : Tracks \cup {None}]

\* Only PlaybackStarted is asked for its track.
Endings == {"stopped", "finished", "failed"}
Events == [kind : {"started"}, track : Tracks] \cup [kind : Endings, track : {None}]

Asks == {"current", "next"}
Directives == {"play", "enqueue", "stop", "stopClear"}
PCs == {"idle", "post", "search", "lookup", "discover", "lastLookup",
        "forward", "found", "answering", "done"}

\* Where a request stands, the queue_id of a next, the lookups it has yet to
\* try, the track one of them found, the token of the event it is, the places a
\* next found its queue at (0 in an empty one) and its answer's directive.
RequestRecords ==
    [pc : PCs, kind : Kinds \cup {"none"}, queue : Queues \cup {None},
     lookups : Seq([from : Queues, ask : Asks]), found : Tracks \cup {None},
     token : Tracks \cup {None}, places : SUBSET (0..QueueLength),
     directive : Directives \cup {"none"}]

Fresh == [pc |-> "idle", kind |-> "none", queue |-> None, lookups |-> <<>>,
          found |-> None, token |-> None, places |-> {}, directive |-> "none"]

TypeOK ==
    /\ session \in SessionRecords /\ file \in SessionRecords
    /\ device \in Devices /\ events \in Seq(Events) /\ strayed \in BOOLEAN
    /\ req \in [Requests -> RequestRecords]
    /\ restarts \in 0..MaxRestarts

\* The add-on starts with a device it does not know, or with one that plays the
\* first track of a queue, started by voice or by a button.
FirstTrack(q) == [queue |-> q, item |-> 1]

EarlierSessions ==
    {NewSession} \cup UNION {
        {[queue |-> q, state |-> "PLAYING", current |-> FirstTrack(q)],
         [queue |-> None, state |-> "PLAYING", current |-> FirstTrack(q)]} : q \in Queues}

Init ==
    /\ session \in EarlierSessions
    /\ file = session
    /\ device = [track |-> session.current, plays |-> session.state = "PLAYING",
                 next |-> None]
    /\ events = <<>> /\ strayed = FALSE
    /\ req = [r \in Requests |-> Fresh]
    /\ restarts = 0

-----------------------------------------------------------------------------
(* The session store *)

\* Mutant: an unset field comes back from the file as an empty string.
update_session_noDefault(s) ==
    /\ session' = s
    /\ file' \in {s, file, [NewSession EXCEPT !.queue = "", !.current = ""]}

\* Memory changes; the file is rewritten, or cannot be opened, or is left
\* torn, which the next start-up skips.  None of it reaches the handler.
update_session(s) ==
    /\ session' = s
    /\ file' \in {s, file, NewSession}

\* queue_id of a session, or of its current token.
SessionQueue ==
    IF session.queue = None /\ session.current # None
    THEN session.current.queue
    ELSE session.queue

\* Where a handler starts to look.
VoiceQueue == IF SessionQueue # None THEN SessionQueue ELSE ConfigQueue
ButtonQueue == IF session.queue # None THEN session.queue ELSE ConfigQueue

QueueFor(k, c) ==
    IF k = "playButton" /\ c # None THEN c.queue
    ELSE IF k \in Buttons THEN ButtonQueue ELSE VoiceQueue

-----------------------------------------------------------------------------
(* Requests *)

Goto(r, l) == req' = [req EXCEPT ![r].pc = l]

\* The handler returns with nothing for the device to do.
Respond(r) == req' = [req EXCEPT ![r] = [Fresh EXCEPT !.pc = "done"]]

\* It returns with a directive, which has yet to reach the device.
Answer(r, directive) ==
    req' = [req EXCEPT ![r] =
        [Fresh EXCEPT !.pc = "answering", !.directive = directive,
                      !.found = req[r].found, !.token = req[r].token]]

AskOf(q, ask) == IF q = None THEN <<>> ELSE <<[from |-> q, ask |-> ask]>>

\* Mutant: the current item is asked for first.
LookupsFor_current(k, q, c) == AskOf(q, "current") \o AskOf(q, "next")

\* What a handler asks Music Assistant for, in turn, before auto-discovery.
LookupsFor(k, q, c) ==
    CASE k \in Nexts -> AskOf(q, "next") \o AskOf(q, "current")
      [] k = "resume" /\ c # None -> AskOf(c.queue, "current") \o AskOf(q, "current")
      [] k = "nearly" -> AskOf(q, "next")
      [] k \in Stops \cup {"search"} -> <<>>
      [] OTHER -> AskOf(q, "current")

\* Handlers that turn to auto-discovery when their queues have nothing.
Discoverers == {"play", "resume", "next", "previous", "playButton"}

\* The token of a request's AudioPlayer context: some earlier track, if any.
Contexts(k) == IF k \in {"resume", "playButton"} THEN Tracks \cup {None} ELSE {None}

\* A handler starts on its queue at its first await.
Begin(r, k, q, c, first) ==
    req' = [req EXCEPT ![r] =
        [Fresh EXCEPT !.pc = first, !.kind = k,
                      !.queue = IF k \in Nexts THEN q ELSE None,
                      !.lookups = LookupsFor(k, q, c),
                      !.token = IF k = "nearly" THEN c ELSE None]]

\* Where an intent or button press first awaits Music Assistant.  Skips post a
\* command if there is a queue; pauses and stops try the players without one (a
\* pause button awaits nothing then and is given a step of its own all the same).
FirstAwait(k, q, c) ==
    IF k = "search" THEN "search"
    ELSE IF k \in Stops \/ (k \in Skips /\ q # None) THEN "post"
    ELSE IF LookupsFor(k, q, c) # <<>> THEN "lookup"
    ELSE "discover"

Receive(r, k) ==
    /\ req[r].pc = "idle" /\ k # "nearly"
    /\ \E c \in Contexts(k) :
          LET q == QueueFor(k, c) IN
          IF q = None /\ k \in Skips \ Discoverers
          THEN Respond(r)
          ELSE Begin(r, k, q, c, FirstAwait(k, q, c))
    /\ UNCHANGED <<storeVars, deviceVars, restarts>>

\* PlaybackNearlyFinished, for the track the device has.
PlaybackNearlyFinished(r) ==
    /\ req[r].pc = "idle" /\ device.plays
    /\ Begin(r, "nearly", device.track.queue, device.track, "lookup")
    /\ update_session(session)
    /\ UNCHANGED <<deviceVars, restarts>>

\* A next or previous command, for Music Assistant to follow at once, later or
\* not at all; a post that fails is logged.
PostSkip(r) ==
    /\ req[r].pc = "post" /\ req[r].kind \in Skips
    /\ Goto(r, "lookup")
    /\ UNCHANGED <<storeVars, deviceVars, restarts>>

\* Whether Music Assistant takes it or not, the device is told to stop.
PostStop(r) ==
    /\ req[r].pc = "post" /\ req[r].kind \in Stops
    /\ update_session([session EXCEPT
          !.state = IF req[r].kind \in Pauses THEN "PAUSED" ELSE "STOPPED"])
    /\ Answer(r, IF req[r].kind \in Pauses THEN "stop" ELSE "stopClear")
    /\ UNCHANGED <<deviceVars, restarts>>

-----------------------------------------------------------------------------
(* Music Assistant's answers.  Its queues go on, follow commands, are cleared *)
(* and filled by others whenever it likes: a lookup may find one anywhere.    *)

\* The item of a queue that is at that place, None when there is none.
ItemOf(q, ask, place) ==
    IF place = 0 \/ (ask = "next" /\ place = QueueLength)
    THEN None
    ELSE [queue |-> q, item |-> IF ask = "next" THEN place + 1 ELSE place]

\* A track was found: resuming first tells Music Assistant to play.
Take(r, t, places) ==
    req' = [req EXCEPT
        ![r].found = t, ![r].places = places, ![r].lookups = <<>>,
        ![r].pc = IF req[r].kind \in {"resume", "playButton"} THEN "forward" ELSE "found"]

\* The query's match may be any track.
Search(r) ==
    /\ req[r].pc = "search"
    /\ \E t \in Tracks : Take(r, t, {})
    /\ UNCHANGED <<storeVars, deviceVars, restarts>>

\* A request's current lookup, and what it finds with the queue at that place.
Looks(r) == req[r].pc \in {"lookup", "lastLookup"}

Asked(r, place) == ItemOf(Head(req[r].lookups).from, Head(req[r].lookups).ask, place)

\* The places of its own queue that a next knows by then.
Seen(r, place) ==
    IF req[r].kind \in Nexts /\ Head(req[r].lookups).from = req[r].queue
    THEN req[r].places \cup {place} ELSE req[r].places

\* After the last lookup comes auto-discovery, once.
Discovers(r) == req[r].pc = "lookup" /\ req[r].kind \in Discoverers

\* The queue asked has such an item.
LookupFinds(r, place) ==
    /\ Looks(r) /\ Asked(r, place) # None
    /\ Take(r, Asked(r, place), Seen(r, place))
    /\ UNCHANGED <<storeVars, deviceVars, restarts>>

\* It has none, and there is something else to ask.
LookupGoesOn(r, place) ==
    /\ Looks(r) /\ Asked(r, place) = None
    /\ Tail(req[r].lookups) # <<>> \/ Discovers(r)
    /\ req' = [req EXCEPT
          ![r].lookups = Tail(@), ![r].places = Seen(r, place),
          ![r].pc = IF Tail(req[r].lookups) # <<>> THEN @ ELSE "discover"]
    /\ UNCHANGED <<storeVars, deviceVars, restarts>>

\* It has none, and that was all.
LookupEnds(r, place) ==
    /\ Looks(r) /\ Asked(r, place) = None
    /\ Tail(req[r].lookups) = <<>> /\ ~Discovers(r)
    /\ Respond(r)
    /\ IF req[r].kind = "nearly" THEN update_session(session) ELSE UNCHANGED storeVars
    /\ UNCHANGED <<deviceVars, restarts>>

\* Auto-discovery finds some queue or none.
Discover(r) ==
    /\ req[r].pc = "discover"
    /\ \/ \E q \in Queues :
             req' = [req EXCEPT ![r].lookups = AskOf(q, "current"),
                                ![r].pc = "lastLookup"]
       \/ Respond(r)
    /\ UNCHANGED <<storeVars, deviceVars, restarts>>

\* execute_play_command; its failures are results or logged.
Forward(r) ==
    /\ req[r].pc = "forward"
    /\ Goto(r, "found")
    /\ UNCHANGED <<storeVars, deviceVars, restarts>>

\* A call raises, or a track has no public stream URL: an apology in speech,
\* for a button or an event an empty response.
Fail(r) ==
    /\ req[r].pc \in {"search", "lookup", "discover", "lastLookup"}
    /\ Respond(r)
    /\ UNCHANGED <<storeVars, deviceVars, restarts>>

\* Buttons leave the session's queue alone.
Played(r) ==
    [session EXCEPT
        !.queue = IF req[r].kind \in Buttons THEN @ ELSE req[r].found.queue,
        !.state = "PLAYING", !.current = req[r].found]

\* The track is recorded, as playing or for a track that nears its end as
\* expected_next_token, and the answer leaves.
Finish(r) ==
    /\ req[r].pc = "found"
    /\ IF req[r].kind = "nearly"
       THEN update_session(session) /\ Answer(r, "enqueue")
       ELSE update_session(Played(r)) /\ Answer(r, "play")
    /\ UNCHANGED <<deviceVars, restarts>>

-----------------------------------------------------------------------------
(* The device, and its connection to the add-on *)

Ending(kind) == [kind |-> kind, track |-> None]
Started(t) == [kind |-> "started", track |-> t]

\* The device tells of what happened, in order.
Tell(what) ==
    /\ Len(events) + Len(what) <= MaxEvents
    /\ events' = events \o what

Interruption == IF device.plays THEN <<Ending("stopped")>> ELSE <<>>

\* The track replaces what there was.  With no older event on its way, session
\* and device now agree as soon as the event of this start is handled; from here
\* on strayed tells whether something went missing or astray since.
PlayArrives(r) ==
    /\ req[r].pc = "answering" /\ req[r].directive = "play"
    /\ device' = [track |-> req[r].found, plays |-> TRUE, next |-> None]
    /\ Tell(Interruption \o <<Started(req[r].found)>>)
    /\ strayed' = (strayed /\ events # <<>>)
    /\ Respond(r)
    /\ UNCHANGED <<storeVars, restarts>>

\* The track cannot be fetched.
PlayFails(r) ==
    /\ req[r].pc = "answering" /\ req[r].directive = "play"
    /\ device' = [track |-> req[r].found, plays |-> FALSE, next |-> None]
    /\ Tell(Interruption \o <<Ending("failed")>>)
    /\ strayed' = TRUE
    /\ Respond(r)
    /\ UNCHANGED <<storeVars, restarts>>

StopArrives(r) ==
    /\ req[r].pc = "answering" /\ req[r].directive \in {"stop", "stopClear"}
    /\ device' = [device EXCEPT
          !.plays = FALSE, !.next = IF req[r].directive = "stopClear" THEN None ELSE @]
    /\ Tell(Interruption)
    /\ Respond(r)
    /\ UNCHANGED <<storeVars, strayed, restarts>>

\* A track is enqueued only after the one expected.
EnqueueArrives(r) ==
    /\ req[r].pc = "answering" /\ req[r].directive = "enqueue"
    /\ device' = IF device.track = req[r].token
                 THEN [device EXCEPT !.next = req[r].found] ELSE device
    /\ Respond(r)
    /\ UNCHANGED <<storeVars, events, strayed, restarts>>

\* The answer is lost, or too late for the device to listen.
AnswerIsLost(r) ==
    /\ req[r].pc = "answering"
    /\ strayed' = TRUE
    /\ Respond(r)
    /\ UNCHANGED <<storeVars, device, events, restarts>>

\* The device stops at the user's hand, or its track ends or breaks off, and it
\* goes on with the one enqueued.
TrackEnds(kind) ==
    /\ device.plays
    /\ IF kind # "stopped" /\ device.next # None
       THEN /\ device' = [track |-> device.next, plays |-> TRUE, next |-> None]
            /\ Tell(<<Ending(kind), Started(device.next)>>)
       ELSE /\ device' = [device EXCEPT !.plays = FALSE]
            /\ Tell(<<Ending(kind)>>)
    /\ UNCHANGED <<storeVars, strayed, req, restarts>>

StateAfter(kind) ==
    CASE kind = "started" -> "PLAYING" [] kind = "stopped" -> "STOPPED"
      [] kind = "finished" -> "FINISHED" [] kind = "failed" -> "FAILED"

\* Mutant: a start is noted, its track is not.
Noted_stateOnly(e) == [session EXCEPT !.state = StateAfter(e.kind)]

\* What an event's handler makes of the session.
Noted(e) ==
    IF e.kind = "started"
    THEN [queue |-> e.track.queue, state |-> "PLAYING", current |-> e.track]
    ELSE [session EXCEPT !.state = StateAfter(e.kind)]

PlaybackEvent ==
    /\ events # <<>>
    /\ update_session(Noted(Head(events)))
    /\ events' = Tail(events)
    /\ UNCHANGED <<device, strayed, req, restarts>>

\* An event overtakes an older one, or is lost.
EventGoesAstray(i) ==
    /\ events' = RemoveAt(events, i)
    /\ strayed' = TRUE
    /\ \/ i > 1 /\ update_session(Noted(events[i]))
       \/ UNCHANGED storeVars
    /\ UNCHANGED <<device, req, restarts>>

-----------------------------------------------------------------------------
(* Around the handlers *)

\* The add-on restarts: requests under way get no answer, the session is what
\* its file says.
Restart ==
    /\ restarts < MaxRestarts
    /\ restarts' = restarts + 1
    /\ session' = file
    /\ req' = [r \in Requests |->
          IF req[r].pc = "idle" THEN Fresh ELSE [Fresh EXCEPT !.pc = "done"]]
    /\ strayed' = TRUE
    /\ UNCHANGED <<file, device, events>>

Handle(r) ==
    \/ PostSkip(r) \/ PostStop(r) \/ Search(r)
    \/ \E place \in 0..QueueLength :
          LookupFinds(r, place) \/ LookupGoesOn(r, place) \/ LookupEnds(r, place)
    \/ Discover(r) \/ Forward(r) \/ Fail(r) \/ Finish(r)

Deliver(r) ==
    \/ PlayArrives(r) \/ PlayFails(r) \/ StopArrives(r) \/ EnqueueArrives(r)
    \/ AnswerIsLost(r)

Next ==
    \/ \E r \in Requests :
          \/ \E k \in Kinds : Receive(r, k)
          \/ PlaybackNearlyFinished(r)
          \/ Handle(r)
          \/ Deliver(r)
    \/ \E kind \in Endings : TrackEnds(kind)
    \/ PlaybackEvent
    \/ \E i \in 1..Len(events) : EventGoesAstray(i)
    \/ Restart

Spec == Init /\ [][Next]_vars

-----------------------------------------------------------------------------
(* Properties *)

\* Handlers record what the device is to do before it is told, in an order of
\* their own, and its events come in between.  Once answers and events have
\* arrived, the session still has the device's track and knows whether it plays,
\* unless one went missing or overtook another, a play failed to start or the
\* add-on restarted since a play last arrived with no event outstanding.
SessionFollowsDevice ==
    (/\ ~strayed /\ events = <<>>
     /\ \A r \in Requests : req[r].pc # "answering")
        => /\ session.current = device.track
           /\ session.state = "PLAYING" <=> device.plays

\* A next moves on, however late Music Assistant follows the command and whatever
\* else moves the queue meanwhile: it plays the item after a place it found its
\* queue at, and the item of such a place only if it also found its end, or none.
NextMovesOn ==
    [][\A r \in Requests :
          (/\ req[r].kind \in Nexts /\ req[r].found # None
           /\ req[r].found.queue = req[r].queue /\ req'[r].directive = "play")
              => \/ req[r].found.item - 1 \in req[r].places
                 \/ /\ req[r].found.item \in req[r].places
                    /\ req[r].places \cap {0, QueueLength} # {}]_vars

=============================================================================
