--------------------------- MODULE PlaybackStart ----------------------------
(***************************************************************************)
(* The playback-start watch of a home's durable object (HomeSession.ts,    *)
(* /playback-start): what is known of each playback session the Worker     *)
(* handed to the add-on.  Every record lives in the playbackStarts map and *)
(* in durable storage; a restart of the object empties the map, and reads  *)
(* fill it again from storage.                                             *)
(***************************************************************************)
CONSTANTS
    Sessions,  \* playback session ids, each registered at most once
    None       \* no record

VARIABLES
    playbackStarts,  \* the map in memory
    stored           \* the playback_start:<id> keys of durable storage

watchVars == <<playbackStarts, stored>>

\* The timestamps of a record that a status poll goes by, as flags.
Records == [fetched : BOOLEAN, started : BOOLEAN]

ASSUME NoneIsNoRecord == None \notin Records

WatchTypeOK ==
    /\ playbackStarts \in [Sessions -> Records \cup {None}]
    /\ stored \in [Sessions -> Records \cup {None}]

WatchInit ==
    /\ playbackStarts = [s \in Sessions |-> None]
    /\ stored = [s \in Sessions |-> None]

\* Mutant: the record is changed in memory only.
savePlaybackStartState_memoryOnly(s, rec) ==
    /\ playbackStarts' = [playbackStarts EXCEPT ![s] = rec]
    /\ UNCHANGED stored

savePlaybackStartState(s, rec) ==
    /\ playbackStarts' = [playbackStarts EXCEPT ![s] = rec]
    /\ stored' = [stored EXCEPT ![s] = rec]

\* Memory first, then storage.
getPlaybackStartState(s) ==
    IF playbackStarts[s] # None THEN playbackStarts[s] ELSE stored[s]

\* action "status": what the add-on's poll is told.
StreamFetchStarted(s) ==
    getPlaybackStartState(s) # None /\ getPlaybackStartState(s).fetched

PlaybackStarted(s) ==
    getPlaybackStartState(s) # None /\ getPlaybackStartState(s).started

\* A read that found the record in storage keeps it in memory.
Load(s) ==
    /\ playbackStarts' = [playbackStarts EXCEPT ![s] = getPlaybackStartState(s)]
    /\ UNCHANGED stored

\* action "register": a new record, whatever was there.
Register(s) ==
    savePlaybackStartState(s, [fetched |-> FALSE, started |-> FALSE])

\* action "mark_fetched": the first fetch is recorded, later ones and those of
\* an unknown session are acknowledged without a trace.
MarkFetched(s) ==
    LET rec == getPlaybackStartState(s) IN
    IF rec = None \/ StreamFetchStarted(s)
    THEN Load(s)
    ELSE savePlaybackStartState(s, [rec EXCEPT !.fetched = TRUE])

\* Mutant: a failure takes the earlier start back.
WithEvent_exclusive(rec, e) ==
    IF e = "started" THEN [rec EXCEPT !.started = TRUE]
    ELSE IF e = "failed" THEN [rec EXCEPT !.started = FALSE] ELSE rec

\* A failure is noted beside the start, in fields the polls do not go by.
WithEvent(rec, e) ==
    IF e = "started" THEN [rec EXCEPT !.started = TRUE] ELSE rec

\* action "mark_playback_event": AudioPlayer.PlaybackStarted and PlaybackFailed
\* are kept once seen, the other AudioPlayer events leave the record as it is.
MarkPlaybackEvent(s, e) ==
    LET rec == getPlaybackStartState(s) IN
    IF rec = None THEN Load(s) ELSE savePlaybackStartState(s, WithEvent(rec, e))

\* The platform restarts the object.
WatchRestart ==
    /\ playbackStarts' = [s \in Sessions |-> None]
    /\ UNCHANGED stored

-----------------------------------------------------------------------------
\* What a poll can see of a session only grows, restarts included: a fetch or
\* a start that was reported once is reported for ever.
WatchFactsGrow ==
    [][\A s \in Sessions :
          /\ StreamFetchStarted(s) => StreamFetchStarted(s)'
          /\ PlaybackStarted(s) => PlaybackStarted(s)']_watchVars

TrackedSessions == {s \in Sessions : getPlaybackStartState(s) # None}
FetchedSessions == {s \in Sessions : StreamFetchStarted(s)}
StartedSessions == {s \in Sessions : PlaybackStarted(s)}

Facts == INSTANCE PlaybackFacts
         WITH tracked <- TrackedSessions, fetched <- FetchedSessions,
              started <- StartedSessions

\* A map in memory over durable storage, filled again after restarts, is to its
\* readers one table that keeps what it was told: no registration, no repeated or
\* late report and no restart of the object takes anything back.
ImplementsFacts == Facts!Spec

=============================================================================
