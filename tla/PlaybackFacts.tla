---------------------------- MODULE PlaybackFacts ---------------------------
(***************************************************************************)
(* What whoever polls the playback-start watch of a home may rely on: for  *)
(* each playback session, whether it is tracked, whether the device has    *)
(* fetched the stream and whether it reported playback.  A session is      *)
(* tracked once, with a clean slate; what is known of it is known for      *)
(* good; and nothing is ever known of a session that is not tracked.       *)
(*                                                                         *)
(* Of the map in memory, the copies in durable storage, the reads that     *)
(* fill the map again and the restarts that empty it, nothing is seen.     *)
(* PlaybackStart implements this within WorkerPlayback and PushUrl.        *)
(***************************************************************************)
CONSTANT Sessions

VARIABLES tracked, fetched, started

facts == <<tracked, fetched, started>>

Init == tracked = {} /\ fetched = {} /\ started = {}

Track(s) ==
    /\ s \notin tracked
    /\ tracked' = tracked \cup {s}
    /\ UNCHANGED <<fetched, started>>

LearnFetch(s) ==
    /\ s \in tracked
    /\ fetched' = fetched \cup {s}
    /\ UNCHANGED <<tracked, started>>

LearnStart(s) ==
    /\ s \in tracked
    /\ started' = started \cup {s}
    /\ UNCHANGED <<tracked, fetched>>

Next == \E s \in Sessions : Track(s) \/ LearnFetch(s) \/ LearnStart(s)

Spec == Init /\ [][Next]_facts

=============================================================================
