---------------------------- MODULE PlayerHandoff ---------------------------
(***************************************************************************)
(* handoff_playback_url of the Music Assistant client (ma/client.py): it   *)
(* gets Music Assistant to play the stream URL of a push-url callback on a *)
(* player that is no Alexa device, one handoff per player at a time.       *)
(*                                                                         *)
(* The operators are the handoff's runs between two awaits, on its own     *)
(* variables.  A module that uses them says what a callback does with the  *)
(* outcome, which is known in the step that ends the handoff.              *)
(***************************************************************************)
EXTENDS Naturals, Sequences

CONSTANTS
    Callbacks,      \* the callers
    MediaAttempts,  \* play_media attempts on a player that takes URLs; the code
                    \* makes four for each queue id it knows and one more
    None

VARIABLES
    edgeMode,   \* settings.is_edge_mode, passed on as require_direct_url
    holder,     \* the callback in the player's handoff lock
    hand,       \* step, URL and remaining attempts of each handoff
    loaded      \* the URL that the player got last, and whether a play command
                \* was accepted after it

\* The stream URL of the Worker's handoff, or the one built from the add-on's
\* own public address.
Forms == {"stream", "public"}
Modes == {"media", "queue_resume_play", "player_resume_play"}
Out == [at |-> "out", form |-> "public", left |-> <<>>]

\* What a player can have loaded.
Urls == [by : Callbacks, form : Forms, playing : BOOLEAN]

HandoffTypeOK ==
    /\ edgeMode \in BOOLEAN
    /\ holder \in Callbacks \cup {None}
    /\ \A p \in Callbacks :
          /\ hand[p].at \in {"out", "players", "command", "play", "readback"}
          /\ hand[p].form \in Forms
          /\ hand[p].left \in Seq(Modes)
    /\ loaded \in Urls \cup {None}

HandoffInit ==
    /\ edgeMode \in BOOLEAN
    /\ holder = None
    /\ hand = [p \in Callbacks |-> Out]
    /\ loaded = None

Proceed(p, l, left) ==
    hand' = [hand EXCEPT ![p].at = l, ![p].left = left]

\* Mutant: the lock is never found taken.
Locked_never == FALSE

\* handoff_lock.locked(): a second handoff is turned away, it does not wait.
Locked == holder # None

\* The handoff enters the lock; nothing is awaited between test and entry.
BeginHandoff(p, form) ==
    /\ ~Locked
    /\ holder' = p
    /\ hand' = [hand EXCEPT ![p] = [at |-> "players", form |-> form, left |-> <<>>]]
    /\ UNCHANGED <<edgeMode, loaded>>

EndHandoff(p) ==
    /\ holder' = None
    /\ hand' = [hand EXCEPT ![p] = Out]

\* play_media payloads if the player takes URLs, then the two ways to resume
\* what it has.
AttemptsFor(direct) ==
    [i \in 1..(IF direct THEN MediaAttempts ELSE 0) |-> "media"]
        \o <<"queue_resume_play", "player_resume_play">>

\* The player was found, its queues were looked up.
FindPlayer(p) ==
    /\ hand[p].at = "players"
    /\ \E direct \in BOOLEAN : Proceed(p, "command", AttemptsFor(direct))
    /\ UNCHANGED <<edgeMode, holder, loaded>>

\* The player is not there or Music Assistant fails before the first attempt;
\* an error other than Music Assistant's leaves from any step.
AbandonHandoff(p) ==
    /\ hand[p].at # "out"
    /\ EndHandoff(p)
    /\ UNCHANGED <<edgeMode, loaded>>

NextAttempt(p) == Proceed(p, "command", Tail(hand[p].left))

Mode(p) == Head(hand[p].left)

\* With require_direct_url a resume is a state sync, not a success.
CountsAsPlayed(mode) == mode = "media" \/ ~edgeMode

\* Music Assistant takes the attempt's command.
AttemptAccepted(p) ==
    /\ hand[p].at = "command" /\ hand[p].left # <<>>
    /\ IF Mode(p) = "media"
       THEN /\ loaded' = [by |-> p, form |-> hand[p].form, playing |-> FALSE]
            /\ Proceed(p, "play", hand[p].left)
       ELSE /\ loaded' = IF loaded = None THEN None ELSE [loaded EXCEPT !.playing = TRUE]
            /\ IF CountsAsPlayed(Mode(p)) THEN Proceed(p, "readback", <<>>) ELSE NextAttempt(p)
    /\ UNCHANGED <<edgeMode, holder>>

\* It is refused, or the answer is late or lost and the URL may be there.
AttemptFailed(p) ==
    /\ hand[p].at = "command" /\ hand[p].left # <<>>
    /\ NextAttempt(p)
    /\ \/ UNCHANGED loaded
       \/ /\ Mode(p) = "media"
          /\ loaded' = [by |-> p, form |-> hand[p].form, playing |-> FALSE]
    /\ UNCHANGED <<edgeMode, holder>>

\* The attempt counts as failed although its play_media was accepted.
AfterPlayFailed(p) == NextAttempt(p)

\* players/cmd/play, after an accepted play_media.
ExplicitPlay(p) ==
    /\ hand[p].at = "play"
    /\ \/ /\ Proceed(p, "readback", <<>>)
          /\ loaded' = [loaded EXCEPT !.playing = TRUE]
       \/ /\ AfterPlayFailed(p)
          /\ UNCHANGED loaded
    /\ UNCHANGED <<edgeMode, holder>>

\* Queue and player are read back, for the log: the handoff succeeded.
HandoffSucceeds(p) ==
    /\ hand[p].at = "readback"
    /\ EndHandoff(p)
    /\ UNCHANGED <<edgeMode, loaded>>

\* "direct-url-play-failed" or "play-media-command-failed".
AttemptsUsedUp(p) == hand[p].at = "command" /\ hand[p].left = <<>>

=============================================================================
