---------------------------- MODULE PushUrlProofs ---------------------------
(***************************************************************************)
(* What is proved of PushUrl for any callbacks, sessions and probes: its   *)
(* safety properties and what the watch keeps, from an inductive invariant *)
(* in parts: the watch, the player's lock, the attempt and its cache       *)
(* entry, the sessions, and the handoff of a player that is no Alexa one.  *)
(* Then: that the watch implements a table of facts, that every callback   *)
(* leaves the locks it took, and that its steps are bounded.               *)
(***************************************************************************)
EXTENDS PushUrl, SequenceTheorems, TLAPS

UnderLock == {"reusing"} \cup Starting

\* The watch's memory repeats its storage or is silent.
Coherent == \A s \in Sessions : playbackStarts[s] \in {None, stored[s]}

HandTyped ==
    hand \in [Callbacks -> [at : {"out", "players", "command", "play", "readback"},
                            form : Forms, left : Seq(Modes)]]

\* Whoever is past the lock is at its head; everybody in it waits or is past it,
\* and is in it once.
LockInv ==
    /\ \A i \in 1..Len(lockQueue) : pc[lockQueue[i]] \in UnderLock \cup {"locking"}
    /\ \A i, j \in 1..Len(lockQueue) : lockQueue[i] = lockQueue[j] => i = j
    /\ \A p \in Callbacks : pc[p] \in UnderLock => HoldsLock(p)

\* The callback has a session whose watch shows a fetch or a start.
Proven(p) == session[p] # None /\ StartObserved(session[p])

\* A running attempt owns the cache entry; a success in the cache, and whoever is
\* about to report one or has, goes by a session with a start on record.
AttemptInv ==
    /\ \A p \in Callbacks :
          /\ pc[p] \in Starting => cache.status = "running" /\ cache.by = p
          /\ pc[p] = "polling" => session[p] # None
          /\ pc[p] \in {"reusing", "readback"} => Proven(p)
          /\ result[p] \in {"ok", "reused"} => Proven(p)
          /\ result[p] # "none" => pc[p] = "done"
    /\ cache.status = "succeeded" =>
          cache.by \in Callbacks /\ pc[cache.by] = "done" /\ Proven(cache.by)

\* A session nobody has been answered yet has nothing on record.
SessionInv ==
    /\ \A p \in Callbacks : session[p] # None => pc[p] \in {"reusing", "polling", "readback", "done"}
    /\ \A s \in Sessions : StartObserved(s) => UrlIsOut(s)

\* The handoff in progress is the one in the lock; nobody else has loaded a URL
\* since it did.
DirectInv ==
    \A p \in Callbacks :
        /\ hand[p].at # "out" => holder = p /\ pc[p] = "handing"
        /\ hand[p].at = "play" => loaded # None /\ loaded.by = p /\ hand[p].left # << >>
        /\ edgeMode /\ hand[p].at = "readback" =>
              loaded # None /\ loaded.by = p /\ loaded.playing

IInv == TypeOK /\ HandTyped /\ Coherent /\ LockInv /\ AttemptInv /\ SessionInv /\ DirectInv

-----------------------------------------------------------------------------
(* The operations of the watch *)

\* What a poll sees of session s is not taken back.
FactsStay(s) ==
    /\ StreamFetchStarted(s) => StreamFetchStarted(s)'
    /\ PlaybackStarted(s) => PlaybackStarted(s)'

NothingNew(s) == StartObserved(s)' => StartObserved(s)

Same(s) == FactsStay(s) /\ NothingNew(s)

LEMMA Reads ==
  ASSUME WatchTypeOK, Coherent, NEW s \in Sessions
  PROVE  getPlaybackStartState(s) = stored[s]
  BY DEF Coherent, getPlaybackStartState

LEMMA ReadsNext ==
  ASSUME WatchTypeOK', Coherent', NEW s \in Sessions
  PROVE  getPlaybackStartState(s)' = stored'[s]
  BY DEF Coherent, getPlaybackStartState

LEMMA StoredFacts ==
  ASSUME WatchTypeOK, Coherent, WatchTypeOK', Coherent', NEW s \in Sessions
  PROVE  /\ stored'[s] = stored[s] => Same(s)
         /\ /\ stored[s] # None => stored'[s] # None
            /\ stored[s] # None /\ stored[s].fetched => stored'[s].fetched
            /\ stored[s] # None /\ stored[s].started => stored'[s].started
            => FactsStay(s)
  BY Reads, ReadsNext
  DEF Same, FactsStay, NothingNew, StartObserved, StreamFetchStarted, PlaybackStarted

LEMMA Saves ==
  ASSUME WatchTypeOK, Coherent, NEW s \in Sessions, NEW rec \in Records,
         savePlaybackStartState(s, rec)
  PROVE  /\ WatchTypeOK' /\ Coherent' /\ stored' = [stored EXCEPT ![s] = rec]
         /\ \A x \in Sessions \ {s} : Same(x)
<1>1. WatchTypeOK' /\ Coherent' /\ stored' = [stored EXCEPT ![s] = rec]
  BY DEF WatchTypeOK, Coherent, savePlaybackStartState
<1>2. \A x \in Sessions \ {s} : stored'[x] = stored[x]
  BY <1>1 DEF WatchTypeOK
<1> QED
  BY <1>1, <1>2, StoredFacts

LEMMA Loads ==
  ASSUME WatchTypeOK, Coherent, NEW s \in Sessions, Load(s)
  PROVE  WatchTypeOK' /\ Coherent' /\ \A x \in Sessions : Same(x)
<1>1. WatchTypeOK' /\ Coherent' /\ stored' = stored
  BY Reads DEF WatchTypeOK, Coherent, Load
<1> QED
  BY <1>1, StoredFacts

\* Registering a session touches no other one.
LEMMA Registers ==
  ASSUME WatchTypeOK, Coherent, NEW s \in Sessions, Register(s)
  PROVE  WatchTypeOK' /\ Coherent' /\ \A x \in Sessions \ {s} : Same(x)
<1>1. [fetched |-> FALSE, started |-> FALSE] \in Records
  BY DEF Records
<1> QED
  BY <1>1, Saves DEF Register

\* A registered session has nothing on record, whatever it had.
LEMMA RegistersBlank ==
  ASSUME WatchTypeOK, Coherent, NEW s \in Sessions, Register(s)
  PROVE  ~StreamFetchStarted(s)' /\ ~PlaybackStarted(s)'
<1>1. [fetched |-> FALSE, started |-> FALSE] \in Records
  BY DEF Records
<1>2. WatchTypeOK' /\ Coherent' /\ stored'[s] = [fetched |-> FALSE, started |-> FALSE]
  BY <1>1, Saves DEF Register, WatchTypeOK
<1> QED
  BY <1>2, ReadsNext DEF StreamFetchStarted, PlaybackStarted

\* What the device does adds to the record and takes nothing back.
LEMMA Marks ==
  ASSUME WatchTypeOK, Coherent, NEW s \in Sessions,
         MarkFetched(s) \/ \E e \in {"started", "failed", "other"} : MarkPlaybackEvent(s, e)
  PROVE  WatchTypeOK' /\ Coherent' /\ \A x \in Sessions : FactsStay(x) /\ (x # s => NothingNew(x))
<1>1. CASE Load(s)
  BY <1>1, Loads DEF Same
<1>2. ASSUME NEW rec \in Records, stored[s] # None, savePlaybackStartState(s, rec),
             stored[s].fetched => rec.fetched, stored[s].started => rec.started
      PROVE  WatchTypeOK' /\ Coherent' /\ \A x \in Sessions : FactsStay(x) /\ (x # s => NothingNew(x))
  <2>1. WatchTypeOK' /\ Coherent' /\ stored'[s] = rec /\ \A x \in Sessions \ {s} : Same(x)
    BY <1>2, Saves DEF WatchTypeOK
  <2>2. FactsStay(s)
    BY <1>2, <2>1, StoredFacts, NoneIsNoRecord
  <2> QED
    BY <2>1, <2>2 DEF Same
<1>3. CASE stored[s] # None /\ savePlaybackStartState(s, [stored[s] EXCEPT !.fetched = TRUE])
  <2> DEFINE rec == [stored[s] EXCEPT !.fetched = TRUE]
  <2>1. rec \in Records /\ rec.fetched /\ (stored[s].started => rec.started)
    BY <1>3 DEF WatchTypeOK, Records
  <2> QED
    BY <1>2, <1>3, <2>1
<1>4. ASSUME NEW e \in {"started", "failed", "other"}, stored[s] # None,
             savePlaybackStartState(s, WithEvent(stored[s], e))
      PROVE  WatchTypeOK' /\ Coherent' /\ \A x \in Sessions : FactsStay(x) /\ (x # s => NothingNew(x))
  <2> DEFINE rec == WithEvent(stored[s], e)
  <2>1. rec \in Records /\ (stored[s].fetched => rec.fetched) /\ (stored[s].started => rec.started)
    <3>1. stored[s] \in Records /\ rec \in {stored[s], [stored[s] EXCEPT !.started = TRUE]}
      BY <1>4 DEF WatchTypeOK, WithEvent
    <3> HIDE DEF rec
    <3> QED
      BY <3>1 DEF Records
  <2> QED
    BY <1>2, <1>4, <2>1
<1>5. getPlaybackStartState(s) = stored[s]
  BY Reads
<1> QED
  BY <1>1, <1>3, <1>4, <1>5 DEF MarkFetched, MarkPlaybackEvent

\* A restart forgets nothing.
LEMMA Restarts ==
  ASSUME WatchTypeOK, Coherent, WatchRestart
  PROVE  WatchTypeOK' /\ Coherent' /\ \A x \in Sessions : Same(x)
<1>1. WatchTypeOK' /\ Coherent' /\ stored' = stored
  BY DEF WatchTypeOK, Coherent, WatchRestart
<1> QED
  BY <1>1, StoredFacts

LEMMA WatchIdle ==
  ASSUME WatchTypeOK, Coherent, UNCHANGED watchVars
  PROVE  WatchTypeOK' /\ Coherent' /\ \A x \in Sessions : Same(x)
<1>1. WatchTypeOK' /\ Coherent' /\ stored' = stored
  BY DEF WatchTypeOK, Coherent, watchVars
<1> QED
  BY <1>1, StoredFacts

\* No step takes back what the watch has shown, and only a session that a
\* callback was answered gets anything new.
LEMMA WatchStep ==
  ASSUME IInv, [Next]_vars
  PROVE  /\ WatchTypeOK' /\ Coherent'
         /\ \A s \in Sessions : FactsStay(s) /\ (NothingNew(s) \/ UrlIsOut(s))
<1> USE DEF Same
<1>0. WatchTypeOK /\ Coherent
  BY DEF IInv, TypeOK
<1>1. CASE UNCHANGED watchVars
  BY <1>0, <1>1, WatchIdle
<1>2. ASSUME NEW p \in Callbacks, NEW s \in Sessions, HandoffAccepted(p, s)
      PROVE  /\ WatchTypeOK' /\ Coherent'
             /\ \A x \in Sessions : FactsStay(x) /\ (NothingNew(x) \/ UrlIsOut(x))
  <2>1. CASE Register(s)
    <3>1. ~StartObserved(s)
      BY <1>2 DEF HandoffAccepted, WorkerHandoff, IInv, SessionInv, UrlIsOut
    <3>2. Same(s)
      BY <1>0, <2>1, <3>1, RegistersBlank DEF FactsStay, NothingNew, StartObserved
    <3> QED
      BY <1>0, <2>1, <3>2, Registers
  <2> QED
    BY <1>1, <1>2, <2>1 DEF HandoffAccepted, WorkerHandoff
<1>3. ASSUME NEW p \in Callbacks, PollSeesStart(p)
      PROVE  WatchTypeOK' /\ Coherent' /\ \A x \in Sessions : Same(x)
  <2>1. session[p] \in Sessions
    BY <1>3 DEF PollSeesStart, IInv, TypeOK, AttemptInv
  <2> QED
    BY <1>0, <1>3, <2>1, Loads DEF PollSeesStart
<1>4. ASSUME NEW s \in Sessions, DeviceActs(s)
      PROVE  /\ WatchTypeOK' /\ Coherent'
             /\ \A x \in Sessions : FactsStay(x) /\ (NothingNew(x) \/ UrlIsOut(x))
  BY <1>0, <1>4, Marks DEF DeviceActs
<1>5. CASE ObjectRestarts
  BY <1>0, <1>5, Restarts DEF ObjectRestarts
<1> QED
  BY <1>1, <1>2, <1>3, <1>4, <1>5
  DEF Next, Handle, vars, Refuse, Receive, BootstrapSent, BootstrapFailed, ProbeObserved,
      BootstrapTimeout, Rejected, QueueForLock, EnterCoalesced, EnterReuse, EnterStart,
      ReuseReadback, HandoffFailed, PollGivesUp, ReadbackDone, ReadbackRaises, StartDirect,
      WorkerAnswered, WorkerFailed, Handing, Sent, RetryWithPublicUrl, NotSent, CacheAges,
      AlexaProbe

-----------------------------------------------------------------------------
(* The handoff of a player that is no Alexa one *)

HandoffKept == HandTyped' /\ HandoffTypeOK'

LEMMA HandTypes == HandTyped => \A p \in Callbacks :
    /\ hand[p].at \in {"out", "players", "command", "play", "readback"}
    /\ hand[p].form \in Forms /\ hand[p].left \in Seq(Modes)
  BY DEF HandTyped

LEMMA Attempts ==
  ASSUME NEW direct \in BOOLEAN
  PROVE  AttemptsFor(direct) \in Seq(Modes)
<1> DEFINE n == IF direct THEN MediaAttempts ELSE 0
           media == [i \in 1..n |-> "media"]
           resume == <<"queue_resume_play", "player_resume_play">>
<1>1. n \in Nat
  BY MediaAttemptsIsNat
<1>2. media \in Seq(Modes)
  BY <1>1 DEF Modes
<1>3. resume \in Seq(Modes)
  BY DEF Modes
<1>4. media \o resume \in Seq(Modes)
  <2> HIDE DEF media, resume
  <2> QED
    BY <1>2, <1>3
<1> QED
  BY <1>4 DEF AttemptsFor

LEMMA Begins ==
  ASSUME HandTyped, HandoffTypeOK, NEW p \in Callbacks, NEW form \in Forms, BeginHandoff(p, form)
  PROVE  HandoffKept
<1>1. << >> \in Seq(Modes)
  OBVIOUS
<1> QED
  BY <1>1 DEF HandoffKept, HandTyped, HandoffTypeOK, BeginHandoff

LEMMA Ends ==
  ASSUME HandTyped, HandoffTypeOK, NEW p \in Callbacks, EndHandoff(p), UNCHANGED <<edgeMode, loaded>>
  PROVE  HandoffKept
<1>1. << >> \in Seq(Modes)
  OBVIOUS
<1> QED
  BY <1>1 DEF HandoffKept, HandTyped, HandoffTypeOK, EndHandoff, Out, Forms

\* A step within the handoff.
LEMMA Proceeds ==
  ASSUME HandTyped, HandoffTypeOK, NEW p \in Callbacks,
         NEW l \in {"players", "command", "play", "readback"}, NEW left \in Seq(Modes),
         Proceed(p, l, left), loaded' \in Urls \cup {None}, UNCHANGED <<edgeMode, holder>>
  PROVE  HandoffKept
  BY DEF HandoffKept, HandTyped, HandoffTypeOK, Proceed

LEMMA Steps ==
  ASSUME HandTyped, HandoffTypeOK, NEW p \in Callbacks,
         FindPlayer(p) \/ AttemptAccepted(p) \/ AttemptFailed(p) \/ ExplicitPlay(p),
         hand[p].at = "play" => loaded # None /\ hand[p].left # << >>
  PROVE  HandoffKept
<1>1. /\ << >> \in Seq(Modes) /\ hand[p].left \in Seq(Modes) /\ hand[p].form \in Forms
      /\ hand[p].left # << >> => Tail(hand[p].left) \in Seq(Modes)
  BY HandTypes
<1>2. [by |-> p, form |-> hand[p].form, playing |-> FALSE] \in Urls
  BY <1>1 DEF Urls
<1>3. loaded # None => [loaded EXCEPT !.playing = TRUE] \in Urls
  BY DEF HandoffTypeOK, Urls
<1>4. loaded \in Urls \cup {None}
  BY DEF HandoffTypeOK
<1>5. CASE FindPlayer(p)
  BY <1>4, <1>5, Attempts, Proceeds DEF FindPlayer
<1>6. ASSUME hand[p].left # << >>, NextAttempt(p), loaded' \in Urls \cup {None},
             UNCHANGED <<edgeMode, holder>>
      PROVE  HandoffKept
  <2>1. Proceed(p, "command", Tail(hand[p].left)) /\ Tail(hand[p].left) \in Seq(Modes)
    BY <1>1, <1>6 DEF NextAttempt
  <2> QED
    BY <1>6, <2>1, Proceeds
<1>7. CASE AttemptAccepted(p)
  <2>1. loaded' \in Urls \cup {None} /\ UNCHANGED <<edgeMode, holder>>
    BY <1>2, <1>3, <1>4, <1>7 DEF AttemptAccepted
  <2>2. CASE Proceed(p, "play", hand[p].left)
    BY <1>1, <2>1, <2>2, Proceeds
  <2>3. CASE Proceed(p, "readback", <<>>)
    BY <1>1, <2>1, <2>3, Proceeds
  <2> QED
    BY <1>6, <1>7, <2>1, <2>2, <2>3 DEF AttemptAccepted
<1>8. CASE AttemptFailed(p)
  BY <1>2, <1>4, <1>6, <1>8 DEF AttemptFailed
<1>9. CASE ExplicitPlay(p)
  <2>1. CASE Proceed(p, "readback", <<>>) /\ loaded' = [loaded EXCEPT !.playing = TRUE]
    BY <1>1, <1>3, <1>9, <2>1, Proceeds DEF ExplicitPlay
  <2>2. CASE AfterPlayFailed(p) /\ UNCHANGED loaded
    BY <1>4, <1>6, <1>9, <2>2 DEF ExplicitPlay, AfterPlayFailed
  <2> QED
    BY <1>9, <2>1, <2>2 DEF ExplicitPlay
<1> QED
  BY <1>5, <1>7, <1>8, <1>9

LEMMA HandOvers ==
  ASSUME IInv, NEW p \in Callbacks, NEW form \in Forms, HandOver(p, form)
  PROVE  HandoffKept
<1>1. CASE BeginHandoff(p, form)
  BY <1>1, Begins DEF IInv, TypeOK
<1>2. CASE UNCHANGED <<edgeMode, holder, hand, loaded>>
  BY <1>2 DEF HandoffKept, HandTyped, HandoffTypeOK, IInv, TypeOK
<1> QED
  BY <1>1, <1>2 DEF HandOver

\* Whatever the callback does, the handoff's variables keep their types.
LEMMA DirectTypes ==
  ASSUME IInv, [Next]_vars
  PROVE  HandoffKept
<1> USE DEF directVars
<1>0. HandTyped /\ HandoffTypeOK
  BY DEF IInv, TypeOK
<1>1. CASE UNCHANGED <<edgeMode, holder, hand, loaded>>
  BY <1>0, <1>1 DEF HandoffKept, HandTyped, HandoffTypeOK
<1>2. ASSUME NEW p \in Callbacks, StartDirect(p) \/ WorkerAnswered(p)
      PROVE  HandoffKept
  BY <1>1, <1>2, HandOvers DEF StartDirect, WorkerAnswered, Forms
<1>3. ASSUME NEW p \in Callbacks, Handing(p)
      PROVE  HandoffKept
  BY <1>0, <1>3, Steps DEF Handing, IInv, DirectInv
<1>4. ASSUME NEW p \in Callbacks, RetryWithPublicUrl(p)
      PROVE  HandoffKept
  <2>1. << >> \in Seq(Modes)
    OBVIOUS
  <2> QED
    BY <1>0, <1>4, <2>1
    DEF RetryWithPublicUrl, HandoffKept, HandTyped, HandoffTypeOK, Forms
<1>5. ASSUME NEW p \in Callbacks, Sent(p) \/ NotSent(p)
      PROVE  HandoffKept
  BY <1>0, <1>5, Ends DEF Sent, HandoffSucceeds, NotSent, AbandonHandoff
<1> QED
  BY <1>1, <1>2, <1>3, <1>4, <1>5
  DEF Next, Handle, vars, addonVars, Refuse, Receive, BootstrapSent, BootstrapFailed, ProbeObserved,
      BootstrapTimeout, Rejected, QueueForLock, EnterCoalesced, EnterReuse, EnterStart,
      ReuseReadback, HandoffAccepted, HandoffFailed, PollSeesStart, PollGivesUp,
      ReadbackDone, ReadbackRaises, WorkerFailed, CacheAges, AlexaProbe, DeviceActs,
      ObjectRestarts

-----------------------------------------------------------------------------
(* Types *)

AddonTyped ==
    /\ pc \in [Callbacks -> PCs]
    /\ kind \in [Callbacks -> {"live", "hinted", "plain"}]
    /\ probe \in 0..MaxProbes
    /\ seenProbe \in [Callbacks -> 0..MaxProbes]
    /\ confirmed \in [Callbacks -> BOOLEAN]
    /\ lockQueue \in Seq(Callbacks)
    /\ cache \in [status : {"none", "running", "succeeded", "failed"},
                  by : Callbacks \cup {None}, fresh : BOOLEAN]
    /\ session \in [Callbacks -> Sessions \cup {None}]
    /\ result \in [Callbacks -> Results]
    /\ alexaPlayer \in BOOLEAN

LEMMA Released ==
  ASSUME AddonTyped, NEW p \in Callbacks, HoldsLock(p), Release(p)
  PROVE  lockQueue' \in Seq(Callbacks)
  BY DEF AddonTyped, HoldsLock, Release

LEMMA Stored ==
  ASSUME NEW p \in Callbacks, NEW status \in {"running", "succeeded", "failed"}, Store(p, status)
  PROVE  /\ cache' \in [status : {"none", "running", "succeeded", "failed"},
                        by : Callbacks \cup {None}, fresh : BOOLEAN]
         /\ cache'.status = status /\ cache'.by = p
  BY DEF Store

LEMMA Moved ==
  ASSUME AddonTyped, NEW p \in Callbacks
  PROVE  /\ \A l \in PCs : Goto(p, l) => pc' \in [Callbacks -> PCs]
         /\ \A res \in Results : Answer(p, res) =>
               pc' \in [Callbacks -> PCs] /\ result' \in [Callbacks -> Results]
<1>1. "done" \in PCs
  BY DEF PCs
<1>2. ASSUME NEW l \in PCs, Goto(p, l) PROVE pc' \in [Callbacks -> PCs]
  BY <1>2 DEF AddonTyped, Goto
<1>3. ASSUME NEW res \in Results, Answer(p, res)
      PROVE  pc' \in [Callbacks -> PCs] /\ result' \in [Callbacks -> Results]
  BY <1>1, <1>2, <1>3 DEF AddonTyped, Answer
<1> QED
  BY <1>2, <1>3

LEMMA Names ==
  /\ {"bootstrap", "awaitProbe", "players", "locking", "reusing", "askWorker", "handing"}
        \cup Starting \subseteq PCs
  /\ {"error", "coalesced", "reused", "ok", "sent"} \subseteq Results
  /\ {"handoff", "polling", "readback"} \subseteq Starting
  BY DEF PCs, Starting, Results

LEMMA CallbackTypes ==
  ASSUME IInv, [Next]_vars
  PROVE  AddonTyped'
<1> USE Names
<1>0. AddonTyped
  BY DEF AddonTyped, IInv, TypeOK
<1>1. ASSUME NEW p \in Callbacks,
             \/ Refuse(p) \/ Receive(p) \/ BootstrapSent(p) \/ BootstrapFailed(p)
             \/ ProbeObserved(p) \/ BootstrapTimeout(p) \/ Rejected(p) \/ QueueForLock(p)
      PROVE  AddonTyped'
  <2> USE DEF Refuse, Receive, BootstrapSent, BootstrapFailed, ProbeObserved,
              BootstrapTimeout, Rejected, QueueForLock
  <2>1. pc' \in [Callbacks -> PCs]
    BY <1>0, <1>1, Moved
  <2>2. result' \in [Callbacks -> Results]
    BY <1>0, <1>1, Moved DEF AddonTyped
  <2>3. seenProbe' \in [Callbacks -> 0..MaxProbes]
    <3>1. seenProbe' \in {seenProbe, [seenProbe EXCEPT ![p] = probe]}
      BY <1>1
    <3> QED
      BY <1>0, <3>1 DEF AddonTyped
  <2>4. confirmed' \in [Callbacks -> BOOLEAN]
    <3>1. confirmed' \in {confirmed, [confirmed EXCEPT ![p] = TRUE]}
      BY <1>1
    <3> QED
      BY <1>0, <3>1 DEF AddonTyped
  <2>5. lockQueue' \in Seq(Callbacks)
    <3>1. lockQueue' = lockQueue \/ lockQueue' = Append(lockQueue, p)
      BY <1>1, Zenon
    <3>2. lockQueue \in Seq(Callbacks)
      BY <1>0 DEF AddonTyped
    <3>3. Append(lockQueue, p) \in Seq(Callbacks)
      BY <3>2
    <3> QED
      BY <3>1, <3>2, <3>3, Zenon
  <2>6. UNCHANGED <<kind, probe, cache, session, alexaPlayer>>
    BY <1>1 DEF directVars
  <2> QED
    BY <1>0, <2>1, <2>2, <2>3, <2>4, <2>5, <2>6 DEF AddonTyped
<1>2. ASSUME NEW p \in Callbacks, EnterCoalesced(p) \/ EnterReuse(p) \/ EnterStart(p)
      PROVE  AddonTyped'
  <2>1. EnterReuse(p) => session[cache.by] \in Sessions
    BY <1>0, <1>2 DEF EnterReuse, Cached, IInv, AttemptInv, Proven, AddonTyped
  <2> QED
    BY <1>0, <1>2, <2>1, Moved, Released, Stored
    DEF directVars, EnterCoalesced, EnterReuse, EnterStart, AddonTyped
<1>3. ASSUME NEW p \in Callbacks,
             \/ ReuseReadback(p) \/ HandoffFailed(p) \/ PollGivesUp(p)
             \/ ReadbackDone(p) \/ ReadbackRaises(p)
      PROVE  AddonTyped'
  <2>1. HoldsLock(p)
    BY <1>3
    DEF ReuseReadback, HandoffFailed, PollGivesUp, ReadbackDone, ReadbackRaises, IInv,
        LockInv, UnderLock, Starting
  <2>2. lockQueue' \in Seq(Callbacks)
    BY <1>0, <1>3, <2>1, Released
    DEF ReuseReadback, HandoffFailed, PollGivesUp, ReadbackDone, ReadbackRaises
  <2> QED
    BY <1>0, <1>3, <2>2, Moved, Stored
    DEF directVars, ReuseReadback, HandoffFailed, PollGivesUp, ReadbackDone, ReadbackRaises, AddonTyped
<1>4. ASSUME NEW p \in Callbacks,
             PollSeesStart(p) \/ \E s \in Sessions : HandoffAccepted(p, s)
      PROVE  AddonTyped'
  <2>1. pc' \in [Callbacks -> PCs]
    BY <1>0, <1>4, Moved DEF PollSeesStart, HandoffAccepted
  <2>2. session' \in [Callbacks -> Sessions \cup {None}]
    BY <1>0, <1>4 DEF PollSeesStart, HandoffAccepted, AddonTyped
  <2> QED
    BY <1>0, <1>4, <2>1, <2>2 DEF directVars, PollSeesStart, HandoffAccepted, AddonTyped
<1>5. ASSUME NEW p \in Callbacks,
             \/ StartDirect(p) \/ WorkerAnswered(p) \/ WorkerFailed(p) \/ Handing(p)
             \/ Sent(p) \/ RetryWithPublicUrl(p) \/ NotSent(p)
      PROVE  AddonTyped'
  BY <1>0, <1>5, Moved
  DEF directVars, StartDirect, WorkerAnswered, HandOver, WorkerFailed, Handing, Sent,
      RetryWithPublicUrl, NotSent, AddonTyped
<1>6. CASE CacheAges
  BY <1>0, <1>6 DEF directVars, CacheAges, AddonTyped
<1>7. CASE AlexaProbe
  BY <1>0, <1>7, MaxProbesIsNat DEF directVars, AlexaProbe, AddonTyped
<1>8. CASE UNCHANGED addonVars
  BY <1>0, <1>8 DEF addonVars, directVars, AddonTyped
<1> QED
  BY <1>1, <1>2, <1>3, <1>4, <1>5, <1>6, <1>7, <1>8
  DEF Next, Handle, vars, DeviceActs, ObjectRestarts

LEMMA Types == IInv /\ [Next]_vars => TypeOK' /\ HandTyped' /\ Coherent'
  BY WatchStep, DirectTypes, CallbackTypes DEF HandoffKept, AddonTyped, TypeOK

-----------------------------------------------------------------------------
(* The player's lock *)

InLock == UnderLock \cup {"locking"}

\* What a callback can do about the lock: move outside it, queue up, move on at
\* its head, or leave from there.
LockMove(p) ==
    \/ /\ pc[p] \notin InLock /\ UNCHANGED lockQueue
       /\ \E l \in PCs \ InLock : Goto(p, l)
    \/ pc[p] \notin InLock /\ Goto(p, "locking") /\ lockQueue' = Append(lockQueue, p)
    \/ HoldsLock(p) /\ UNCHANGED lockQueue /\ \E l \in UnderLock : Goto(p, l)
    \/ HoldsLock(p) /\ Goto(p, "done") /\ Release(p)

\* A callback moves that is not in the lock.
LEMMA LockOutside ==
  ASSUME IInv, NEW p \in Callbacks, NEW l, pc[p] \notin InLock, l \notin InLock,
         Goto(p, l), UNCHANGED lockQueue
  PROVE  LockInv'
<1>1. pc \in [Callbacks -> PCs] /\ lockQueue \in Seq(Callbacks) /\ LockInv
  BY DEF IInv, TypeOK
<1>2. \A i \in 1..Len(lockQueue) : lockQueue[i] \in Callbacks /\ lockQueue[i] # p
  BY <1>1 DEF LockInv, InLock
<1> QED
  BY <1>1, <1>2 DEF LockInv, InLock, Goto, HoldsLock

\* One queues up.
LEMMA LockQueued ==
  ASSUME IInv, NEW p \in Callbacks, pc[p] \notin InLock, Goto(p, "locking"),
         lockQueue' = Append(lockQueue, p)
  PROVE  LockInv'
<1>1. pc \in [Callbacks -> PCs] /\ lockQueue \in Seq(Callbacks) /\ LockInv
  BY DEF IInv, TypeOK
<1>2. \A i \in 1..Len(lockQueue) : lockQueue[i] \in Callbacks /\ lockQueue[i] # p
  BY <1>1 DEF LockInv, InLock
<1>3. /\ Len(lockQueue') = Len(lockQueue) + 1
      /\ \A i \in 1..Len(lockQueue) : lockQueue'[i] = lockQueue[i]
      /\ lockQueue'[Len(lockQueue) + 1] = p
      /\ lockQueue # << >> => Head(lockQueue') = Head(lockQueue)
  BY <1>1
<1>4. \A q \in Callbacks : pc'[q] = IF q = p THEN "locking" ELSE pc[q]
  BY <1>1 DEF Goto
<1>5. "locking" \notin UnderLock /\ lockQueue' # << >>
  BY <1>1 DEF UnderLock, Starting
<1> QED
  BY <1>1, <1>2, <1>3, <1>4, <1>5 DEF LockInv, HoldsLock

\* The head moves on within the lock.
LEMMA LockInside ==
  ASSUME IInv, NEW p \in Callbacks, NEW l \in UnderLock, HoldsLock(p),
         Goto(p, l), UNCHANGED lockQueue
  PROVE  LockInv'
<1>1. pc \in [Callbacks -> PCs] /\ lockQueue \in Seq(Callbacks) /\ LockInv
  BY DEF IInv, TypeOK
<1> QED
  BY <1>1 DEF LockInv, Goto, HoldsLock

\* The head leaves the lock, nobody else was past it.
LEMMA LockLeft ==
  ASSUME IInv, NEW p \in Callbacks, HoldsLock(p), Goto(p, "done"), Release(p)
  PROVE  LockInv'
<1>1. pc \in [Callbacks -> PCs] /\ lockQueue \in Seq(Callbacks) /\ LockInv
  BY DEF IInv, TypeOK
<1>2. /\ Len(lockQueue') = Len(lockQueue) - 1
      /\ \A i \in 1..Len(lockQueue') :
            i + 1 \in 1..Len(lockQueue) /\ lockQueue'[i] = lockQueue[i + 1]
      /\ 1 \in 1..Len(lockQueue) /\ lockQueue[1] = p
  BY <1>1 DEF HoldsLock, Release
<1>3. \A i \in 1..Len(lockQueue') : lockQueue'[i] \in Callbacks /\ lockQueue'[i] # p
  BY <1>1, <1>2 DEF LockInv
<1>4. \A q \in Callbacks : pc'[q] = IF q = p THEN "done" ELSE pc[q]
  BY <1>1 DEF Goto
<1>5. "done" \notin UnderLock
  BY DEF UnderLock, Starting
<1>6. \A q \in Callbacks : q # p => pc[q] \notin UnderLock
  BY <1>1 DEF LockInv, HoldsLock
<1>7. \A i \in 1..Len(lockQueue') : pc'[lockQueue'[i]] \in UnderLock \cup {"locking"}
  BY <1>1, <1>2, <1>3, <1>4 DEF LockInv
<1>8. \A i, j \in 1..Len(lockQueue') : lockQueue'[i] = lockQueue'[j] => i = j
  BY <1>1, <1>2 DEF LockInv
<1> QED
  BY <1>4, <1>5, <1>6, <1>7, <1>8 DEF LockInv

LEMMA LockMoves ==
  ASSUME IInv, [Next]_vars
  PROVE  UNCHANGED <<pc, lockQueue>> \/ \E p \in Callbacks : LockMove(p)
<1> USE DEF Answer
<1>1. ASSUME NEW p \in Callbacks,
             \/ Refuse(p) \/ Receive(p) \/ BootstrapSent(p) \/ BootstrapFailed(p)
             \/ ProbeObserved(p) \/ BootstrapTimeout(p) \/ Rejected(p)
      PROVE  LockMove(p)
  <2>1. /\ pc[p] \in {"idle", "bootstrap", "awaitProbe", "players"} /\ UNCHANGED lockQueue
        /\ \E l \in {"done", "bootstrap", "awaitProbe", "players"} : Goto(p, l)
    BY <1>1
    DEF Refuse, Receive, BootstrapSent, BootstrapFailed, ProbeObserved, BootstrapTimeout, Rejected
  <2> QED
    BY <2>1 DEF LockMove, InLock, UnderLock, Starting, PCs
<1>2. ASSUME NEW p \in Callbacks, QueueForLock(p)
      PROVE  LockMove(p)
  BY <1>2 DEF QueueForLock, LockMove, InLock, UnderLock, Starting
<1>3. ASSUME NEW p \in Callbacks,
             \/ EnterReuse(p) \/ EnterStart(p) \/ PollSeesStart(p)
             \/ \E s \in Sessions : HandoffAccepted(p, s)
      PROVE  LockMove(p)
  <2>1. UNCHANGED lockQueue /\ \E l \in UnderLock : Goto(p, l)
    BY <1>3 DEF EnterReuse, EnterStart, PollSeesStart, HandoffAccepted, UnderLock, Starting
  <2>2. HoldsLock(p)
    BY <1>3
    DEF EnterReuse, EnterStart, PollSeesStart, HandoffAccepted, IInv, LockInv, UnderLock,
        Starting
  <2> QED
    BY <2>1, <2>2 DEF LockMove
<1>4. ASSUME NEW p \in Callbacks,
             \/ EnterCoalesced(p) \/ ReuseReadback(p) \/ HandoffFailed(p) \/ PollGivesUp(p)
             \/ ReadbackDone(p) \/ ReadbackRaises(p)
      PROVE  LockMove(p)
  <2>1. Goto(p, "done") /\ Release(p)
    BY <1>4
    DEF EnterCoalesced, ReuseReadback, HandoffFailed, PollGivesUp, ReadbackDone, ReadbackRaises
  <2>2. HoldsLock(p)
    BY <1>4
    DEF EnterCoalesced, ReuseReadback, HandoffFailed, PollGivesUp, ReadbackDone,
        ReadbackRaises, IInv, LockInv, UnderLock, Starting
  <2> QED
    BY <2>1, <2>2 DEF LockMove
<1>5. ASSUME NEW p \in Callbacks,
             StartDirect(p) \/ WorkerAnswered(p) \/ WorkerFailed(p) \/ Sent(p) \/ NotSent(p)
      PROVE  LockMove(p)
  <2>1. /\ pc[p] \in {"players", "askWorker", "handing"} /\ UNCHANGED lockQueue
        /\ \E l \in {"done", "handing", "askWorker"} : Goto(p, l)
    BY <1>5
    DEF StartDirect, WorkerAnswered, HandOver, WorkerFailed, Sent, NotSent, HandoffSucceeds,
        AbandonHandoff, AttemptsUsedUp, IInv, DirectInv
  <2> QED
    BY <2>1 DEF LockMove, InLock, UnderLock, Starting, PCs
<1> QED
  BY <1>1, <1>2, <1>3, <1>4, <1>5
  DEF Next, Handle, vars, addonVars, Handing, RetryWithPublicUrl, CacheAges, AlexaProbe,
      DeviceActs, ObjectRestarts

LEMMA LockStep ==
  ASSUME IInv, [Next]_vars
  PROVE  LockInv'
<1>1. CASE UNCHANGED <<pc, lockQueue>>
  BY <1>1 DEF IInv, LockInv, HoldsLock
<1>2. ASSUME NEW p \in Callbacks, LockMove(p)
      PROVE  LockInv'
  BY <1>2, LockOutside, LockQueued, LockInside, LockLeft DEF LockMove
<1> QED
  BY <1>1, <1>2, LockMoves

-----------------------------------------------------------------------------
(* The attempt, its cache entry and the sessions *)

\* What a session has on record it keeps.
LEMMA ProofsLast ==
  ASSUME IInv, [Next]_vars, NEW p \in Callbacks, Proven(p), session'[p] = session[p]
  PROVE  Proven(p)'
<1>1. session[p] \in Sessions
  BY DEF Proven, IInv, TypeOK
<1>2. StartObserved(session[p])'
  BY <1>1, WatchStep DEF Proven, FactsStay, StartObserved
<1> QED
  BY <1>2 DEF Proven, StartObserved, StreamFetchStarted, PlaybackStarted, getPlaybackStartState

\* A callback that is not done goes on, or is answered without success, and the
\* cache entry stays.
LEMMA AttemptPasses ==
  ASSUME IInv, [Next]_vars, NEW p \in Callbacks, NEW l, Goto(p, l), pc[p] # "done",
         l \notin Starting \cup {"reusing"}, UNCHANGED <<cache, session>>,
         \/ UNCHANGED result
         \/ l = "done" /\ \E res \in Results \ {"ok", "reused"} : result' = [result EXCEPT ![p] = res]
  PROVE  AttemptInv'
<1>1. pc \in [Callbacks -> PCs] /\ result \in [Callbacks -> Results] /\ AttemptInv
  BY DEF IInv, TypeOK
<1>2. \A q \in Callbacks : Proven(q) => Proven(q)'
  BY ProofsLast
<1>3. \A q \in Callbacks : pc'[q] = IF q = p THEN l ELSE pc[q]
  BY <1>1 DEF Goto
<1>4. l \notin {"handoff", "polling", "readback", "reusing"}
  BY DEF Starting
<1>5. \A q \in Callbacks : result'[q] \in {"ok", "reused"} => result[q] = result'[q] /\ q # p
  BY <1>1 DEF AttemptInv
<1>6. \A q \in Callbacks : result'[q] # "none" => pc'[q] = "done"
  BY <1>1, <1>3 DEF AttemptInv
<1> HIDE DEF Proven
<1> QED
  BY <1>1, <1>2, <1>3, <1>4, <1>5, <1>6 DEF AttemptInv

\* The attempt of p is over and the cache entry says how.
LEMMA AttemptEnds ==
  ASSUME IInv, [Next]_vars, NEW p \in Callbacks, pc[p] \in Starting, UNCHANGED session,
         \/ Store(p, "failed") /\ Answer(p, "error")
         \/ Store(p, "succeeded") /\ Answer(p, "ok") /\ Proven(p)
  PROVE  AttemptInv'
<1>1. pc \in [Callbacks -> PCs] /\ result \in [Callbacks -> Results] /\ AttemptInv
  BY DEF IInv, TypeOK
<1>2. \A q \in Callbacks : Proven(q) => Proven(q)'
  BY ProofsLast
<1>3. \A q \in Callbacks : pc'[q] = IF q = p THEN "done" ELSE pc[q]
  BY <1>1 DEF Answer, Goto
<1>4. \A q \in Callbacks : q # p => pc'[q] \notin Starting /\ result'[q] = result[q]
  BY <1>1, <1>3 DEF AttemptInv, Answer
<1>5. /\ cache'.by = p /\ cache'.status \in {"failed", "succeeded"}
      /\ cache'.status = "succeeded" \/ result'[p] \in {"ok", "reused"} => Proven(p)
  BY <1>1 DEF Store, Answer
<1>6. {"handoff", "polling", "readback"} \subseteq Starting
  BY DEF Starting
<1>7. "done" \notin Starting
  BY DEF Starting
<1> HIDE DEF Proven
<1> QED
  BY <1>1, <1>2, <1>3, <1>4, <1>5, <1>6, <1>7 DEF AttemptInv

LEMMA AttemptStarts ==
  ASSUME IInv, [Next]_vars, NEW p \in Callbacks, EnterStart(p)
  PROVE  AttemptInv'
<1>1. pc \in [Callbacks -> PCs] /\ result \in [Callbacks -> Results] /\ AttemptInv
  BY DEF IInv, TypeOK
<1>2. \A q \in Callbacks : Proven(q) => Proven(q)'
  BY ProofsLast DEF EnterStart
<1>3. \A q \in Callbacks : pc'[q] = IF q = p THEN "handoff" ELSE pc[q]
  BY <1>1 DEF EnterStart, Goto
<1>4. \A q \in Callbacks : q # p => pc[q] \notin Starting
  BY DEF EnterStart, HoldsLock, IInv, LockInv, UnderLock
<1>5. /\ cache'.by = p /\ cache'.status = "running" /\ UNCHANGED <<result, session>>
      /\ pc[p] = "locking"
  BY DEF EnterStart, Store
<1>6. "handoff" \notin {"polling", "reusing", "readback", "done"}
  OBVIOUS
<1> HIDE DEF Proven
<1> QED
  BY <1>1, <1>2, <1>3, <1>4, <1>5, <1>6 DEF AttemptInv

LEMMA AttemptReuses ==
  ASSUME IInv, [Next]_vars, NEW p \in Callbacks, EnterReuse(p)
  PROVE  AttemptInv'
<1>1. /\ pc \in [Callbacks -> PCs] /\ session \in [Callbacks -> Sessions \cup {None}]
      /\ AttemptInv
  BY DEF IInv, TypeOK
<1>2. /\ cache.status = "succeeded" /\ cache.by \in Callbacks /\ Proven(cache.by)
      /\ pc[cache.by] = "done" /\ pc[p] = "locking" /\ cache.by # p
      /\ UNCHANGED <<cache, result>>
  BY <1>1 DEF EnterReuse, Cached, AttemptInv
<1>3. \A q \in Callbacks : session'[q] = IF q = p THEN session[cache.by] ELSE session[q]
  BY <1>1 DEF EnterReuse
<1>4. \A q \in Callbacks \ {p} : Proven(q) => Proven(q)'
  BY <1>3, ProofsLast
<1>5. Proven(p)'
  <2>1. Proven(cache.by)' /\ session'[p] = session'[cache.by] /\ UNCHANGED cache
    BY <1>2, <1>3, <1>4
  <2> QED
    BY <1>2, <2>1 DEF Proven
<1>6. \A q \in Callbacks : pc'[q] = IF q = p THEN "reusing" ELSE pc[q]
  BY <1>1 DEF EnterReuse, Goto
<1>7. "reusing" \notin Starting /\ session'[p] # None
  BY <1>5 DEF Starting, Proven
<1> HIDE DEF Proven
<1> QED
  BY <1>1, <1>2, <1>3, <1>4, <1>5, <1>6, <1>7 DEF AttemptInv

\* The attempt moves on to the polls or to the read-back.
LEMMA AttemptProceeds ==
  ASSUME IInv, [Next]_vars, NEW p \in Callbacks,
         PollSeesStart(p) \/ \E s \in Sessions : HandoffAccepted(p, s)
  PROVE  AttemptInv'
<1>1. /\ pc \in [Callbacks -> PCs] /\ session \in [Callbacks -> Sessions \cup {None}]
      /\ AttemptInv
  BY DEF IInv, TypeOK
<1>2. pc[p] \in Starting /\ pc[p] # "done" /\ UNCHANGED <<cache, result>>
  BY DEF PollSeesStart, HandoffAccepted, Starting
<1>3. \A q \in Callbacks \ {p} : pc'[q] = pc[q] /\ session'[q] = session[q]
  BY <1>1 DEF PollSeesStart, HandoffAccepted, Goto
<1>4. \A q \in Callbacks \ {p} : Proven(q) => Proven(q)'
  BY <1>3, ProofsLast
<1>5. pc'[p] \in {"polling", "readback"} /\ session'[p] # None
  BY <1>1, NoneIsNobody DEF PollSeesStart, HandoffAccepted, Goto, AttemptInv
<1>6. pc'[p] = "readback" => Proven(p)'
  <2> SUFFICES ASSUME PollSeesStart(p) PROVE Proven(p)'
    BY <1>1 DEF PollSeesStart, HandoffAccepted, Goto
  <2>1. Proven(p) /\ session'[p] = session[p]
    BY <1>1 DEF PollSeesStart, Proven, AttemptInv
  <2> QED
    BY <2>1, ProofsLast
<1>7. result[p] = "none" /\ cache.status = "running" /\ cache.by = p
  BY <1>1, <1>2 DEF AttemptInv
<1> HIDE DEF Proven
<1> QED
  BY <1>1, <1>2, <1>3, <1>4, <1>5, <1>6, <1>7 DEF AttemptInv, Starting

LEMMA AttemptStep ==
  ASSUME IInv, [Next]_vars
  PROVE  AttemptInv'
<1>1. ASSUME NEW p \in Callbacks,
             \/ Refuse(p) \/ Receive(p) \/ BootstrapSent(p) \/ BootstrapFailed(p)
             \/ ProbeObserved(p) \/ BootstrapTimeout(p) \/ Rejected(p) \/ QueueForLock(p)
      PROVE  AttemptInv'
  <2>1. /\ pc[p] # "done" /\ UNCHANGED <<cache, session>>
        /\ \/ /\ \E l \in {"bootstrap", "awaitProbe", "players", "locking"} : Goto(p, l)
              /\ UNCHANGED result
           \/ Goto(p, "done") /\ result' = [result EXCEPT ![p] = "error"]
    BY <1>1
    DEF Answer, Refuse, Receive, BootstrapSent, BootstrapFailed, ProbeObserved,
        BootstrapTimeout, Rejected, QueueForLock
  <2> QED
    BY <2>1, AttemptPasses DEF Starting, Results
<1>2. ASSUME NEW p \in Callbacks, EnterCoalesced(p) \/ ReadbackRaises(p)
      PROVE  AttemptInv'
  <2>1. /\ pc[p] # "done" /\ UNCHANGED <<cache, session>> /\ Goto(p, "done")
        /\ \E res \in {"coalesced", "error"} : result' = [result EXCEPT ![p] = res]
    BY <1>2 DEF Answer, EnterCoalesced, ReadbackRaises
  <2> QED
    BY <2>1, AttemptPasses DEF Starting, Results
<1>3. ASSUME NEW p \in Callbacks, ReuseReadback(p)
      PROVE  AttemptInv'
  <2>1. /\ pc[p] = "reusing" /\ UNCHANGED <<cache, session>> /\ Goto(p, "done")
        /\ \/ result' = [result EXCEPT ![p] = "error"]
           \/ result' = [result EXCEPT ![p] = "reused"]
    BY <1>3 DEF Answer, ReuseReadback
  <2>2. CASE result' = [result EXCEPT ![p] = "error"]
    BY <2>1, <2>2, AttemptPasses DEF Starting, Results
  <2>3. CASE result' = [result EXCEPT ![p] = "reused"]
    <3>1. pc \in [Callbacks -> PCs] /\ result \in [Callbacks -> Results] /\ AttemptInv
      BY DEF IInv, TypeOK
    <3>2. (\A q \in Callbacks : Proven(q) => Proven(q)') /\ Proven(p)
      BY <2>1, <3>1, ProofsLast DEF AttemptInv
    <3>3. /\ \A q \in Callbacks : pc'[q] = IF q = p THEN "done" ELSE pc[q]
          /\ \A q \in Callbacks : result'[q] = IF q = p THEN "reused" ELSE result[q]
      BY <2>1, <2>3, <3>1 DEF Goto
    <3> HIDE DEF Proven
    <3> QED
      BY <2>1, <3>1, <3>2, <3>3 DEF AttemptInv, Starting
  <2> QED
    BY <2>1, <2>2, <2>3
<1>4. ASSUME NEW p \in Callbacks, HandoffFailed(p) \/ PollGivesUp(p) \/ ReadbackDone(p)
      PROVE  AttemptInv'
  <2>1. pc[p] \in Starting /\ UNCHANGED session
    BY <1>4 DEF HandoffFailed, PollGivesUp, ReadbackDone, Starting
  <2>2. ReadbackDone(p) => Proven(p)
    BY DEF ReadbackDone, IInv, AttemptInv
  <2> QED
    BY <1>4, <2>1, <2>2, AttemptEnds DEF HandoffFailed, PollGivesUp, ReadbackDone
<1>5. ASSUME NEW p \in Callbacks,
             StartDirect(p) \/ WorkerAnswered(p) \/ WorkerFailed(p) \/ Sent(p) \/ NotSent(p)
      PROVE  AttemptInv'
  <2>1. pc[p] \in {"players", "askWorker", "handing"}
    BY <1>5
    DEF StartDirect, WorkerAnswered, WorkerFailed, Sent, NotSent, HandoffSucceeds,
        AbandonHandoff, AttemptsUsedUp, IInv, DirectInv
  <2>2. /\ UNCHANGED <<cache, session>>
        /\ \/ (Goto(p, "handing") \/ Goto(p, "askWorker")) /\ UNCHANGED result
           \/ Goto(p, "done") /\ \E res \in {"error", "sent"} : result' = [result EXCEPT ![p] = res]
    BY <1>5
    DEF StartDirect, WorkerAnswered, HandOver, WorkerFailed, Sent, NotSent, Answer
  <2> QED
    BY <2>1, <2>2, AttemptPasses DEF Starting, Results
<1>6. CASE UNCHANGED <<pc, session, result>> /\ cache' \in {cache, [cache EXCEPT !.fresh = FALSE]}
  <2>1. AttemptInv /\ \A q \in Callbacks : Proven(q) => Proven(q)'
    BY <1>6, ProofsLast DEF IInv
  <2>2. cache'.status = cache.status /\ cache'.by = cache.by
    BY <1>6 DEF IInv, TypeOK
  <2> HIDE DEF Proven
  <2> QED
    BY <1>6, <2>1, <2>2 DEF AttemptInv
<1> QED
  BY <1>1, <1>2, <1>3, <1>4, <1>5, <1>6, AttemptStarts, AttemptReuses, AttemptProceeds
  DEF Next, Handle, vars, addonVars, Handing, RetryWithPublicUrl, CacheAges, AlexaProbe,
      DeviceActs, ObjectRestarts

\* A session, once set, is not replaced, and its callback is done or on its way.
LEMMA SessionsGrow ==
  ASSUME IInv, [Next]_vars, NEW p \in Callbacks
  PROVE  /\ session[p] # None => session'[p] = session[p]
         /\ session'[p] # None => pc'[p] \in {"reusing", "polling", "readback", "done"}
<1>1. /\ pc \in [Callbacks -> PCs] /\ session \in [Callbacks -> Sessions \cup {None}]
      /\ SessionInv
  BY DEF IInv, TypeOK
<1>2. CASE UNCHANGED session
  <2> SUFFICES ASSUME session[p] # None
               PROVE  pc'[p] \in {"reusing", "polling", "readback", "done"}
    BY <1>2
  <2>1. pc[p] \in {"reusing", "polling", "readback", "done"}
    BY <1>1 DEF SessionInv
  <2>2. ASSUME NEW q \in Callbacks,
               \/ Refuse(q) \/ Receive(q) \/ BootstrapSent(q) \/ BootstrapFailed(q)
               \/ ProbeObserved(q) \/ BootstrapTimeout(q) \/ Rejected(q) \/ QueueForLock(q)
               \/ EnterReuse(q) \/ EnterStart(q) \/ StartDirect(q) \/ WorkerAnswered(q)
               \/ \E s \in Sessions : HandoffAccepted(q, s)
        PROVE  pc'[p] = pc[p]
    <3>1. q # p
      BY <2>1, <2>2
      DEF Refuse, Receive, BootstrapSent, BootstrapFailed, ProbeObserved, BootstrapTimeout,
          Rejected, QueueForLock, EnterReuse, EnterStart, StartDirect, WorkerAnswered,
          HandoffAccepted
    <3>2. \E l : Goto(q, l)
      BY <2>2
      DEF Refuse, Receive, BootstrapSent, BootstrapFailed, ProbeObserved, BootstrapTimeout,
          Rejected, QueueForLock, EnterReuse, EnterStart, StartDirect, WorkerAnswered,
          HandOver, HandoffAccepted, Answer
    <3> QED
      BY <1>1, <3>1, <3>2 DEF Goto
  <2>3. ASSUME NEW q \in Callbacks, Goto(q, "done") \/ Goto(q, "readback")
        PROVE  pc'[p] \in {"reusing", "polling", "readback", "done"}
    BY <1>1, <2>1, <2>3 DEF Goto
  <2> QED
    BY <2>1, <2>2, <2>3
    DEF Next, Handle, vars, addonVars, EnterCoalesced, ReuseReadback, HandoffFailed, PollSeesStart,
        PollGivesUp, ReadbackDone, ReadbackRaises, WorkerFailed, Handing, Sent,
        RetryWithPublicUrl, NotSent, CacheAges, AlexaProbe, DeviceActs, ObjectRestarts, Answer
<1>3. ASSUME NEW q \in Callbacks, EnterReuse(q) \/ \E s \in Sessions : HandoffAccepted(q, s)
      PROVE  /\ session[p] # None => session'[p] = session[p]
             /\ session'[p] # None => pc'[p] \in {"reusing", "polling", "readback", "done"}
  <2>1. session[q] = None
    BY <1>1, <1>3 DEF EnterReuse, HandoffAccepted, SessionInv
  <2>2. p # q => pc'[p] = pc[p] /\ session'[p] = session[p]
    BY <1>1, <1>3 DEF EnterReuse, HandoffAccepted, Goto
  <2>3. pc'[q] \in {"reusing", "polling"}
    BY <1>1, <1>3 DEF EnterReuse, HandoffAccepted, Goto
  <2> QED
    BY <1>1, <2>1, <2>2, <2>3 DEF SessionInv
<1> QED
  BY <1>2, <1>3
  DEF Next, Handle, vars, addonVars, Refuse, Receive, BootstrapSent, BootstrapFailed, ProbeObserved,
      BootstrapTimeout, Rejected, QueueForLock, EnterCoalesced, EnterStart, ReuseReadback,
      HandoffFailed, PollSeesStart, PollGivesUp, ReadbackDone, ReadbackRaises, StartDirect,
      WorkerAnswered, WorkerFailed, Handing, Sent, RetryWithPublicUrl, NotSent, CacheAges,
      AlexaProbe, DeviceActs, ObjectRestarts

LEMMA SessionStep ==
  ASSUME IInv, [Next]_vars
  PROVE  SessionInv'
<1>1. \A s \in Sessions : UrlIsOut(s) => UrlIsOut(s)'
  BY SessionsGrow, NoneIsNobody DEF UrlIsOut
<1>2. \A s \in Sessions : StartObserved(s)' => UrlIsOut(s)
  BY WatchStep DEF NothingNew, IInv, SessionInv
<1>3. \A s \in Sessions : StartObserved(s)' => UrlIsOut(s)'
  BY <1>1, <1>2
<1> QED
  BY <1>3, SessionsGrow DEF SessionInv

-----------------------------------------------------------------------------
(* The handoff in progress *)

\* Whoever is in a handoff, nobody else is.
LEMMA OneHandoff ==
  ASSUME IInv, NEW p \in Callbacks, hand[p].at # "out" \/ holder = None
  PROVE  \A q \in Callbacks \ {p} : hand[q].at = "out"
  BY NoneIsNobody DEF IInv, DirectInv

\* A callback that is in no handoff moves.
LEMMA DirectIdle ==
  ASSUME IInv, NEW p \in Callbacks, NEW l, pc[p] # "handing", Goto(p, l),
         UNCHANGED <<edgeMode, holder, hand, loaded>>
  PROVE  DirectInv'
<1>1. pc \in [Callbacks -> PCs]
  BY DEF IInv, TypeOK
<1> QED
  BY <1>1 DEF IInv, DirectInv, Goto

LEMMA DirectBegins ==
  ASSUME IInv, NEW p \in Callbacks, NEW form, pc[p] # "handing",
         BeginHandoff(p, form), Goto(p, "handing")
  PROVE  DirectInv'
<1>1. pc \in [Callbacks -> PCs] /\ HandTyped
  BY DEF IInv, TypeOK
<1>2. \A q \in Callbacks \ {p} : hand[q].at = "out"
  BY OneHandoff DEF BeginHandoff, Locked
<1>3. \A q \in Callbacks : hand'[q] = IF q = p THEN [at |-> "players", form |-> form, left |-> <<>>] ELSE hand[q]
  BY <1>1 DEF BeginHandoff, HandTyped
<1>4. holder' = p /\ pc'[p] = "handing"
  BY <1>1 DEF BeginHandoff, Goto
<1> QED
  BY <1>2, <1>3, <1>4 DEF DirectInv

LEMMA DirectEnds ==
  ASSUME IInv, NEW p \in Callbacks, hand[p].at # "out", EndHandoff(p)
  PROVE  DirectInv'
<1>1. \A q \in Callbacks \ {p} : hand[q].at = "out"
  BY OneHandoff
<1>2. \A q \in Callbacks : hand'[q].at = "out"
  BY <1>1 DEF IInv, HandTyped, EndHandoff, Out
<1> QED
  BY <1>2 DEF DirectInv

\* A step of the handoff in progress; nobody else is affected.
LEMMA DirectSteps ==
  ASSUME IInv, NEW p \in Callbacks, pc[p] = "handing", hand[p].at # "out", UNCHANGED <<pc, holder, edgeMode>>,
         NEW l, NEW left, Proceed(p, l, left),
         l = "play" => loaded' # None /\ loaded'.by = p /\ left # << >>,
         edgeMode /\ l = "readback" => loaded' # None /\ loaded'.by = p /\ loaded'.playing
  PROVE  DirectInv'
<1>1. HandTyped /\ holder = p
  BY DEF IInv, DirectInv
<1>2. \A q \in Callbacks \ {p} : hand[q].at = "out"
  BY OneHandoff
<1>3. \A q \in Callbacks \ {p} : hand'[q] = hand[q]
  BY <1>1 DEF Proceed, HandTyped
<1>4. hand'[p].at = l /\ hand'[p].left = left
  BY <1>1 DEF Proceed, HandTyped
<1> QED
  BY <1>1, <1>2, <1>3, <1>4 DEF DirectInv

LEMMA DirectHanding ==
  ASSUME IInv, NEW p \in Callbacks, Handing(p)
  PROVE  DirectInv'
<1>1. /\ pc[p] = "handing" /\ hand[p].at # "out" /\ UNCHANGED <<pc, holder, edgeMode>>
  BY DEF Handing, FindPlayer, AttemptAccepted, AttemptFailed, ExplicitPlay
<1>2. ASSUME NEW left, Proceed(p, "command", left)
      PROVE  DirectInv'
  BY <1>1, <1>2, DirectSteps
<1>3. CASE FindPlayer(p)
  BY <1>2, <1>3 DEF FindPlayer
<1>4. CASE AttemptFailed(p)
  BY <1>2, <1>4 DEF AttemptFailed, NextAttempt
<1>5. CASE AttemptAccepted(p)
  <2>1. hand[p].form \in Forms
    BY HandTypes DEF IInv
  <2>2. [by |-> p, form |-> hand[p].form, playing |-> FALSE] # None
    <3>1. [by |-> p, form |-> hand[p].form, playing |-> FALSE] \in Urls
      BY <2>1 DEF Urls
    <3> QED
      BY <3>1, NoneIsNoUrl
  <2>3. CASE Mode(p) = "media"
    <3>1. /\ loaded' = [by |-> p, form |-> hand[p].form, playing |-> FALSE]
          /\ Proceed(p, "play", hand[p].left) /\ hand[p].left # << >>
      BY <1>5, <2>3 DEF AttemptAccepted
    <3> QED
      BY <1>1, <2>2, <3>1, DirectSteps
  <2>4. CASE Mode(p) # "media" /\ edgeMode
    BY <1>2, <1>5, <2>4 DEF AttemptAccepted, CountsAsPlayed, NextAttempt
  <2>5. CASE Mode(p) # "media" /\ ~edgeMode
    <3>1. Proceed(p, "readback", <<>>)
      BY <1>5, <2>5 DEF AttemptAccepted, CountsAsPlayed
    <3> QED
      BY <1>1, <2>5, <3>1, DirectSteps
  <2> QED
    BY <2>3, <2>4, <2>5
<1>6. CASE ExplicitPlay(p)
  <2>1. loaded \in Urls /\ loaded.by = p
    BY <1>6 DEF ExplicitPlay, IInv, DirectInv, TypeOK, HandoffTypeOK
  <2>2. CASE Proceed(p, "readback", <<>>) /\ loaded' = [loaded EXCEPT !.playing = TRUE]
    <3>1. loaded' \in Urls /\ loaded'.by = p /\ loaded'.playing
      BY <2>1, <2>2 DEF Urls
    <3>2. loaded' # None
      BY <3>1, NoneIsNoUrl
    <3> QED
      BY <1>1, <2>2, <3>1, <3>2, DirectSteps
  <2>3. CASE AfterPlayFailed(p)
    BY <1>2, <2>3 DEF AfterPlayFailed, NextAttempt
  <2> QED
    BY <1>6, <2>2, <2>3 DEF ExplicitPlay
<1> QED
  BY <1>3, <1>4, <1>5, <1>6 DEF Handing

LEMMA DirectStep ==
  ASSUME IInv, [Next]_vars
  PROVE  DirectInv'
<1> USE DEF Answer
<1>1. ASSUME NEW p \in Callbacks,
             \/ Refuse(p) \/ Receive(p) \/ BootstrapSent(p) \/ BootstrapFailed(p)
             \/ ProbeObserved(p) \/ BootstrapTimeout(p) \/ Rejected(p) \/ QueueForLock(p)
             \/ WorkerFailed(p)
      PROVE  DirectInv'
  <2>1. /\ pc[p] # "handing" /\ (\E l : Goto(p, l))
        /\ UNCHANGED <<edgeMode, holder, hand, loaded>>
    BY <1>1
    DEF Refuse, Receive, BootstrapSent, BootstrapFailed, ProbeObserved, BootstrapTimeout,
        Rejected, QueueForLock, WorkerFailed, directVars
  <2> QED
    BY <2>1, DirectIdle
<1>2. ASSUME NEW p \in Callbacks,
             \/ EnterCoalesced(p) \/ EnterReuse(p) \/ EnterStart(p) \/ ReuseReadback(p)
             \/ HandoffFailed(p) \/ PollSeesStart(p) \/ PollGivesUp(p)
             \/ ReadbackDone(p) \/ ReadbackRaises(p)
             \/ \E s \in Sessions : HandoffAccepted(p, s)
      PROVE  DirectInv'
  <2>1. /\ pc[p] # "handing" /\ (\E l : Goto(p, l))
        /\ UNCHANGED <<edgeMode, holder, hand, loaded>>
    BY <1>2
    DEF EnterCoalesced, EnterReuse, EnterStart, ReuseReadback, HandoffFailed, PollSeesStart,
        PollGivesUp, ReadbackDone, ReadbackRaises, HandoffAccepted, directVars
  <2> QED
    BY <2>1, DirectIdle
<1>3. ASSUME NEW p \in Callbacks, StartDirect(p) \/ WorkerAnswered(p)
      PROVE  DirectInv'
  <2>1. pc[p] # "handing"
    BY <1>3 DEF StartDirect, WorkerAnswered
  <2>2. ASSUME NEW form, HandOver(p, form)
        PROVE  DirectInv'
    BY <2>1, <2>2, DirectIdle, DirectBegins DEF HandOver
  <2> QED
    BY <1>3, <2>1, <2>2, DirectIdle DEF StartDirect, WorkerAnswered
<1>4. ASSUME NEW p \in Callbacks, RetryWithPublicUrl(p)
      PROVE  DirectInv'
  <2>1. /\ hand[p].at # "out" /\ pc[p] = "handing" /\ holder = p /\ HandTyped
        /\ UNCHANGED <<pc, edgeMode, holder, loaded>>
        /\ hand' = [hand EXCEPT ![p] = [at |-> "players", form |-> "public", left |-> <<>>]]
    BY <1>4 DEF RetryWithPublicUrl, AttemptsUsedUp, IInv, DirectInv
  <2> QED
    BY <2>1 DEF HandTyped, IInv, DirectInv
<1>5. ASSUME NEW p \in Callbacks, Sent(p) \/ NotSent(p)
      PROVE  DirectInv'
  <2>1. hand[p].at # "out" /\ EndHandoff(p)
    BY <1>5 DEF Sent, NotSent, HandoffSucceeds, AbandonHandoff, AttemptsUsedUp
  <2> QED
    BY <2>1, DirectEnds
<1>6. CASE UNCHANGED <<pc, edgeMode, holder, hand, loaded>>
  BY <1>6 DEF IInv, DirectInv
<1> QED
  BY <1>1, <1>2, <1>3, <1>4, <1>5, <1>6, DirectHanding
  DEF Next, Handle, vars, addonVars, directVars, CacheAges, AlexaProbe, DeviceActs, ObjectRestarts

-----------------------------------------------------------------------------
(* What holds in every reachable state *)

LEMMA InitIInv == Init => IInv
<1> SUFFICES ASSUME Init PROVE IInv
  OBVIOUS
<1> USE DEF Init
<1>1. << >> \in Seq(Modes) /\ << >> \in Seq(Callbacks)
  OBVIOUS
<1>2. WatchTypeOK /\ Coherent
  BY DEF WatchInit, WatchTypeOK, Coherent
<1>3. HandTyped /\ HandoffTypeOK
  BY <1>1 DEF HandoffInit, HandTyped, HandoffTypeOK, Out, Forms
<1>4. TypeOK
  BY <1>1, <1>2, <1>3, MaxProbesIsNat DEF TypeOK, PCs, Results
<1>5. LockInv /\ AttemptInv /\ DirectInv
  BY DEF LockInv, AttemptInv, DirectInv, UnderLock, Starting, HandoffInit, Out
<1>6. SessionInv
  BY DEF WatchInit, SessionInv, StartObserved, StreamFetchStarted, PlaybackStarted,
         getPlaybackStartState
<1> QED
  BY <1>2, <1>3, <1>4, <1>5, <1>6 DEF IInv

LEMMA StepIInv == IInv /\ [Next]_vars => IInv'
  BY Types, LockStep, AttemptStep, SessionStep, DirectStep DEF IInv

\* The inductive invariant holds in every reachable state.
THEOREM Invariance == Spec => []IInv
  BY InitIInv, StepIInv, PTL DEF Spec

\* Type correctness.
THEOREM TypeCorrect == Spec => []TypeOK
<1>1. IInv => TypeOK
  BY DEF IInv
<1> QED
  BY <1>1, Invariance, PTL

\* However callbacks, timeouts and failures interleave, one start attempt runs at
\* a time and the cache entry is the one it wrote.
THEOREM AttemptsAreAlone == Spec => []OneAttemptAtATime
<1>1. IInv => OneAttemptAtATime
  BY DEF IInv, AttemptInv, OneAttemptAtATime
<1> QED
  BY <1>1, Invariance, PTL

\* Nobody is told that playback started without a fetch or a start on record,
\* directly or through a success that was reused, restarts included.
THEOREM SuccessesAreProven == Spec => []SuccessIsProven
<1>1. IInv => SuccessIsProven
  BY DEF IInv, AttemptInv, Proven, StartObserved, SuccessIsProven
<1> QED
  BY <1>1, Invariance, PTL

\* In edge mode "sent" is answered only by the callback whose URL the player has
\* and was told to play.
THEOREM SentUrlsPlay == Spec => SentUrlPlays
<1>1. IInv /\ [Next]_vars =>
        \A p \in Callbacks :
          result'[p] = "sent" /\ result[p] # "sent" /\ edgeMode =>
              loaded # None /\ loaded.by = p /\ loaded.playing
  <2> SUFFICES ASSUME IInv, [Next]_vars, NEW p \in Callbacks,
                      result'[p] = "sent", result[p] # "sent", edgeMode
               PROVE  loaded # None /\ loaded.by = p /\ loaded.playing
    OBVIOUS
  <2>1. result \in [Callbacks -> Results]
    BY DEF IInv, TypeOK
  <2>2. ASSUME NEW q \in Callbacks, NEW res \in {"error", "coalesced", "reused", "ok"}
        PROVE  ~Answer(q, res)
    BY <2>1, <2>2 DEF Answer
  <2>3. \E q \in Callbacks : Sent(q)
    BY <2>2
    DEF Next, Handle, vars, addonVars, Refuse, Receive, BootstrapSent, BootstrapFailed,
        ProbeObserved, BootstrapTimeout, Rejected, QueueForLock, EnterCoalesced, EnterReuse,
        EnterStart, ReuseReadback, HandoffAccepted, HandoffFailed, PollSeesStart,
        PollGivesUp, ReadbackDone, ReadbackRaises, StartDirect, WorkerAnswered, HandOver,
        WorkerFailed, Handing, RetryWithPublicUrl, NotSent, CacheAges, AlexaProbe,
        DeviceActs, ObjectRestarts
  <2>4. Sent(p)
    BY <2>1, <2>3 DEF Sent, Answer
  <2> QED
    BY <2>4 DEF Sent, HandoffSucceeds, IInv, DirectInv
<1> QED
  BY <1>1, Invariance, PTL DEF Spec, SentUrlPlays

\* While a success is fresh, no attempt runs and none starts.
THEOREM SuccessesAreReused == Spec => FreshSuccessIsReused
<1>1. IInv /\ [Next]_vars =>
        (cache.status = "succeeded" /\ cache.fresh => \A p \in Callbacks : pc'[p] \notin Starting)
  <2> SUFFICES ASSUME IInv, [Next]_vars, cache.status = "succeeded", cache.fresh,
                      NEW p \in Callbacks, pc'[p] \in Starting
               PROVE  FALSE
    OBVIOUS
  <2>1. pc \in [Callbacks -> PCs] /\ \A q \in Callbacks : pc[q] \notin Starting
    BY DEF IInv, TypeOK, AttemptInv
  <2>2. ASSUME NEW q \in Callbacks, NEW l \in PCs \ Starting
        PROVE  ~Goto(q, l)
    BY <2>1, <2>2 DEF Goto
  <2>3. /\ {"bootstrap", "awaitProbe", "players", "locking", "reusing", "askWorker",
            "handing", "done"} \subseteq PCs \ Starting
        /\ {"handoff", "polling", "readback"} \subseteq Starting
    BY DEF PCs, Starting
  <2>4. pc' # pc
    BY <2>1
  <2>5. \A q \in Callbacks : ~EnterStart(q)
    BY DEF EnterStart, Cached
  <2> QED
    BY <2>1, <2>2, <2>3, <2>4, <2>5
    DEF Next, Handle, vars, addonVars, Refuse, Receive, BootstrapSent, BootstrapFailed,
        ProbeObserved, BootstrapTimeout, Rejected, QueueForLock, EnterCoalesced, EnterReuse,
        ReuseReadback, HandoffAccepted, HandoffFailed, PollSeesStart, PollGivesUp,
        ReadbackDone, ReadbackRaises, StartDirect, WorkerAnswered, HandOver, WorkerFailed,
        Handing, Sent, RetryWithPublicUrl, NotSent, CacheAges, AlexaProbe, DeviceActs,
        ObjectRestarts, Answer
<1> QED
  BY <1>1, Invariance, PTL DEF Spec, FreshSuccessIsReused

\* A fetch or a start that a poll saw is seen by every later poll: no restart of
\* the object, no repeated report and no new registration takes it back.
THEOREM FactsGrow == Spec => WatchFactsGrow
<1>1. IInv /\ [Next]_vars =>
        \A s \in Sessions :
          /\ StreamFetchStarted(s) => StreamFetchStarted(s)'
          /\ PlaybackStarted(s) => PlaybackStarted(s)'
  BY WatchStep DEF FactsStay
<1> QED
  BY <1>1, Invariance, PTL DEF Spec, WatchFactsGrow, vars

-----------------------------------------------------------------------------
(* The watch implements a table of facts *)

\* Only sessions that a callback was answered have a record.
Answered == \A s \in Sessions : stored[s] # None => UrlIsOut(s)

Blank == [fetched |-> FALSE, started |-> FALSE]

\* What a step can do to the stored records: nothing, or one of three things to
\* that of one session.
RecordStep(s) ==
    /\ \A x \in Sessions \ {s} : stored'[x] = stored[x]
    /\ \/ stored[s] = None /\ stored'[s] = Blank
       \/ stored[s] # None /\ stored'[s] = [stored[s] EXCEPT !.fetched = TRUE]
       \/ stored[s] # None /\ stored'[s] = [stored[s] EXCEPT !.started = TRUE]

SameRecords == \A x \in Sessions : stored'[x] = stored[x]

\* The table is what is stored, whatever the map in memory holds.
LEMMA TableIsStored ==
  ASSUME WatchTypeOK, Coherent
  PROVE  /\ TrackedSessions = {s \in Sessions : stored[s] # None}
         /\ FetchedSessions = {s \in Sessions : stored[s] # None /\ stored[s].fetched}
         /\ StartedSessions = {s \in Sessions : stored[s] # None /\ stored[s].started}
  BY Reads DEF TrackedSessions, FetchedSessions, StartedSessions, StreamFetchStarted, PlaybackStarted

LEMMA TableIsStoredNext ==
  ASSUME WatchTypeOK', Coherent'
  PROVE  /\ TrackedSessions' = {s \in Sessions : stored'[s] # None}
         /\ FetchedSessions' = {s \in Sessions : stored'[s] # None /\ stored'[s].fetched}
         /\ StartedSessions' = {s \in Sessions : stored'[s] # None /\ stored'[s].started}
  BY ReadsNext DEF TrackedSessions, FetchedSessions, StartedSessions, StreamFetchStarted, PlaybackStarted

LEMMA SameRecordsSameFacts ==
  ASSUME WatchTypeOK, Coherent, WatchTypeOK', Coherent', SameRecords
  PROVE  UNCHANGED Facts!facts
  BY TableIsStored, TableIsStoredNext DEF SameRecords, Facts!facts

LEMMA RecordStepIsFactStep ==
  ASSUME WatchTypeOK, Coherent, WatchTypeOK', Coherent', NEW s \in Sessions, RecordStep(s)
  PROVE  Facts!Next
<1>1. Blank \in Records /\ ~Blank.fetched /\ ~Blank.started
  BY DEF Blank, Records
<1>2. \A x \in Sessions \ {s} : stored'[x] = stored[x]
  BY DEF RecordStep
<1>3. CASE stored[s] = None /\ stored'[s] = Blank
  <2>1. Blank # None
    BY <1>1, NoneIsNoRecord
  <2>2. TrackedSessions' = TrackedSessions \cup {s} /\ s \notin TrackedSessions
    BY <1>2, <1>3, <2>1, TableIsStored, TableIsStoredNext
  <2>3. FetchedSessions' = FetchedSessions /\ StartedSessions' = StartedSessions
    BY <1>1, <1>2, <1>3, TableIsStored, TableIsStoredNext
  <2> QED
    BY <2>2, <2>3 DEF Facts!Next, Facts!Track
<1>4. ASSUME NEW rec \in Records, stored[s] # None, stored'[s] = rec
      PROVE  /\ s \in TrackedSessions /\ TrackedSessions' = TrackedSessions
             /\ FetchedSessions' = IF rec.fetched THEN FetchedSessions \cup {s}
                                   ELSE FetchedSessions \ {s}
             /\ StartedSessions' = IF rec.started THEN StartedSessions \cup {s}
                                   ELSE StartedSessions \ {s}
  <2>1. rec # None
    BY NoneIsNoRecord
  <2> QED
    BY <1>2, <1>4, <2>1, TableIsStored, TableIsStoredNext
<1>5. ASSUME stored[s] # None
      PROVE  stored[s] \in Records
  BY <1>5 DEF WatchTypeOK
<1>6. CASE stored[s] # None /\ stored'[s] = [stored[s] EXCEPT !.fetched = TRUE]
  <2>1. /\ stored'[s] \in Records /\ stored'[s].fetched
        /\ stored'[s].started = stored[s].started
    BY <1>5, <1>6 DEF Records
  <2>2. FetchedSessions' = FetchedSessions \cup {s} /\ StartedSessions' = StartedSessions
    BY <1>4, <1>6, <2>1, TableIsStored
  <2> QED
    BY <1>4, <1>6, <2>1, <2>2 DEF Facts!Next, Facts!LearnFetch
<1>7. CASE stored[s] # None /\ stored'[s] = [stored[s] EXCEPT !.started = TRUE]
  <2>1. /\ stored'[s] \in Records /\ stored'[s].started
        /\ stored'[s].fetched = stored[s].fetched
    BY <1>5, <1>7 DEF Records
  <2>2. StartedSessions' = StartedSessions \cup {s} /\ FetchedSessions' = FetchedSessions
    BY <1>4, <1>7, <2>1, TableIsStored
  <2> QED
    BY <1>4, <1>7, <2>1, <2>2 DEF Facts!Next, Facts!LearnStart
<1> QED
  BY <1>3, <1>6, <1>7 DEF RecordStep

LEMMA ReportRecords ==
  ASSUME WatchTypeOK, Coherent, NEW s \in Sessions,
         MarkFetched(s) \/ \E e \in {"started", "failed", "other"} : MarkPlaybackEvent(s, e)
  PROVE  SameRecords \/ (stored[s] # None /\ RecordStep(s))
<1>1. getPlaybackStartState(s) = stored[s]
  BY Reads
<1>2. ASSUME NEW rec, savePlaybackStartState(s, rec)
      PROVE  /\ stored'[s] = rec
             /\ \A x \in Sessions \ {s} : stored'[x] = stored[x]
  BY <1>2 DEF savePlaybackStartState, WatchTypeOK
<1>3. CASE MarkFetched(s)
  BY <1>1, <1>2, <1>3 DEF MarkFetched, Load, SameRecords, RecordStep
<1>4. ASSUME NEW e \in {"started", "failed", "other"}, MarkPlaybackEvent(s, e)
      PROVE  SameRecords \/ (stored[s] # None /\ RecordStep(s))
  BY <1>1, <1>2, <1>4 DEF MarkPlaybackEvent, WithEvent, Load, SameRecords, RecordStep
<1> QED
  BY <1>3, <1>4

\* A registration is of a session without a record, since only a session that no
\* callback has yet is handed out.
LEMMA StepOfRecords ==
  ASSUME IInv, Answered, [Next]_vars
  PROVE  /\ SameRecords \/ \E s \in Sessions : RecordStep(s)
         /\ Answered'
<1>0. WatchTypeOK /\ Coherent
  BY DEF IInv, TypeOK
<1>1. \A s \in Sessions : UrlIsOut(s) => UrlIsOut(s)'
  BY SessionsGrow, NoneIsNobody DEF UrlIsOut
<1>2. CASE UNCHANGED watchVars
  BY <1>1, <1>2 DEF Answered, SameRecords, watchVars
<1>3. ASSUME NEW p \in Callbacks, NEW s \in Sessions, HandoffAccepted(p, s), Register(s)
      PROVE  RecordStep(s) /\ Answered'
  <2>1. stored[s] = None
    BY <1>3 DEF HandoffAccepted, WorkerHandoff, Answered, UrlIsOut
  <2>2. stored'[s] = Blank /\ \A x \in Sessions \ {s} : stored'[x] = stored[x]
    BY <1>0, <1>3 DEF Register, savePlaybackStartState, WatchTypeOK, Blank
  <2>3. UrlIsOut(s)'
    BY <1>3 DEF HandoffAccepted, UrlIsOut, IInv, TypeOK
  <2> QED
    BY <1>1, <2>1, <2>2, <2>3 DEF RecordStep, Answered
<1>4. ASSUME NEW p \in Callbacks, PollSeesStart(p)
      PROVE  SameRecords /\ Answered'
  BY <1>1, <1>4 DEF PollSeesStart, Load, SameRecords, Answered
<1>5. ASSUME NEW s \in Sessions, DeviceActs(s)
      PROVE  (SameRecords \/ RecordStep(s)) /\ Answered'
  <2>1. SameRecords \/ (stored[s] # None /\ RecordStep(s))
    BY <1>0, <1>5, ReportRecords DEF DeviceActs
  <2> QED
    BY <1>1, <2>1 DEF SameRecords, RecordStep, Answered
<1>6. CASE ObjectRestarts
  BY <1>1, <1>6 DEF ObjectRestarts, WatchRestart, SameRecords, Answered
<1> QED
  BY <1>2, <1>3, <1>4, <1>5, <1>6
  DEF Next, Handle, vars, Refuse, Receive, BootstrapSent, BootstrapFailed, ProbeObserved,
      BootstrapTimeout, Rejected, QueueForLock, EnterCoalesced, EnterReuse, EnterStart,
      ReuseReadback, HandoffAccepted, WorkerHandoff, HandoffFailed, PollGivesUp, ReadbackDone,
      ReadbackRaises, StartDirect, WorkerAnswered, WorkerFailed, Handing, Sent,
      RetryWithPublicUrl, NotSent, CacheAges, AlexaProbe

\* With push-url callbacks as its readers, the watch - a map over durable storage
\* that restarts empty and reads fill (HomeSession.ts, /playback-start) - is one
\* table of facts: each session tracked once, and what is known known for good.
THEOREM WatchImplementsFacts == Spec => ImplementsFacts
<1>1. Init => Answered /\ Facts!Init
  <2> SUFFICES ASSUME Init PROVE Answered /\ Facts!Init
    OBVIOUS
  <2>1. WatchTypeOK /\ Coherent /\ \A s \in Sessions : stored[s] = None
    BY InitIInv DEF Init, WatchInit, IInv, TypeOK
  <2> QED
    BY <2>1, TableIsStored DEF Answered, Facts!Init
<1>2. IInv /\ Answered /\ [Next]_vars => Answered'
  BY StepOfRecords
<1>3. IInv /\ Answered /\ [Next]_vars => [Facts!Next]_Facts!facts
  <2> SUFFICES ASSUME IInv, Answered, [Next]_vars
               PROVE  [Facts!Next]_Facts!facts
    OBVIOUS
  <2>1. WatchTypeOK /\ Coherent /\ WatchTypeOK' /\ Coherent'
    BY WatchStep DEF IInv, TypeOK
  <2> QED
    BY <2>1, StepOfRecords, SameRecordsSameFacts, RecordStepIsFactStep
<1> QED
  BY <1>1, <1>2, <1>3, Invariance, PTL DEF Spec, ImplementsFacts, Facts!Spec

-----------------------------------------------------------------------------
(* Nobody keeps a lock *)

InQueue(p) == \E i \in 1..Len(lockQueue) : lockQueue[i] = p

HandUsed ==
    /\ \A p \in Callbacks : pc[p] = "handing" => hand[p].at # "out"
    /\ holder # None => pc[holder] = "handing"

\* Whoever waits for the player's lock or is past it is in its queue, and the
\* handoff's lock is that of a callback inside its handoff.
UsersInv ==
    /\ \A p \in Callbacks : pc[p] \in InLock => InQueue(p)
    /\ HandUsed

\* The two locks of a player are with callbacks that are about to leave them or
\* wait for them: an answered callback is in neither, a waiting one is not lost.
LocksHaveUsers ==
    /\ \A p \in Callbacks : pc[p] \in InLock <=> InQueue(p)
    /\ \A p \in Callbacks : holder = p <=> pc[p] = "handing"
    /\ \A p \in Callbacks : hand[p].at # "out" <=> pc[p] = "handing"

\* Nobody falls out of the queue but the one that leaves it at its head.
LEMMA QueueStep ==
  ASSUME IInv, UsersInv, [Next]_vars, NEW q \in Callbacks, pc'[q] \in InLock
  PROVE  InQueue(q)'
<1>0. /\ pc \in [Callbacks -> PCs] /\ lockQueue \in Seq(Callbacks)
      /\ pc[q] \in InLock => InQueue(q)
  BY DEF IInv, TypeOK, UsersInv
<1>1. CASE UNCHANGED <<pc, lockQueue>>
  BY <1>0, <1>1 DEF InQueue
<1>2. ASSUME NEW p \in Callbacks, pc[p] \notin InLock, UNCHANGED lockQueue,
             NEW l \in PCs \ InLock, Goto(p, l)
      PROVE  InQueue(q)'
  BY <1>0, <1>2 DEF InQueue, Goto
<1>3. ASSUME NEW p \in Callbacks, Goto(p, "locking"), lockQueue' = Append(lockQueue, p)
      PROVE  InQueue(q)'
  <2>1. /\ Len(lockQueue') = Len(lockQueue) + 1
        /\ \A i \in 1..Len(lockQueue) : lockQueue'[i] = lockQueue[i]
        /\ lockQueue'[Len(lockQueue) + 1] = p
    BY <1>0, <1>3
  <2>2. q # p => InQueue(q)
    BY <1>0, <1>3 DEF Goto
  <2> QED
    BY <1>0, <2>1, <2>2 DEF InQueue
<1>4. ASSUME NEW p \in Callbacks, HoldsLock(p), UNCHANGED lockQueue,
             NEW l \in UnderLock, Goto(p, l)
      PROVE  InQueue(q)'
  <2>1. p = lockQueue[1] /\ 1 \in 1..Len(lockQueue)
    BY <1>0, <1>4 DEF HoldsLock
  <2>2. q # p => InQueue(q)
    BY <1>0, <1>4 DEF Goto
  <2> QED
    BY <1>4, <2>1, <2>2 DEF InQueue
<1>5. ASSUME NEW p \in Callbacks, HoldsLock(p), Goto(p, "done"), Release(p)
      PROVE  InQueue(q)'
  <2>1. q # p
    BY <1>0, <1>5 DEF Goto, InLock, UnderLock, Starting
  <2>2. PICK i \in 1..Len(lockQueue) : lockQueue[i] = q
    BY <1>0, <1>5, <2>1 DEF Goto, InQueue
  <2>3. lockQueue # << >> /\ lockQueue[1] = p
    BY <1>0, <1>5 DEF HoldsLock
  <2>4. i - 1 \in 1..Len(lockQueue') /\ lockQueue'[i - 1] = q
    BY <1>0, <1>5, <2>1, <2>2, <2>3 DEF Release
  <2> QED
    BY <2>4 DEF InQueue
<1> QED
  BY <1>1, <1>2, <1>3, <1>4, <1>5, LockMoves DEF LockMove

LEMMA HandingMoves ==
  ASSUME IInv, NEW p \in Callbacks, Handing(p) \/ RetryWithPublicUrl(p)
  PROVE  /\ UNCHANGED <<pc, holder>> /\ hand'[p].at # "out"
         /\ \A q \in Callbacks \ {p} : hand'[q] = hand[q]
  BY DEF Handing, RetryWithPublicUrl, FindPlayer, AttemptAccepted, AttemptFailed,
         ExplicitPlay, AfterPlayFailed, NextAttempt, Proceed, IInv, HandTyped

LEMMA HandUsedStep ==
  ASSUME IInv, HandUsed, [Next]_vars
  PROVE  HandUsed'
<1> USE DEF Answer
<1>0. /\ pc \in [Callbacks -> PCs] /\ HandTyped /\ holder \in Callbacks \cup {None}
      /\ None \notin Callbacks
  BY NoneIsNobody DEF IInv, TypeOK, HandoffTypeOK
<1>1. ASSUME NEW p \in Callbacks, NEW l, l # "handing", pc[p] # "handing", Goto(p, l),
             UNCHANGED <<holder, hand>>
      PROVE  HandUsed'
  BY <1>0, <1>1 DEF HandUsed, Goto
<1>2. ASSUME NEW p \in Callbacks, NEW form, BeginHandoff(p, form), Goto(p, "handing")
      PROVE  HandUsed'
  <2>1. holder' = p /\ pc'[p] = "handing" /\ hand'[p].at # "out"
    BY <1>0, <1>2 DEF BeginHandoff, Goto, HandTyped
  <2>2. \A q \in Callbacks \ {p} : pc'[q] = pc[q] /\ hand'[q] = hand[q]
    BY <1>0, <1>2 DEF BeginHandoff, Goto, HandTyped
  <2> QED
    BY <2>1, <2>2 DEF HandUsed
<1>3. ASSUME NEW p \in Callbacks, Handing(p) \/ RetryWithPublicUrl(p)
      PROVE  HandUsed'
  BY <1>3, HandingMoves DEF HandUsed
<1>4. ASSUME NEW p \in Callbacks, Sent(p) \/ NotSent(p)
      PROVE  HandUsed'
  <2>1. hand[p].at # "out" /\ EndHandoff(p) /\ Goto(p, "done")
    BY <1>4 DEF Sent, NotSent, HandoffSucceeds, AbandonHandoff, AttemptsUsedUp
  <2>2. \A q \in Callbacks : pc'[q] # "handing"
    BY <1>0, <2>1, OneHandoff DEF HandUsed, Goto
  <2> QED
    BY <2>1, <2>2 DEF HandUsed, EndHandoff
<1>5. CASE UNCHANGED <<pc, holder, hand>>
  BY <1>5 DEF HandUsed
<1>6. ASSUME NEW p \in Callbacks,
             \/ Refuse(p) \/ Receive(p) \/ BootstrapSent(p) \/ BootstrapFailed(p)
             \/ ProbeObserved(p) \/ BootstrapTimeout(p) \/ Rejected(p) \/ QueueForLock(p)
             \/ WorkerFailed(p)
      PROVE  HandUsed'
  <2>1. /\ pc[p] # "handing" /\ (\E l : l # "handing" /\ Goto(p, l))
        /\ UNCHANGED <<holder, hand>>
    BY <1>6
    DEF Refuse, Receive, BootstrapSent, BootstrapFailed, ProbeObserved, BootstrapTimeout,
        Rejected, QueueForLock, WorkerFailed, directVars
  <2> QED
    BY <1>1, <2>1
<1>7. ASSUME NEW p \in Callbacks,
             \/ EnterCoalesced(p) \/ EnterReuse(p) \/ EnterStart(p) \/ ReuseReadback(p)
             \/ HandoffFailed(p) \/ PollSeesStart(p) \/ PollGivesUp(p)
             \/ ReadbackDone(p) \/ ReadbackRaises(p)
             \/ \E s \in Sessions : HandoffAccepted(p, s)
      PROVE  HandUsed'
  <2>1. /\ pc[p] # "handing" /\ (\E l : l # "handing" /\ Goto(p, l))
        /\ UNCHANGED <<holder, hand>>
    BY <1>7
    DEF EnterCoalesced, EnterReuse, EnterStart, ReuseReadback, HandoffFailed, PollSeesStart,
        PollGivesUp, ReadbackDone, ReadbackRaises, HandoffAccepted, directVars
  <2> QED
    BY <1>1, <2>1
<1>8. ASSUME NEW p \in Callbacks, StartDirect(p) \/ WorkerAnswered(p)
      PROVE  HandUsed'
  <2>1. pc[p] # "handing"
    BY <1>8 DEF StartDirect, WorkerAnswered
  <2>2. ASSUME NEW form, HandOver(p, form)
        PROVE  HandUsed'
    BY <1>1, <1>2, <2>1, <2>2 DEF HandOver
  <2> QED
    BY <1>1, <1>8, <2>1, <2>2 DEF StartDirect, WorkerAnswered
<1> QED
  BY <1>3, <1>4, <1>5, <1>6, <1>7, <1>8
  DEF Next, Handle, vars, addonVars, directVars, CacheAges, AlexaProbe, DeviceActs, ObjectRestarts

LEMMA UsersInvariance == Spec => []UsersInv
<1>1. Init => UsersInv
  BY DEF Init, UsersInv, HandUsed, InLock, UnderLock, Starting, HandoffInit
<1>2. IInv /\ UsersInv /\ [Next]_vars => UsersInv'
  <2> SUFFICES ASSUME IInv, UsersInv, [Next]_vars PROVE UsersInv'
    OBVIOUS
  <2>1. HandUsed'
    BY HandUsedStep DEF UsersInv
  <2>2. \A q \in Callbacks : pc'[q] \in InLock' => InQueue(q)'
    BY QueueStep DEF InLock, UnderLock, Starting
  <2> QED
    BY <2>1, <2>2 DEF UsersInv
<1> QED
  BY <1>1, <1>2, Invariance, PTL DEF Spec

\* However a callback ends - answered from the cache, refused by the Worker, out of
\* polls, out of attempts, with an exception - it has left both locks of its player
\* (ma_push_url, handoff_playback_url), and whoever waits keeps its place.
THEOREM LocksAreLeft == Spec => []LocksHaveUsers
<1>1. IInv /\ UsersInv => LocksHaveUsers
  <2> SUFFICES ASSUME IInv, UsersInv, NEW p \in Callbacks
               PROVE  /\ pc[p] \in InLock <=> InQueue(p)
                      /\ holder = p <=> pc[p] = "handing"
                      /\ hand[p].at # "out" <=> pc[p] = "handing"
    BY DEF LocksHaveUsers
  <2>1. InQueue(p) => pc[p] \in InLock
    BY DEF IInv, LockInv, InQueue, InLock
  <2> QED
    BY <2>1, NoneIsNobody DEF IInv, DirectInv, UsersInv, HandUsed
<1> QED
  BY <1>1, Invariance, UsersInvariance, PTL

-----------------------------------------------------------------------------
(* A callback is bounded *)

\* The steps of a handoff with one URL, with all its attempts ahead.
HandBound == 2 * MediaAttempts + 7

\* With the other URL still to come, and with the one in hand.
UrlLeft(h) == IF h.form = "stream" THEN HandBound ELSE 0

AttemptsLeft(h) ==
    CASE h.at = "players"  -> HandBound
      [] h.at = "command"  -> 2 * Len(h.left) + 2
      [] h.at = "play"     -> 2 * Len(h.left) + 1
      [] h.at = "readback" -> 1
      [] h.at = "out"      -> 0

HandLeft(h) == UrlLeft(h) + AttemptsLeft(h)

\* The steps ahead of a place outside the handoff: the player's lock or two
\* handoffs come after the first five.
PlaceLeft(l) ==
    CASE l = "idle"       -> 2 * HandBound + 5
      [] l = "bootstrap"  -> 2 * HandBound + 4
      [] l = "awaitProbe" -> 2 * HandBound + 3
      [] l = "players"    -> 2 * HandBound + 2
      [] l = "askWorker"  -> 2 * HandBound + 1
      [] l = "locking"    -> 4
      [] l = "handoff"    -> 3
      [] l = "polling"    -> 2
      [] l \in {"readback", "reusing"} -> 1
      [] l = "done"       -> 0

\* The steps a callback can at most still take.
StepsLeft(p) == IF pc[p] = "handing" THEN HandLeft(hand[p]) ELSE PlaceLeft(pc[p])

StepsAreBounded == \A p \in Callbacks : StepsLeft(p) \in 0 .. 2 * HandBound + 5

\* Every step of a callback's handler brings its answer nearer and nothing takes it
\* back: what is left of EveryCallbackAnswered without fairness.
StepsAreCounted ==
    [][\A p \in Callbacks :
          /\ Handle(p) => StepsLeft(p)' < StepsLeft(p)
          /\ StepsLeft(p)' <= StepsLeft(p)]_vars

\* The attempts left are at most those a handoff begins with.
Short == \A p \in Callbacks : Len(hand[p].left) <= MediaAttempts + 2

LEMMA Lengths ==
  ASSUME NEW direct \in BOOLEAN
  PROVE  Len(AttemptsFor(direct)) <= MediaAttempts + 2
<1> DEFINE n == IF direct THEN MediaAttempts ELSE 0
           media == [i \in 1..n |-> "media"]
           resume == <<"queue_resume_play", "player_resume_play">>
<1>1. n \in Nat /\ n <= MediaAttempts
  BY MediaAttemptsIsNat
<1>2. media \in Seq(Modes) /\ Len(media) = n
  BY <1>1 DEF Modes
<1>3. resume \in Seq(Modes) /\ Len(resume) = 2
  BY DEF Modes
<1>4. Len(media \o resume) = Len(media) + Len(resume)
  <2> HIDE DEF media, resume
  <2> QED
    BY <1>2, <1>3, ConcatProperties, Zenon
<1> QED
  <2> HIDE DEF media, resume, n
  <2>1. AttemptsFor(direct) = media \o resume
    BY DEF AttemptsFor, media, resume, n
  <2> QED
    BY <1>1, <1>2, <1>3, <1>4, <2>1, MediaAttemptsIsNat

\* What a step does to the attempts of a handoff.
LEMMA ShortStep ==
  ASSUME IInv, Short, [Next]_vars
  PROVE  Short'
<1>0. HandTyped /\ MediaAttempts \in Nat
  BY MediaAttemptsIsNat DEF IInv
<1>1. CASE UNCHANGED hand
  BY <1>1 DEF Short
<1>2. ASSUME NEW p \in Callbacks, \A q \in Callbacks \ {p} : hand'[q] = hand[q],
             \/ hand'[p].left = << >> \/ hand'[p].left = hand[p].left
             \/ hand[p].left # << >> /\ hand'[p].left = Tail(hand[p].left)
             \/ \E direct \in BOOLEAN : hand'[p].left = AttemptsFor(direct)
      PROVE  Short'
  <2>1. Len(hand[p].left) <= MediaAttempts + 2
    BY <1>2 DEF Short
  <2>2. hand[p].left # << >> => Len(Tail(hand[p].left)) = Len(hand[p].left) - 1
    <3>1. hand[p].left \in Seq(Modes)
      BY <1>0, HandTypes
    <3> QED
      BY <3>1, HeadTailProperties, Zenon
  <2>3. Len(hand[p].left) \in Nat /\ Len(<< >>) = 0
    BY <1>0, HandTypes
  <2>4. Len(hand'[p].left) <= MediaAttempts + 2
    <3>1. CASE hand'[p].left = << >> \/ hand'[p].left = hand[p].left
      BY <1>0, <2>1, <2>3, <3>1
    <3>2. CASE hand[p].left # << >> /\ hand'[p].left = Tail(hand[p].left)
      BY <1>0, <2>1, <2>2, <2>3, <3>2
    <3>3. CASE \E direct \in BOOLEAN : hand'[p].left = AttemptsFor(direct)
      BY <3>3, Lengths
    <3> QED
      BY <1>2, <3>1, <3>2, <3>3
  <2> QED
    BY <1>2, <2>4 DEF Short
<1>3. ASSUME NEW p \in Callbacks, NEW form, BeginHandoff(p, form)
      PROVE  Short'
  BY <1>0, <1>2, <1>3 DEF BeginHandoff, HandTyped
<1>4. ASSUME NEW p \in Callbacks, EndHandoff(p) \/ RetryWithPublicUrl(p)
      PROVE  Short'
  BY <1>0, <1>2, <1>4 DEF EndHandoff, RetryWithPublicUrl, Out, HandTyped
<1>5. ASSUME NEW p \in Callbacks, Handing(p)
      PROVE  Short'
  <2>1. ASSUME NEW l, NEW left, Proceed(p, l, left)
        PROVE  hand'[p].left = left /\ \A q \in Callbacks \ {p} : hand'[q] = hand[q]
    BY <1>0, <2>1 DEF Proceed, HandTyped
  <2>2. ASSUME NEW l, Proceed(p, l, << >>)
        PROVE  Short'
    BY <1>2, <2>1, <2>2
  <2>3. ASSUME NEW l, Proceed(p, l, hand[p].left)
        PROVE  Short'
    BY <1>2, <2>1, <2>3
  <2>4. ASSUME hand[p].left # << >>, NextAttempt(p)
        PROVE  Short'
    BY <1>2, <2>1, <2>4 DEF NextAttempt
  <2>5. CASE FindPlayer(p)
    BY <1>2, <2>1, <2>5 DEF FindPlayer
  <2>6. CASE AttemptAccepted(p)
    BY <2>2, <2>3, <2>4, <2>6 DEF AttemptAccepted
  <2>7. CASE AttemptFailed(p)
    BY <2>4, <2>7 DEF AttemptFailed
  <2>8. CASE ExplicitPlay(p)
    BY <2>2, <2>4, <2>8 DEF ExplicitPlay, AfterPlayFailed, IInv, DirectInv
  <2> QED
    BY <1>5, <2>5, <2>6, <2>7, <2>8 DEF Handing
<1> QED
  BY <1>1, <1>3, <1>4, <1>5
  DEF Next, Handle, vars, addonVars, directVars, Refuse, Receive, BootstrapSent,
      BootstrapFailed, ProbeObserved, BootstrapTimeout, Rejected, QueueForLock,
      EnterCoalesced, EnterReuse, EnterStart, ReuseReadback, HandoffAccepted, HandoffFailed,
      PollSeesStart, PollGivesUp, ReadbackDone, ReadbackRaises, StartDirect, WorkerAnswered,
      HandOver, WorkerFailed, Sent, HandoffSucceeds, NotSent, AbandonHandoff, CacheAges,
      AlexaProbe, DeviceActs, ObjectRestarts

\* A handoff has between one step, as long as it runs, and twice HandBound left.
LEMMA HandLeftBound ==
  ASSUME IInv, Short, NEW p \in Callbacks
  PROVE  /\ HandLeft(hand[p]) \in 0 .. 2 * HandBound
         /\ hand[p].at # "out" => HandLeft(hand[p]) > 0
<1>1. /\ hand[p].at \in {"out", "players", "command", "play", "readback"}
      /\ hand[p].form \in Forms /\ Len(hand[p].left) \in Nat
  BY HandTypes DEF IInv
<1>2. Len(hand[p].left) <= MediaAttempts + 2 /\ MediaAttempts \in Nat
  BY MediaAttemptsIsNat DEF Short
<1>3. HandBound \in Nat /\ UrlLeft(hand[p]) \in 0 .. HandBound
  BY <1>2 DEF HandBound, UrlLeft
<1>4. /\ AttemptsLeft(hand[p]) \in 0 .. HandBound
      /\ hand[p].at # "out" => AttemptsLeft(hand[p]) > 0
  <2>1. ASSUME NEW n \in Nat, n <= MediaAttempts + 2
        PROVE  2 * n + 2 \in 1 .. HandBound /\ 2 * n + 1 \in 1 .. HandBound
    BY <1>2, <2>1 DEF HandBound
  <2>2. CASE hand[p].at = "command"
    BY <1>1, <1>2, <2>1, <2>2 DEF AttemptsLeft
  <2>3. CASE hand[p].at = "play"
    BY <1>1, <1>2, <2>1, <2>3 DEF AttemptsLeft
  <2>4. CASE hand[p].at \in {"players", "readback", "out"}
    BY <1>2, <2>4 DEF AttemptsLeft, HandBound
  <2> QED
    BY <1>1, <2>2, <2>3, <2>4
<1> QED
  BY <1>3, <1>4 DEF HandLeft

\* Callback p has come nearer to its end, the others are where they were.
Nearer(p) ==
    /\ StepsLeft(p)' < StepsLeft(p)
    /\ \A q \in Callbacks \ {p} : pc'[q] = pc[q] /\ hand'[q] = hand[q]

\* A step outside the handoff.
LEMMA Walks ==
  ASSUME IInv, NEW p \in Callbacks, NEW l, pc[p] # "handing", l # "handing",
         Goto(p, l), UNCHANGED hand, PlaceLeft(l) < PlaceLeft(pc[p])
  PROVE  Nearer(p)
<1>1. pc \in [Callbacks -> PCs]
  BY DEF IInv, TypeOK
<1>2. pc'[p] = l /\ \A q \in Callbacks \ {p} : pc'[q] = pc[q]
  BY <1>1 DEF Goto
<1> QED
  BY <1>2 DEF Nearer, StepsLeft

\* The places before the lock, and those in it.
LEMMA WalksBefore ==
  ASSUME IInv, NEW p \in Callbacks,
         \/ Refuse(p) \/ Receive(p) \/ BootstrapSent(p) \/ BootstrapFailed(p)
         \/ ProbeObserved(p) \/ BootstrapTimeout(p) \/ Rejected(p) \/ QueueForLock(p)
         \/ WorkerFailed(p)
  PROVE  Nearer(p)
<1> USE DEF Answer
<1>1. MediaAttempts \in Nat /\ UNCHANGED hand
  BY MediaAttemptsIsNat
  DEF Refuse, Receive, BootstrapSent, BootstrapFailed, ProbeObserved, BootstrapTimeout,
      Rejected, QueueForLock, WorkerFailed, directVars
<1>2. \E l \in {"bootstrap", "awaitProbe", "players", "locking", "done"} :
         Goto(p, l) /\ PlaceLeft(l) < PlaceLeft(pc[p])
  BY <1>1
  DEF Refuse, Receive, BootstrapSent, BootstrapFailed, ProbeObserved, BootstrapTimeout,
      Rejected, QueueForLock, WorkerFailed, PlaceLeft, HandBound
<1>3. pc[p] # "handing"
  BY DEF Refuse, Receive, BootstrapSent, BootstrapFailed, ProbeObserved, BootstrapTimeout,
         Rejected, QueueForLock, WorkerFailed
<1> QED
  BY <1>1, <1>2, <1>3, Walks

LEMMA WalksInLock ==
  ASSUME IInv, NEW p \in Callbacks,
         \/ EnterCoalesced(p) \/ EnterReuse(p) \/ EnterStart(p) \/ ReuseReadback(p)
         \/ HandoffFailed(p) \/ PollSeesStart(p) \/ PollGivesUp(p)
         \/ ReadbackDone(p) \/ ReadbackRaises(p)
         \/ \E s \in Sessions : HandoffAccepted(p, s)
  PROVE  Nearer(p)
<1> USE DEF Answer
<1>1. /\ pc[p] # "handing" /\ UNCHANGED hand
      /\ \E l \in {"reusing", "handoff", "polling", "readback", "done"} :
            Goto(p, l) /\ PlaceLeft(l) < PlaceLeft(pc[p])
  BY DEF EnterCoalesced, EnterReuse, EnterStart, ReuseReadback, HandoffFailed, PollSeesStart,
         PollGivesUp, ReadbackDone, ReadbackRaises, HandoffAccepted, directVars, PlaceLeft
<1> QED
  BY <1>1, Walks

\* A callback enters its handoff, or is turned away.
LEMMA WalksToHandoff ==
  ASSUME IInv, NEW p \in Callbacks, StartDirect(p) \/ WorkerAnswered(p)
  PROVE  Nearer(p)
<1> USE DEF Answer
<1>1. /\ pc[p] \in {"players", "askWorker"} /\ pc \in [Callbacks -> PCs] /\ HandTyped
      /\ MediaAttempts \in Nat
  BY MediaAttemptsIsNat DEF StartDirect, WorkerAnswered, IInv, TypeOK
<1>2. CASE Goto(p, "done") /\ UNCHANGED hand
  BY <1>1, <1>2, Walks DEF PlaceLeft, HandBound
<1>3. CASE pc[p] = "players" /\ Goto(p, "askWorker") /\ UNCHANGED hand
  BY <1>1, <1>3, Walks DEF PlaceLeft, HandBound
<1>4. ASSUME NEW form \in Forms, BeginHandoff(p, form), Goto(p, "handing")
      PROVE  Nearer(p)
  <2>1. /\ pc'[p] = "handing" /\ hand'[p].at = "players" /\ hand'[p].form = form
        /\ \A q \in Callbacks \ {p} : pc'[q] = pc[q] /\ hand'[q] = hand[q]
    BY <1>1, <1>4 DEF BeginHandoff, Goto, HandTyped
  <2>2. HandLeft(hand'[p]) <= 2 * HandBound
    BY <1>1, <2>1 DEF HandLeft, UrlLeft, AttemptsLeft, HandBound
  <2>3. StepsLeft(p)' = HandLeft(hand'[p])
    BY <2>1 DEF StepsLeft
  <2>4. StepsLeft(p) > 2 * HandBound
    BY <1>1 DEF StepsLeft, PlaceLeft, HandBound
  <2>5. HandLeft(hand'[p]) \in Nat /\ HandBound \in Nat /\ StepsLeft(p) \in Nat
    BY <1>1, <2>1 DEF HandLeft, UrlLeft, AttemptsLeft, HandBound, StepsLeft, PlaceLeft
  <2> QED
    BY <2>1, <2>2, <2>3, <2>4, <2>5 DEF Nearer
<1>5. \/ Goto(p, "done") /\ UNCHANGED hand
      \/ pc[p] = "players" /\ Goto(p, "askWorker") /\ UNCHANGED hand
      \/ \E form \in Forms : BeginHandoff(p, form) /\ Goto(p, "handing")
  BY DEF StartDirect, WorkerAnswered, HandOver, Forms
<1> QED
  BY <1>2, <1>3, <1>4, <1>5

\* A step within the handoff: fewer steps are left at the new place, or the other
\* URL is tried.
LEMMA HandingNearer ==
  ASSUME IInv, NEW p \in Callbacks, pc[p] = "handing", UNCHANGED pc,
         \A q \in Callbacks \ {p} : hand'[q] = hand[q],
         HandLeft(hand'[p]) < HandLeft(hand[p])
  PROVE  Nearer(p)
  BY DEF Nearer, StepsLeft

LEMMA WalksInHandoff ==
  ASSUME IInv, Short, NEW p \in Callbacks, Handing(p)
  PROVE  Nearer(p)
<1>0. /\ HandTyped /\ MediaAttempts \in Nat /\ pc[p] = "handing" /\ UNCHANGED pc
      /\ hand[p].form \in Forms /\ hand[p].left \in Seq(Modes)
  BY MediaAttemptsIsNat, HandTypes DEF Handing, IInv
<1>1. UrlLeft(hand[p]) \in Nat /\ HandBound \in Nat /\ Len(hand[p].left) \in Nat
  BY <1>0 DEF UrlLeft, HandBound
<1>2. ASSUME NEW l, NEW left, Proceed(p, l, left),
             AttemptsLeft(hand'[p]) \in Nat, AttemptsLeft(hand[p]) \in Nat,
             AttemptsLeft(hand'[p]) < AttemptsLeft(hand[p])
      PROVE  Nearer(p)
  <2>1. /\ hand'[p].form = hand[p].form
        /\ \A q \in Callbacks \ {p} : hand'[q] = hand[q]
    BY <1>0, <1>2 DEF Proceed, HandTyped
  <2>2. HandLeft(hand'[p]) < HandLeft(hand[p])
    BY <1>1, <1>2, <2>1 DEF HandLeft, UrlLeft
  <2> QED
    BY <1>0, <2>1, <2>2, HandingNearer
<1>3. ASSUME NEW l, NEW left, Proceed(p, l, left)
      PROVE  hand'[p].at = l /\ hand'[p].left = left
  BY <1>0, <1>3 DEF Proceed, HandTyped
<1>4. ASSUME hand[p].left # << >>
      PROVE  /\ Len(Tail(hand[p].left)) = Len(hand[p].left) - 1
             /\ Len(hand[p].left) > 0
  BY <1>0, <1>4, HeadTailProperties
<1>5. CASE FindPlayer(p)
  <2>1. PICK direct \in BOOLEAN : Proceed(p, "command", AttemptsFor(direct))
    BY <1>5 DEF FindPlayer
  <2>2. Len(AttemptsFor(direct)) \in Nat /\ Len(AttemptsFor(direct)) <= MediaAttempts + 2
    BY Attempts, Lengths
  <2>3. /\ AttemptsLeft(hand[p]) = HandBound
        /\ AttemptsLeft(hand'[p]) = 2 * Len(AttemptsFor(direct)) + 2
    BY <1>3, <1>5, <2>1 DEF FindPlayer, AttemptsLeft
  <2>4. AttemptsLeft(hand'[p]) \in Nat /\ AttemptsLeft(hand'[p]) < HandBound
    BY <1>0, <2>2, <2>3 DEF HandBound
  <2> QED
    BY <1>1, <1>2, <2>1, <2>3, <2>4
<1>6. ASSUME hand[p].at \in {"command", "play"}, hand[p].left # << >>, NextAttempt(p)
      PROVE  Nearer(p)
  <2>1. Proceed(p, "command", Tail(hand[p].left))
    BY <1>6 DEF NextAttempt
  <2>2. hand'[p].at = "command" /\ hand'[p].left = Tail(hand[p].left)
    BY <1>3, <2>1
  <2>3. AttemptsLeft(hand[p]) \in {2 * Len(hand[p].left) + 1, 2 * Len(hand[p].left) + 2}
    BY <1>6 DEF AttemptsLeft
  <2>4. AttemptsLeft(hand'[p]) = 2 * Len(Tail(hand[p].left)) + 2
    BY <2>2 DEF AttemptsLeft
  <2>5. /\ AttemptsLeft(hand'[p]) \in Nat /\ AttemptsLeft(hand[p]) \in Nat
        /\ AttemptsLeft(hand'[p]) < AttemptsLeft(hand[p])
    BY <1>1, <1>4, <1>6, <2>3, <2>4
  <2> QED
    BY <1>2, <2>1, <2>5
<1>7. ASSUME hand[p].at \in {"command", "play"}, hand[p].left # << >>,
             Proceed(p, "readback", << >>)
      PROVE  Nearer(p)
  <2>1. /\ AttemptsLeft(hand[p]) \in {2 * Len(hand[p].left) + 1, 2 * Len(hand[p].left) + 2}
        /\ AttemptsLeft(hand'[p]) = 1
    BY <1>3, <1>7 DEF AttemptsLeft
  <2> QED
    BY <1>1, <1>2, <1>4, <1>7, <2>1
<1>8. ASSUME hand[p].at = "command", Proceed(p, "play", hand[p].left)
      PROVE  Nearer(p)
  <2>1. /\ AttemptsLeft(hand[p]) = 2 * Len(hand[p].left) + 2
        /\ AttemptsLeft(hand'[p]) = 2 * Len(hand[p].left) + 1
    BY <1>3, <1>8 DEF AttemptsLeft
  <2> QED
    BY <1>1, <1>2, <1>8, <2>1
<1>9. CASE AttemptAccepted(p)
  BY <1>6, <1>7, <1>8, <1>9 DEF AttemptAccepted
<1>10. CASE AttemptFailed(p)
  BY <1>6, <1>10 DEF AttemptFailed
<1>11. CASE ExplicitPlay(p)
  BY <1>6, <1>7, <1>11 DEF ExplicitPlay, AfterPlayFailed, IInv, DirectInv
<1> QED
  BY <1>5, <1>9, <1>10, <1>11 DEF Handing

\* All attempts failed with the Worker's URL: the public one comes next, once.
LEMMA WalksToPublic ==
  ASSUME IInv, NEW p \in Callbacks, RetryWithPublicUrl(p)
  PROVE  Nearer(p)
<1>1. /\ pc[p] = "handing" /\ UNCHANGED pc /\ MediaAttempts \in Nat
      /\ hand[p].at = "command" /\ hand[p].left = << >> /\ hand[p].form = "stream"
  BY MediaAttemptsIsNat DEF RetryWithPublicUrl, AttemptsUsedUp, IInv, DirectInv
<1>2. /\ hand'[p].at = "players" /\ hand'[p].form = "public"
      /\ \A q \in Callbacks \ {p} : hand'[q] = hand[q]
  BY DEF RetryWithPublicUrl, IInv, HandTyped
<1>3. HandBound \in Nat /\ Len(<< >>) = 0
  BY <1>1 DEF HandBound
<1>4. HandLeft(hand'[p]) = HandBound /\ HandLeft(hand[p]) = HandBound + 2
  BY <1>1, <1>2, <1>3 DEF HandLeft, UrlLeft, AttemptsLeft
<1> QED
  BY <1>1, <1>2, <1>3, <1>4, HandingNearer

LEMMA WalksFromHandoff ==
  ASSUME IInv, Short, NEW p \in Callbacks, Sent(p) \/ NotSent(p)
  PROVE  Nearer(p)
<1>1. hand[p].at # "out" /\ EndHandoff(p) /\ Goto(p, "done")
  BY DEF Sent, NotSent, HandoffSucceeds, AbandonHandoff, AttemptsUsedUp, Answer
<1>2. pc[p] = "handing" /\ pc \in [Callbacks -> PCs] /\ HandTyped
  BY <1>1 DEF IInv, TypeOK, DirectInv
<1>3. /\ pc'[p] = "done"
      /\ \A q \in Callbacks \ {p} : pc'[q] = pc[q] /\ hand'[q] = hand[q]
  BY <1>1, <1>2 DEF Goto, EndHandoff, HandTyped
<1> QED
  BY <1>1, <1>2, <1>3, HandLeftBound DEF Nearer, StepsLeft, PlaceLeft

LEMMA HandleNearer ==
  ASSUME IInv, Short, NEW p \in Callbacks, Handle(p)
  PROVE  Nearer(p)
  BY WalksBefore, WalksInLock, WalksToHandoff, WalksInHandoff, WalksToPublic,
     WalksFromHandoff DEF Handle

\* A step that no callback takes leaves every one where it is.
LEMMA OthersStandStill ==
  ASSUME [Next]_vars, \A p \in Callbacks : ~ Handle(p)
  PROVE  UNCHANGED <<pc, hand>>
  BY DEF Next, vars, addonVars, directVars, CacheAges, AlexaProbe, DeviceActs, ObjectRestarts

LEMMA ShortInvariance == Spec => []Short
<1>1. Init => Short
  <2> SUFFICES ASSUME Init, NEW p \in Callbacks PROVE Len(hand[p].left) <= MediaAttempts + 2
    BY DEF Short
  <2>1. hand[p].left = << >>
    BY DEF Init, HandoffInit, Out
  <2> QED
    BY <2>1, MediaAttemptsIsNat
<1>2. IInv /\ Short /\ [Next]_vars => Short'
  BY ShortStep
<1> QED
  BY <1>1, <1>2, Invariance, PTL DEF Spec

LEMMA PlaceLeftBound ==
  ASSUME NEW l \in PCs \ {"handing"}
  PROVE  PlaceLeft(l) \in 0 .. 2 * HandBound + 5
<1>1. HandBound \in Nat
  BY MediaAttemptsIsNat DEF HandBound
<1>2. PlaceLeft(l) \in {2 * HandBound + 5, 2 * HandBound + 4, 2 * HandBound + 3,
                       2 * HandBound + 2, 2 * HandBound + 1, 4, 3, 2, 1, 0}
  <2>1. CASE l \in {"idle", "bootstrap", "awaitProbe"}
    BY <2>1 DEF PlaceLeft
  <2>2. CASE l \in {"players", "askWorker"}
    BY <2>2 DEF PlaceLeft
  <2>3. CASE l \in {"locking", "handoff", "polling"}
    BY <2>3 DEF PlaceLeft
  <2>4. CASE l \in {"readback", "reusing", "done"}
    BY <2>4 DEF PlaceLeft
  <2> QED
    BY <2>1, <2>2, <2>3, <2>4 DEF PCs, Starting
<1> QED
  BY <1>1, <1>2

\* A callback takes at most twice HandBound plus five steps of its own from arrival to
\* answer, whatever the other callbacks, the watch and the device do: every await of
\* ma_push_url and handoff_playback_url comes out nearer the answer, no failure starts
\* over, and the second URL is tried once.
THEOREM CallbacksAreBounded == Spec => []StepsAreBounded /\ StepsAreCounted
<1>1. IInv /\ Short => StepsAreBounded
  <2> SUFFICES ASSUME IInv, Short, NEW p \in Callbacks
               PROVE  StepsLeft(p) \in 0 .. 2 * HandBound + 5
    BY DEF StepsAreBounded
  <2>1. HandBound \in Nat /\ pc[p] \in PCs
    BY MediaAttemptsIsNat DEF HandBound, IInv, TypeOK
  <2>2. CASE pc[p] = "handing"
    BY <2>1, <2>2, HandLeftBound DEF StepsLeft
  <2>3. CASE pc[p] # "handing"
    <3>1. PlaceLeft(pc[p]) \in 0 .. 2 * HandBound + 5
      BY <2>1, <2>3, PlaceLeftBound
    <3> QED
      BY <2>3, <3>1 DEF StepsLeft
  <2> QED
    BY <2>2, <2>3
<1>2. IInv' /\ Short' => StepsAreBounded'
  BY <1>1, PTL
<1>3. IInv /\ Short /\ [Next]_vars =>
        \A p \in Callbacks : /\ Handle(p) => StepsLeft(p)' < StepsLeft(p)
                             /\ StepsLeft(p)' <= StepsLeft(p)
  <2> SUFFICES ASSUME IInv, Short, [Next]_vars, NEW p \in Callbacks
               PROVE  /\ Handle(p) => StepsLeft(p)' < StepsLeft(p)
                      /\ StepsLeft(p)' <= StepsLeft(p)
    OBVIOUS
  <2>1. StepsLeft(p) \in Int /\ StepsLeft(p)' \in Int
    <3>1. Short' /\ IInv'
      BY ShortStep, StepIInv
    <3>2. StepsAreBounded /\ StepsAreBounded'
      BY <1>1, <1>2, <3>1
    <3> QED
      BY <3>2, MediaAttemptsIsNat DEF StepsAreBounded, HandBound
  <2>2. CASE Handle(p)
    BY <2>1, <2>2, HandleNearer DEF Nearer
  <2>3. ASSUME NEW q \in Callbacks \ {p}, Handle(q)
        PROVE  StepsLeft(p)' = StepsLeft(p)
    BY <2>3, HandleNearer DEF Nearer, StepsLeft
  <2>4. ASSUME \A q \in Callbacks : ~ Handle(q)
        PROVE  StepsLeft(p)' = StepsLeft(p)
    <3>1. pc' = pc /\ hand' = hand
      BY <2>4, OthersStandStill
    <3> QED
      BY <3>1 DEF StepsLeft
  <2> QED
    BY <2>1, <2>2, <2>3, <2>4
<1> QED
  BY <1>1, <1>3, Invariance, ShortInvariance, PTL DEF Spec, StepsAreCounted

=============================================================================
