------------------------ MODULE WorkerPlaybackProofs ------------------------
(***************************************************************************)
(* What is proved of WorkerPlayback for any sessions, streams and origins  *)
(* and any number of moves of the tunnel: its safety properties, from an   *)
(* inductive invariant in four parts, one for each actor of the module.    *)
(***************************************************************************)
EXTENDS WorkerPlayback, TLAPS

GivenOut == {"play", "handedOff"}

\* A play request: what it has written by the step it is at, and the order in
\* which session, token, link, answer and URL come about.
PlayInv ==
    \A s \in Sessions :
        /\ pc[s] \in {"token", "link"} => rows[s] # None
        /\ pc[s] \in {"link", "register", "answer"} => s \in tokens
        /\ pc[s] \in {"register", "answer"} => rows[s] = TRUE
        /\ pc[s] # "done" => answer[s] = "none"
        /\ answer[s] \in GivenOut => s \in tokens /\ rows[s] = TRUE
        /\ s \in urlOut => answer[s] \in GivenOut
        /\ s \in tokens => rows[s] # None
        /\ rows[s] = TRUE => s \in tokens

\* A stream request goes by a URL that was given out.
StreamInv == \A t \in Streams : at[t] # "idle" => of[t] \in urlOut

\* The watch's memory repeats its storage or is silent.
Coherent == \A s \in Sessions : playbackStarts[s] \in {None, stored[s]}

\* A tracked session has its record and was registered before its URL was out; a
\* marked one was out.
WatchInv ==
    /\ Coherent
    /\ registered \cap {s \in Sessions : pc[s] \notin {"answer", "done"}} = {}
    /\ marked \subseteq urlOut
    /\ \A s \in registered : stored[s] # None
    /\ \A s \in registered \cap marked : stored[s].fetched

\* The origin a stream goes by, from the add-on's answer on.
TunnelInv ==
    \A t \in Streams :
        /\ resolvedAt[t] <= moves
        /\ at[t] \in {"update", "fetch"} => target[t] # None
        /\ names /\ at[t] \in {"origin", "update", "fetch"} /\ resolvedAt[t] = moves
              => target[t] = tunnel

IInv == TypeOK /\ PlayInv /\ StreamInv /\ WatchInv /\ TunnelInv

-----------------------------------------------------------------------------
(* The operations of the watch *)

LEMMA Reads ==
  ASSUME WatchTypeOK, Coherent, NEW s \in Sessions
  PROVE  getPlaybackStartState(s) = stored[s]
  BY DEF Coherent, getPlaybackStartState

LEMMA Loads ==
  ASSUME WatchTypeOK, Coherent, NEW s \in Sessions, Load(s)
  PROVE  WatchTypeOK' /\ Coherent' /\ stored' = stored
  BY Reads DEF WatchTypeOK, Coherent, Load

LEMMA Saves ==
  ASSUME WatchTypeOK, Coherent, NEW s \in Sessions, NEW rec \in Records,
         savePlaybackStartState(s, rec)
  PROVE  WatchTypeOK' /\ Coherent' /\ stored' = [stored EXCEPT ![s] = rec]
  BY DEF WatchTypeOK, Coherent, savePlaybackStartState

\* Registering makes a record with nothing in it.
LEMMA Registers ==
  ASSUME WatchTypeOK, Coherent, NEW s \in Sessions, Register(s)
  PROVE  /\ WatchTypeOK' /\ Coherent'
         /\ stored' = [stored EXCEPT ![s] = [fetched |-> FALSE, started |-> FALSE]]
<1>1. [fetched |-> FALSE, started |-> FALSE] \in Records
  BY DEF Records
<1> QED
  BY <1>1, Saves DEF Register

\* A fetch is on record if there is a record; nothing else is touched.
LEMMA Marks ==
  ASSUME WatchTypeOK, Coherent, NEW s \in Sessions, MarkFetched(s)
  PROVE  /\ WatchTypeOK' /\ Coherent'
         /\ \A x \in Sessions \ {s} : stored'[x] = stored[x]
         /\ stored[s] = None => stored'[s] = None
         /\ stored[s] # None => stored'[s] # None /\ stored'[s].fetched
<1>1. getPlaybackStartState(s) = stored[s]
  BY Reads
<1>2. CASE stored[s] = None \/ StreamFetchStarted(s)
  BY <1>1, <1>2, Loads DEF MarkFetched, StreamFetchStarted
<1>3. CASE ~(stored[s] = None \/ StreamFetchStarted(s))
  <2> DEFINE rec == [stored[s] EXCEPT !.fetched = TRUE]
  <2>1. rec \in Records /\ rec.fetched /\ rec # None
    BY <1>3, NoneIsNoRecord DEF WatchTypeOK, Records
  <2>2. savePlaybackStartState(s, rec)
    BY <1>1, <1>3 DEF MarkFetched
  <2>3. WatchTypeOK' /\ Coherent' /\ stored' = [stored EXCEPT ![s] = rec]
    BY <2>1, <2>2, Saves
  <2> QED
    BY <2>1, <2>3, <1>3 DEF WatchTypeOK
<1> QED
  BY <1>2, <1>3

\* A report makes no record and takes no fetch back.
LEMMA Reports ==
  ASSUME WatchTypeOK, Coherent, NEW s \in Sessions,
         NEW e \in {"started", "failed", "other"}, MarkPlaybackEvent(s, e)
  PROVE  /\ WatchTypeOK' /\ Coherent'
         /\ \A x \in Sessions \ {s} : stored'[x] = stored[x]
         /\ stored[s] # None =>
               stored'[s] # None /\ (stored[s].fetched => stored'[s].fetched)
<1>1. getPlaybackStartState(s) = stored[s]
  BY Reads
<1>2. CASE stored[s] = None
  BY <1>1, <1>2, Loads DEF MarkPlaybackEvent
<1>3. CASE stored[s] # None
  <2> DEFINE rec == WithEvent(stored[s], e)
  <2>1. rec \in Records /\ rec # None /\ (stored[s].fetched => rec.fetched)
    BY <1>3, NoneIsNoRecord DEF WatchTypeOK, Records, WithEvent
  <2>2. savePlaybackStartState(s, rec)
    BY <1>1, <1>3 DEF MarkPlaybackEvent
  <2>3. WatchTypeOK' /\ Coherent' /\ stored' = [stored EXCEPT ![s] = rec]
    BY <2>1, <2>2, Saves
  <2> QED
    BY <2>1, <2>3, <1>3 DEF WatchTypeOK
<1> QED
  BY <1>2, <1>3

\* A restart forgets nothing that is stored.
LEMMA Restarts ==
  ASSUME WatchTypeOK, WatchRestart
  PROVE  WatchTypeOK' /\ Coherent' /\ stored' = stored
  BY DEF WatchTypeOK, Coherent, WatchRestart

-----------------------------------------------------------------------------
(* What the actors leave alone *)

LEMMA PlayFrame ==
  ASSUME NEW s \in Sessions, PlayRequest(s)
  PROVE  UNCHANGED <<urlOut, age, homeVars, streamVars, marked, resolvedAt>>
  BY DEF PlayRequest, Turned, HomeFound, HomeLookupFails, Prepared, NotPrepared,
         createPlaybackSession, recordStreamToken, LinkToken, WriteFails,
         RegisterWatch, AnswerPlay, Finish, PlayStep, history

LEMMA StreamFrame ==
  ASSUME NEW t \in Streams, StreamRequest(t)
  PROVE  UNCHANGED <<playVars, age, tunnel, moves, names, registered>>
  BY DEF StreamRequest, verifySignedStreamToken, getRecordedStreamToken, MarkFetch,
         StreamResolved, StreamNotResolved, getOriginBaseUrl, updateOriginBaseUrl,
         UpstreamFetch, StreamLookupFails, End, StreamStep, history, homeVars

-----------------------------------------------------------------------------
(* Types *)

LEMMA PlayTypes ==
  ASSUME IInv, NEW s \in Sessions, PlayRequest(s)
  PROVE  TypeOK'
<1> USE DEF IInv, TypeOK, Answers, PlaySteps, PlayStep, Finish, history, homeVars, streamVars
<1>1. CASE Turned(s) \/ HomeFound(s) \/ HomeLookupFails(s) \/ Prepared(s) \/ NotPrepared(s)
  BY <1>1 DEF Turned, HomeFound, HomeLookupFails, Prepared, NotPrepared, watchVars, WatchTypeOK
<1>2. CASE createPlaybackSession(s)
  BY <1>2 DEF createPlaybackSession, watchVars, WatchTypeOK
<1>3. CASE recordStreamToken(s)
  BY <1>3 DEF recordStreamToken, watchVars, WatchTypeOK
<1>4. CASE LinkToken(s)
  BY <1>4 DEF LinkToken, AfterLink, watchVars, WatchTypeOK
<1>5. CASE WriteFails(s) \/ AnswerPlay(s)
  BY <1>5 DEF WriteFails, AnswerPlay, AfterFailure, watchVars, WatchTypeOK
<1>6. CASE RegisterWatch(s)
  <2>1. WatchTypeOK'
    BY <1>6, Registers DEF RegisterWatch, WatchInv, watchVars, WatchTypeOK
  <2> QED
    BY <1>6, <2>1 DEF RegisterWatch
<1> QED
  BY <1>1, <1>2, <1>3, <1>4, <1>5, <1>6 DEF PlayRequest

LEMMA StreamTypes ==
  ASSUME IInv, NEW t \in Streams, StreamRequest(t)
  PROVE  TypeOK'
<1> USE DEF IInv, TypeOK, StreamSteps, Statuses, StreamStep, End, history, homeVars, playVars
<1>1. CASE MarkFetch(t)
  <2>1. of[t] \in Sessions
    BY <1>1 DEF MarkFetch, StreamInv
  <2>2. WatchTypeOK'
    BY <1>1, <2>1, Marks DEF MarkFetch, WatchInv, watchVars, WatchTypeOK
  <2> QED
    BY <1>1, <2>1, <2>2 DEF MarkFetch
<1>2. CASE StreamResolved(t) \/ StreamNotResolved(t)
  BY <1>2 DEF StreamResolved, StreamNotResolved, watchVars, WatchTypeOK
<1>3. CASE getOriginBaseUrl(t)
  BY <1>3 DEF getOriginBaseUrl, Chosen, watchVars, WatchTypeOK
<1>4. CASE updateOriginBaseUrl(t)
  BY <1>4 DEF updateOriginBaseUrl, TunnelInv, watchVars, WatchTypeOK
<1>5. CASE \/ verifySignedStreamToken(t) \/ getRecordedStreamToken(t)
           \/ UpstreamFetch(t) \/ StreamLookupFails(t)
  BY <1>5 DEF verifySignedStreamToken, getRecordedStreamToken, UpstreamFetch,
              StreamLookupFails, watchVars, WatchTypeOK
<1> QED
  BY <1>1, <1>2, <1>3, <1>4, <1>5 DEF StreamRequest

LEMMA OtherTypes ==
  ASSUME IInv,
         \/ \E s \in Sessions : UrlArrives(s) \/ DeviceReports(s) \/ TokenAges(s)
         \/ \E t \in Streams, s \in Sessions : Fetch(t, s)
         \/ TunnelMoves \/ ObjectRestarts
  PROVE  TypeOK'
<1> USE DEF IInv, TypeOK, playVars, homeVars, streamVars, history
<1>1. ASSUME NEW s \in Sessions, UrlArrives(s) \/ TokenAges(s) PROVE TypeOK'
  BY <1>1 DEF UrlArrives, TokenAges, Ages, watchVars, WatchTypeOK
<1>2. ASSUME NEW s \in Sessions, DeviceReports(s) PROVE TypeOK'
  BY <1>2, Reports DEF DeviceReports, WatchInv
<1>3. ASSUME NEW t \in Streams, NEW s \in Sessions, Fetch(t, s) PROVE TypeOK'
  BY <1>3 DEF Fetch, StreamStep, StreamSteps, Statuses, watchVars, WatchTypeOK
<1>4. CASE TunnelMoves
  BY <1>4, MaxMovesIsNat DEF TunnelMoves, watchVars, WatchTypeOK
<1>5. CASE ObjectRestarts
  BY <1>5, Restarts DEF ObjectRestarts
<1> QED
  BY <1>1, <1>2, <1>3, <1>4, <1>5

-----------------------------------------------------------------------------
(* Play requests *)

LEMMA PlayStepKeepsPlayInv ==
  ASSUME IInv, NEW s \in Sessions, PlayRequest(s)
  PROVE  PlayInv'
<1> USE DEF IInv, TypeOK, PlayInv, PlayStep, Finish, GivenOut
<1>1. CASE Turned(s) \/ HomeFound(s) \/ HomeLookupFails(s) \/ Prepared(s) \/ NotPrepared(s)
  BY <1>1 DEF Turned, HomeFound, HomeLookupFails, Prepared, NotPrepared
<1>2. CASE createPlaybackSession(s)
  BY <1>2, NoneIsNoFlag DEF createPlaybackSession
<1>3. CASE recordStreamToken(s)
  BY <1>3 DEF recordStreamToken
<1>4. CASE LinkToken(s)
  BY <1>4, NoneIsNoFlag DEF LinkToken, AfterLink
<1>5. CASE WriteFails(s) \/ AnswerPlay(s)
  BY <1>5 DEF WriteFails, AnswerPlay, AfterFailure
<1>6. CASE RegisterWatch(s)
  BY <1>6 DEF RegisterWatch
<1> QED
  BY <1>1, <1>2, <1>3, <1>4, <1>5, <1>6 DEF PlayRequest

LEMMA OtherStepsKeepPlayInv ==
  ASSUME IInv,
         \/ \E s \in Sessions : UrlArrives(s) \/ DeviceReports(s) \/ TokenAges(s)
         \/ \E t \in Streams : StreamRequest(t) \/ \E s \in Sessions : Fetch(t, s)
         \/ TunnelMoves \/ ObjectRestarts
  PROVE  PlayInv'
<1> USE DEF IInv, PlayInv
<1>1. CASE UNCHANGED playVars
  BY <1>1 DEF playVars
<1>2. ASSUME NEW s \in Sessions, UrlArrives(s) PROVE PlayInv'
  BY <1>2 DEF UrlArrives, GivenOut
<1>3. ASSUME NEW t \in Streams, StreamRequest(t) PROVE PlayInv'
  BY <1>1, <1>3, StreamFrame
<1> QED
  BY <1>1, <1>2, <1>3
  DEF DeviceReports, TokenAges, Fetch, StreamStep, TunnelMoves, ObjectRestarts

-----------------------------------------------------------------------------
(* Stream requests *)

LEMMA StreamStepKeepsStreamInv ==
  ASSUME IInv, NEW t \in Streams, StreamRequest(t)
  PROVE  StreamInv'
<1>1. UNCHANGED urlOut
  BY StreamFrame DEF playVars
<1>2. /\ UNCHANGED of
      /\ \E l \in StreamSteps \ {"idle"}, m \in StreamSteps :
            at[t] = l /\ at' = [at EXCEPT ![t] = m]
  BY DEF StreamRequest, verifySignedStreamToken, getRecordedStreamToken, MarkFetch,
         StreamResolved, StreamNotResolved, getOriginBaseUrl, updateOriginBaseUrl,
         UpstreamFetch, StreamLookupFails, StreamStep, StreamSteps, End
<1> QED
  BY <1>1, <1>2 DEF IInv, StreamInv, TypeOK

LEMMA OtherStepsKeepStreamInv ==
  ASSUME IInv,
         \/ \E s \in Sessions : PlayRequest(s) \/ UrlArrives(s) \/ DeviceReports(s) \/ TokenAges(s)
         \/ \E t \in Streams, s \in Sessions : Fetch(t, s)
         \/ TunnelMoves \/ ObjectRestarts
  PROVE  StreamInv'
<1> USE DEF IInv, StreamInv, streamVars
<1>1. ASSUME NEW s \in Sessions, PlayRequest(s) PROVE StreamInv'
  BY <1>1, PlayFrame
<1>2. ASSUME NEW t \in Streams, NEW s \in Sessions, Fetch(t, s) PROVE StreamInv'
  BY <1>2 DEF Fetch, StreamStep, playVars, TypeOK
<1> QED
  BY <1>1, <1>2
  DEF UrlArrives, DeviceReports, TokenAges, TunnelMoves, ObjectRestarts, playVars

-----------------------------------------------------------------------------
(* The watch *)

LEMMA PlayStepKeepsWatchInv ==
  ASSUME IInv, NEW s \in Sessions, PlayRequest(s)
  PROVE  WatchInv'
<1> USE DEF IInv, TypeOK, WatchInv, PlayStep, Finish
<1>1. CASE RegisterWatch(s) /\ Register(s) /\ registered' = registered \cup {s}
  <2>1. s \notin marked
    BY <1>1 DEF RegisterWatch, PlayInv, GivenOut
  <2>2. /\ Coherent'
        /\ stored' = [stored EXCEPT ![s] = [fetched |-> FALSE, started |-> FALSE]]
    BY <1>1, Registers
  <2>3. stored'[s] # None /\ \A x \in Sessions \ {s} : stored'[x] = stored[x]
    <3>1. [fetched |-> FALSE, started |-> FALSE] \in Records
      BY DEF Records
    <3>2. [fetched |-> FALSE, started |-> FALSE] # None
      BY <3>1, NoneIsNoRecord
    <3> QED
      BY <2>2, <3>2 DEF WatchTypeOK
  <2>4. registered' = registered \cup {s} /\ pc' = [pc EXCEPT ![s] = "answer"] /\ marked' = marked
    BY <1>1 DEF RegisterWatch
  <2> QED
    BY <2>1, <2>2, <2>3, <2>4, <1>1 DEF RegisterWatch
<1>2. CASE /\ UNCHANGED <<watchVars, history, urlOut>>
           /\ \E l \in PlaySteps \ {"answer", "done"}, m \in PlaySteps : PlayStep(s, l, m)
  BY <1>2 DEF watchVars, history, Coherent
<1>3. CASE UNCHANGED <<watchVars, history>> /\ PlayStep(s, "answer", "done")
  BY <1>3 DEF watchVars, history, Coherent
<1>4. CASE RegisterWatch(s)
  <2>1. pc[s] = "register" /\ PlayStep(s, "register", "answer")
    BY <1>4 DEF RegisterWatch
  <2>2. CASE UNCHANGED <<watchVars, registered>>
    <3>1. UNCHANGED history
      BY <1>4, <2>2 DEF RegisterWatch, history
    <3> QED
      BY <1>2, <2>1, <2>2, <3>1, PlayFrame DEF PlaySteps
  <2> QED
    BY <1>1, <1>4, <2>2 DEF RegisterWatch
<1>5. CASE AnswerPlay(s)
  BY <1>3, <1>5 DEF AnswerPlay
<1>6. CASE \/ Turned(s) \/ HomeFound(s) \/ HomeLookupFails(s) \/ Prepared(s) \/ NotPrepared(s)
           \/ createPlaybackSession(s) \/ recordStreamToken(s) \/ LinkToken(s) \/ WriteFails(s)
  <2>1. UNCHANGED <<watchVars, history, urlOut>>
    BY <1>6, PlayFrame
    DEF Turned, HomeFound, HomeLookupFails, Prepared, NotPrepared, createPlaybackSession,
        recordStreamToken, LinkToken, WriteFails
  <2>2. \E l \in PlaySteps \ {"answer", "done"}, m \in PlaySteps : PlayStep(s, l, m)
    BY <1>6
    DEF Turned, HomeFound, HomeLookupFails, Prepared, NotPrepared, createPlaybackSession,
        recordStreamToken, LinkToken, WriteFails, AfterLink, PlaySteps
  <2> QED
    BY <1>2, <2>1, <2>2
<1> QED
  BY <1>4, <1>5, <1>6 DEF PlayRequest

LEMMA OtherStepsKeepWatchInv ==
  ASSUME IInv,
         \/ \E s \in Sessions : UrlArrives(s) \/ DeviceReports(s) \/ TokenAges(s)
         \/ \E t \in Streams : StreamRequest(t) \/ \E s \in Sessions : Fetch(t, s)
         \/ TunnelMoves \/ ObjectRestarts
  PROVE  WatchInv'
<1> USE DEF IInv, TypeOK, WatchInv
<1>1. CASE UNCHANGED <<watchVars, history, pc>> /\ urlOut \subseteq urlOut'
  BY <1>1 DEF watchVars, history, Coherent
<1>2. ASSUME NEW s \in Sessions, UrlArrives(s) \/ TokenAges(s) PROVE WatchInv'
  BY <1>1, <1>2 DEF UrlArrives, TokenAges, playVars
<1>3. ASSUME NEW s \in Sessions, DeviceReports(s) PROVE WatchInv'
  BY <1>3, Reports DEF DeviceReports, playVars, history
<1>4. ASSUME NEW t \in Streams, StreamRequest(t) PROVE WatchInv'
  <2>1. UNCHANGED <<pc, urlOut, registered>>
    BY <1>4, StreamFrame DEF playVars
  <2>2. CASE UNCHANGED <<watchVars, marked>>
    BY <2>1, <2>2 DEF watchVars, Coherent
  <2>3. CASE /\ MarkFetched(of[t]) /\ marked' = marked \cup {of[t]}
             /\ at[t] = "mark"
    <3>1. of[t] \in Sessions /\ of[t] \in urlOut
      BY <2>3 DEF StreamInv
    <3> QED
      BY <2>1, <2>3, <3>1, Marks
  <2> QED
    BY <1>4, <2>2, <2>3
    DEF StreamRequest, verifySignedStreamToken, getRecordedStreamToken, MarkFetch,
        StreamResolved, StreamNotResolved, getOriginBaseUrl, updateOriginBaseUrl,
        UpstreamFetch, StreamLookupFails, StreamStep, history
<1>5. ASSUME NEW t \in Streams, NEW s \in Sessions, Fetch(t, s) PROVE WatchInv'
  BY <1>1, <1>5 DEF Fetch, StreamStep, playVars
<1>6. CASE TunnelMoves
  BY <1>1, <1>6 DEF TunnelMoves, playVars
<1>7. CASE ObjectRestarts
  BY <1>7, Restarts DEF ObjectRestarts, playVars, history
<1> QED
  BY <1>2, <1>3, <1>4, <1>5, <1>6, <1>7

-----------------------------------------------------------------------------
(* The tunnel *)

LEMMA StreamStepKeepsTunnelInv ==
  ASSUME IInv, NEW t \in Streams, StreamRequest(t)
  PROVE  TunnelInv'
<1>0. at \in [Streams -> StreamSteps] /\ target \in [Streams -> Origins \cup {None}]
      /\ resolvedAt \in [Streams -> 0 .. MaxMoves] /\ tunnel \in Origins /\ origin \in Origins
      /\ moves \in 0 .. MaxMoves
  BY DEF IInv, TypeOK
<1>1. UNCHANGED <<tunnel, moves, names>>
  BY StreamFrame
<1> USE <1>0, <1>1, NoneIsNoOrigin DEF IInv, TunnelInv, StreamStep, End
<1>2. CASE verifySignedStreamToken(t) \/ getRecordedStreamToken(t) \/ StreamLookupFails(t)
  BY <1>2 DEF verifySignedStreamToken, getRecordedStreamToken, StreamLookupFails, history
<1>3. CASE MarkFetch(t) \/ StreamNotResolved(t) \/ UpstreamFetch(t)
  BY <1>3 DEF MarkFetch, StreamNotResolved, UpstreamFetch, history
<1>4. CASE StreamResolved(t)
  BY <1>4, MaxMovesIsNat DEF StreamResolved
<1>5. CASE getOriginBaseUrl(t)
  BY <1>5 DEF getOriginBaseUrl, Chosen, history
<1>6. CASE updateOriginBaseUrl(t)
  BY <1>6 DEF updateOriginBaseUrl, history
<1> QED
  BY <1>2, <1>3, <1>4, <1>5, <1>6 DEF StreamRequest

LEMMA OtherStepsKeepTunnelInv ==
  ASSUME IInv,
         \/ \E s \in Sessions : PlayRequest(s) \/ UrlArrives(s) \/ DeviceReports(s) \/ TokenAges(s)
         \/ \E t \in Streams, s \in Sessions : Fetch(t, s)
         \/ TunnelMoves \/ ObjectRestarts
  PROVE  TunnelInv'
<1> USE DEF IInv, TunnelInv, TypeOK
<1>1. CASE UNCHANGED <<at, target, tunnel, moves, names, resolvedAt>>
  BY <1>1
<1>2. ASSUME NEW s \in Sessions, PlayRequest(s) PROVE TunnelInv'
  BY <1>1, <1>2, PlayFrame DEF homeVars, streamVars
<1>3. ASSUME NEW t \in Streams, NEW s \in Sessions, Fetch(t, s) PROVE TunnelInv'
  BY <1>3 DEF Fetch, StreamStep, homeVars, history
<1>4. CASE TunnelMoves
  BY <1>4, MaxMovesIsNat DEF TunnelMoves, streamVars, history
<1> QED
  BY <1>1, <1>2, <1>3, <1>4
  DEF UrlArrives, DeviceReports, TokenAges, ObjectRestarts, homeVars, streamVars, history

-----------------------------------------------------------------------------
(* Theorems *)

LEMMA StepIInv == IInv /\ [Next]_vars => IInv'
<1> SUFFICES ASSUME IInv, [Next]_vars PROVE IInv'
  OBVIOUS
<1>1. ASSUME NEW s \in Sessions, PlayRequest(s) PROVE IInv'
  BY <1>1, PlayTypes, PlayStepKeepsPlayInv, OtherStepsKeepStreamInv,
     PlayStepKeepsWatchInv, OtherStepsKeepTunnelInv
  DEF IInv
<1>2. ASSUME NEW t \in Streams, StreamRequest(t) PROVE IInv'
  BY <1>2, StreamTypes, OtherStepsKeepPlayInv, StreamStepKeepsStreamInv,
     OtherStepsKeepWatchInv, StreamStepKeepsTunnelInv
  DEF IInv
<1>3. CASE \/ \E s \in Sessions : UrlArrives(s) \/ DeviceReports(s) \/ TokenAges(s)
           \/ \E t \in Streams, s \in Sessions : Fetch(t, s)
           \/ TunnelMoves \/ ObjectRestarts
  BY <1>3, OtherTypes, OtherStepsKeepPlayInv, OtherStepsKeepStreamInv,
     OtherStepsKeepWatchInv, OtherStepsKeepTunnelInv
  DEF IInv
<1>4. CASE UNCHANGED vars
  BY <1>4
  DEF vars, watchVars, playVars, homeVars, streamVars, history, IInv, TypeOK, WatchTypeOK,
      PlayInv, StreamInv, WatchInv, Coherent, TunnelInv
<1> QED
  BY <1>1, <1>2, <1>3, <1>4 DEF Next

LEMMA InitIInv == Init => IInv
<1> SUFFICES ASSUME Init PROVE IInv
  OBVIOUS
<1>1. TypeOK
  BY MaxMovesIsNat
  DEF Init, WatchInit, TypeOK, WatchTypeOK, Answers, Ages, PlaySteps, StreamSteps, Statuses
<1>2. PlayInv
  BY NoneIsNoFlag DEF Init, PlayInv, GivenOut
<1>3. StreamInv /\ WatchInv
  BY DEF Init, WatchInit, StreamInv, WatchInv, Coherent
<1>4. TunnelInv
  BY <1>1 DEF Init, TunnelInv, TypeOK
<1> QED
  BY <1>1, <1>2, <1>3, <1>4 DEF IInv

\* The inductive invariant holds in every reachable state.
THEOREM Invariance == Spec => []IInv
  BY InitIInv, StepIInv, PTL DEF Spec

\* Type correctness; in particular no stream goes by an unknown session.
THEOREM TypeCorrect == Spec => []TypeOK
<1>1. IInv => TypeOK
  BY DEF IInv
<1> QED
  BY <1>1, Invariance, PTL

\* A stream URL is given out only when both rows of its session are written, by
\* voice and by handoff, whatever fails.
THEOREM UrlsAreGood == Spec => []UrlsAreRecorded
<1>1. IInv => UrlsAreRecorded
  BY DEF IInv, PlayInv, UrlsAreRecorded, GivenOut
<1> QED
  BY <1>1, Invariance, PTL

\* A fetch the watch was told of stays on record for every session it tracks.
THEOREM FetchesStay == Spec => []FetchesAreOnRecord
<1>1. IInv => FetchesAreOnRecord
  <2> SUFFICES ASSUME IInv, NEW s \in registered \cap marked PROVE StreamFetchStarted(s)
    BY DEF FetchesAreOnRecord
  <2>1. s \in Sessions /\ WatchTypeOK /\ Coherent /\ stored[s] # None /\ stored[s].fetched
    BY DEF IInv, TypeOK, WatchInv
  <2> QED
    BY <2>1, Reads DEF StreamFetchStarted
<1> QED
  BY <1>1, Invariance, PTL

\* A stream goes by the origin the add-on named, unless the tunnel moved since.
THEOREM StreamsAreUpToDate == Spec => []StreamsFollowTheTunnel
<1>1. IInv => StreamsFollowTheTunnel
  BY DEF IInv, TunnelInv, StreamsFollowTheTunnel
<1> QED
  BY <1>1, Invariance, PTL

\* A stream request is refused for its token only when the token's time is over.
THEOREM RefusalsAreExpiries == Spec => RefusedOnlyWhenExpired
<1>1. ASSUME IInv, [Next]_vars, NEW t \in Streams,
             status[t] # "unauthorized", status'[t] = "unauthorized"
      PROVE  age[of[t]] # "live"
  <2>1. \/ verifySignedStreamToken(t) /\ ~ClaimsHold(of[t])
        \/ getRecordedStreamToken(t) /\ ~(of[t] \in tokens /\ RowHolds(of[t]))
    <3>0. status \in [Streams -> Statuses] /\ status # status'
      BY <1>1 DEF IInv, TypeOK
    <3>1. ASSUME NEW s \in Sessions,
                 PlayRequest(s) \/ UrlArrives(s) \/ DeviceReports(s) \/ TokenAges(s)
          PROVE  FALSE
      BY <3>0, <3>1, PlayFrame DEF UrlArrives, DeviceReports, TokenAges, streamVars
    <3>2. ASSUME NEW u \in Streams, NEW s \in Sessions, Fetch(u, s) PROVE FALSE
      BY <1>1, <3>0, <3>2 DEF Fetch
    <3>3. ASSUME NEW u \in Streams, StreamRequest(u) PROVE u = t
      BY <1>1, <3>0, <3>3
      DEF StreamRequest, verifySignedStreamToken, getRecordedStreamToken, MarkFetch,
          StreamResolved, StreamNotResolved, getOriginBaseUrl, updateOriginBaseUrl,
          UpstreamFetch, StreamLookupFails, End
    <3>4. StreamRequest(t)
      BY <1>1, <3>0, <3>1, <3>2, <3>3
      DEF Next, TunnelMoves, ObjectRestarts, streamVars, vars
    <3> QED
      BY <1>1, <3>0, <3>4
      DEF StreamRequest, verifySignedStreamToken, getRecordedStreamToken, MarkFetch,
          StreamResolved, StreamNotResolved, getOriginBaseUrl, updateOriginBaseUrl,
          UpstreamFetch, StreamLookupFails, End
  <2>2. CASE verifySignedStreamToken(t) /\ ~ClaimsHold(of[t])
    BY <2>2 DEF ClaimsHold
  <2>3. CASE getRecordedStreamToken(t) /\ ~(of[t] \in tokens /\ RowHolds(of[t]))
    BY <2>3, <1>1
    DEF getRecordedStreamToken, RowHolds, IInv, TypeOK, StreamInv, PlayInv, GivenOut
  <2> QED
    BY <2>1, <2>2, <2>3
<1>2. IInv /\ [Next]_vars =>
        \A t \in Streams : status[t] # "unauthorized" /\ status'[t] = "unauthorized"
                              => age[of[t]] # "live"
  BY <1>1
<1> QED
  BY <1>2, Invariance, PTL DEF Spec, RefusedOnlyWhenExpired

-----------------------------------------------------------------------------
(* The watch implements a table of facts *)

\* Only a handoff past its registration has a record.
Recorded == \A s \in Sessions : stored[s] # None => pc[s] \in {"answer", "done"}

Blank == [fetched |-> FALSE, started |-> FALSE]

\* What a step can do to the stored records: nothing, or one of three things to
\* that of one session.
RecordStep(s) ==
    /\ \A x \in Sessions \ {s} : stored'[x] = stored[x]
    /\ \/ stored[s] = None /\ stored'[s] = Blank
       \/ stored[s] # None /\ stored'[s] = [stored[s] EXCEPT !.fetched = TRUE]
       \/ stored[s] # None /\ stored'[s] = [stored[s] EXCEPT !.started = TRUE]

SameRecords == \A x \in Sessions : stored'[x] = stored[x]

\* The table is what is stored, whatever the map in memory holds.
LEMMA TableIsStored ==
  ASSUME WatchTypeOK, Coherent
  PROVE  /\ TrackedSessions = {s \in Sessions : stored[s] # None}
         /\ FetchedSessions = {s \in Sessions : stored[s] # None /\ stored[s].fetched}
         /\ StartedSessions = {s \in Sessions : stored[s] # None /\ stored[s].started}
  BY Reads DEF TrackedSessions, FetchedSessions, StartedSessions, StreamFetchStarted, PlaybackStarted

LEMMA TableIsStoredNext ==
  ASSUME WatchTypeOK', Coherent'
  PROVE  /\ TrackedSessions' = {s \in Sessions : stored'[s] # None}
         /\ FetchedSessions' = {s \in Sessions : stored'[s] # None /\ stored'[s].fetched}
         /\ StartedSessions' = {s \in Sessions : stored'[s] # None /\ stored'[s].started}
<1>1. \A s \in Sessions : getPlaybackStartState(s)' = stored'[s]
  BY DEF Coherent, getPlaybackStartState
<1> QED
  BY <1>1 DEF TrackedSessions, FetchedSessions, StartedSessions, StreamFetchStarted, PlaybackStarted

LEMMA SameRecordsSameFacts ==
  ASSUME WatchTypeOK, Coherent, WatchTypeOK', Coherent', SameRecords
  PROVE  UNCHANGED Facts!facts
  BY TableIsStored, TableIsStoredNext DEF SameRecords, Facts!facts

LEMMA RecordStepIsFactStep ==
  ASSUME WatchTypeOK, Coherent, WatchTypeOK', Coherent', NEW s \in Sessions, RecordStep(s)
  PROVE  Facts!Next
<1>1. Blank \in Records /\ ~Blank.fetched /\ ~Blank.started
  BY DEF Blank, Records
<1>2. \A x \in Sessions \ {s} : stored'[x] = stored[x]
  BY DEF RecordStep
<1>3. CASE stored[s] = None /\ stored'[s] = Blank
  <2>1. Blank # None
    BY <1>1, NoneIsNoRecord
  <2>2. TrackedSessions' = TrackedSessions \cup {s} /\ s \notin TrackedSessions
    BY <1>2, <1>3, <2>1, TableIsStored, TableIsStoredNext
  <2>3. FetchedSessions' = FetchedSessions /\ StartedSessions' = StartedSessions
    BY <1>1, <1>2, <1>3, TableIsStored, TableIsStoredNext
  <2> QED
    BY <2>2, <2>3 DEF Facts!Next, Facts!Track
<1>4. ASSUME NEW rec \in Records, stored[s] # None, stored'[s] = rec
      PROVE  /\ s \in TrackedSessions /\ TrackedSessions' = TrackedSessions
             /\ FetchedSessions' = IF rec.fetched THEN FetchedSessions \cup {s}
                                   ELSE FetchedSessions \ {s}
             /\ StartedSessions' = IF rec.started THEN StartedSessions \cup {s}
                                   ELSE StartedSessions \ {s}
  <2>1. rec # None
    BY NoneIsNoRecord
  <2> QED
    BY <1>2, <1>4, <2>1, TableIsStored, TableIsStoredNext
<1>5. ASSUME stored[s] # None
      PROVE  stored[s] \in Records
  BY <1>5 DEF WatchTypeOK
<1>6. CASE stored[s] # None /\ stored'[s] = [stored[s] EXCEPT !.fetched = TRUE]
  <2>1. /\ stored'[s] \in Records /\ stored'[s].fetched
        /\ stored'[s].started = stored[s].started
    BY <1>5, <1>6 DEF Records
  <2>2. FetchedSessions' = FetchedSessions \cup {s} /\ StartedSessions' = StartedSessions
    BY <1>4, <1>6, <2>1, TableIsStored
  <2> QED
    BY <1>4, <1>6, <2>1, <2>2 DEF Facts!Next, Facts!LearnFetch
<1>7. CASE stored[s] # None /\ stored'[s] = [stored[s] EXCEPT !.started = TRUE]
  <2>1. /\ stored'[s] \in Records /\ stored'[s].started
        /\ stored'[s].fetched = stored[s].fetched
    BY <1>5, <1>7 DEF Records
  <2>2. StartedSessions' = StartedSessions \cup {s} /\ FetchedSessions' = FetchedSessions
    BY <1>4, <1>7, <2>1, TableIsStored
  <2> QED
    BY <1>4, <1>7, <2>1, <2>2 DEF Facts!Next, Facts!LearnStart
<1> QED
  BY <1>3, <1>6, <1>7 DEF RecordStep

LEMMA ReportRecords ==
  ASSUME WatchTypeOK, Coherent, NEW s \in Sessions,
         MarkFetched(s) \/ \E e \in {"started", "failed", "other"} : MarkPlaybackEvent(s, e)
  PROVE  SameRecords \/ (stored[s] # None /\ RecordStep(s))
<1>1. getPlaybackStartState(s) = stored[s]
  BY Reads
<1>2. ASSUME NEW rec, savePlaybackStartState(s, rec)
      PROVE  /\ stored'[s] = rec
             /\ \A x \in Sessions \ {s} : stored'[x] = stored[x]
  BY <1>2 DEF savePlaybackStartState, WatchTypeOK
<1>3. CASE MarkFetched(s)
  BY <1>1, <1>2, <1>3 DEF MarkFetched, Load, SameRecords, RecordStep
<1>4. ASSUME NEW e \in {"started", "failed", "other"}, MarkPlaybackEvent(s, e)
      PROVE  SameRecords \/ (stored[s] # None /\ RecordStep(s))
  BY <1>1, <1>2, <1>4 DEF MarkPlaybackEvent, WithEvent, Load, SameRecords, RecordStep
<1> QED
  BY <1>3, <1>4

\* A play request that has a record leaves it as it is, and registers at most once.
LEMMA PlayRecords ==
  ASSUME IInv, Recorded, NEW s \in Sessions, PlayRequest(s)
  PROVE  (SameRecords \/ RecordStep(s)) /\ Recorded'
<1> USE DEF IInv, TypeOK, PlayStep, Finish
<1>1. CASE RegisterWatch(s) /\ Register(s)
  <2>1. stored[s] = None
    BY <1>1 DEF RegisterWatch, Recorded
  <2>2. stored'[s] = Blank /\ \A x \in Sessions \ {s} : stored'[x] = stored[x]
    <3>1. WatchTypeOK /\ Coherent
      BY DEF WatchInv
    <3>2. stored' = [stored EXCEPT ![s] = Blank]
      BY <1>1, <3>1, Registers DEF Blank
    <3> QED
      BY <3>1, <3>2 DEF WatchTypeOK
  <2>3. pc'[s] = "answer" /\ \A x \in Sessions \ {s} : pc'[x] = pc[x]
    BY <1>1 DEF RegisterWatch
  <2> QED
    BY <2>1, <2>2, <2>3 DEF RecordStep, Recorded
<1>2. CASE UNCHANGED watchVars
  <2>1. pc[s] \in {"answer", "done"} => pc'[s] = "done"
    BY DEF PlayRequest, Turned, HomeFound, HomeLookupFails, Prepared, NotPrepared,
           createPlaybackSession, recordStreamToken, LinkToken, WriteFails,
           RegisterWatch, AnswerPlay
  <2>2. \A x \in Sessions \ {s} : pc'[x] = pc[x]
    BY DEF PlayRequest, Turned, HomeFound, HomeLookupFails, Prepared, NotPrepared,
           createPlaybackSession, recordStreamToken, LinkToken, WriteFails,
           RegisterWatch, AnswerPlay
  <2> QED
    BY <1>2, <2>1, <2>2 DEF watchVars, SameRecords, Recorded
<1> QED
  BY <1>1, <1>2
  DEF PlayRequest, Turned, HomeFound, HomeLookupFails, Prepared, NotPrepared,
      createPlaybackSession, recordStreamToken, LinkToken, WriteFails, RegisterWatch, AnswerPlay

LEMMA StepOfRecords ==
  ASSUME IInv, Recorded, [Next]_vars
  PROVE  /\ SameRecords \/ \E s \in Sessions : RecordStep(s)
         /\ Recorded'
<1>0. WatchTypeOK /\ Coherent
  BY DEF IInv, TypeOK, WatchInv
<1>1. CASE UNCHANGED <<watchVars, pc>>
  BY <1>1 DEF Recorded, SameRecords, watchVars
<1>2. ASSUME NEW s \in Sessions, PlayRequest(s)
      PROVE  (SameRecords \/ RecordStep(s)) /\ Recorded'
  BY <1>2, PlayRecords
<1>3. ASSUME NEW s \in Sessions, SameRecords \/ (stored[s] # None /\ RecordStep(s)),
             UNCHANGED pc
      PROVE  (SameRecords \/ RecordStep(s)) /\ Recorded'
  BY <1>3 DEF SameRecords, RecordStep, Recorded
<1>4. ASSUME NEW t \in Streams, MarkFetch(t)
      PROVE  (SameRecords \/ \E s \in Sessions : RecordStep(s)) /\ Recorded'
  <2>1. of[t] \in Sessions /\ UNCHANGED pc
    BY <1>4 DEF MarkFetch, StreamStep, playVars, IInv, StreamInv, TypeOK
  <2>2. CASE MarkFetched(of[t])
    BY <1>0, <1>3, <2>1, <2>2, ReportRecords
  <2> QED
    BY <1>1, <1>4, <2>1, <2>2 DEF MarkFetch, watchVars
<1>5. ASSUME NEW s \in Sessions, DeviceReports(s)
      PROVE  (SameRecords \/ RecordStep(s)) /\ Recorded'
  BY <1>0, <1>3, <1>5, ReportRecords DEF DeviceReports, playVars
<1>6. CASE ObjectRestarts
  BY <1>6 DEF ObjectRestarts, WatchRestart, playVars, SameRecords, Recorded
<1>7. ASSUME NEW t \in Streams, StreamRequest(t), ~MarkFetch(t)
      PROVE  UNCHANGED <<watchVars, pc>>
  BY <1>7, StreamFrame
  DEF StreamRequest, verifySignedStreamToken, getRecordedStreamToken, StreamResolved,
      StreamNotResolved, getOriginBaseUrl, updateOriginBaseUrl, UpstreamFetch,
      StreamLookupFails, playVars
<1> QED
  BY <1>1, <1>2, <1>4, <1>5, <1>6, <1>7
  DEF Next, vars, UrlArrives, TokenAges, Fetch, StreamStep, TunnelMoves, playVars

\* To voice requests, handoffs, streams and devices, too, the watch (HomeSession.ts,
\* /playback-start) is one table of facts: whatever call of it fails and whenever
\* its object restarts, a session is tracked once and keeps what is known of it.
THEOREM WatchImplementsFacts == Spec => ImplementsFacts
<1>1. Init => Recorded /\ Facts!Init
  <2> SUFFICES ASSUME Init PROVE Recorded /\ Facts!Init
    OBVIOUS
  <2>1. WatchTypeOK /\ Coherent /\ \A s \in Sessions : stored[s] = None
    BY InitIInv DEF Init, WatchInit, IInv, TypeOK, WatchInv
  <2> QED
    BY <2>1, TableIsStored DEF Recorded, Facts!Init
<1>2. IInv /\ Recorded /\ [Next]_vars => Recorded'
  BY StepOfRecords
<1>3. IInv /\ Recorded /\ [Next]_vars => [Facts!Next]_Facts!facts
  <2> SUFFICES ASSUME IInv, Recorded, [Next]_vars
               PROVE  [Facts!Next]_Facts!facts
    OBVIOUS
  <2>1. WatchTypeOK /\ Coherent /\ WatchTypeOK' /\ Coherent'
    BY StepIInv DEF IInv, TypeOK, WatchInv
  <2> QED
    BY <2>1, StepOfRecords, SameRecordsSameFacts, RecordStepIsFactStep
<1> QED
  BY <1>1, <1>2, <1>3, Invariance, PTL DEF Spec, ImplementsFacts, Facts!Spec

=============================================================================
