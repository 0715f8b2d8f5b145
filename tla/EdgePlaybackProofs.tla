------------------------- MODULE EdgePlaybackProofs -------------------------
(***************************************************************************)
(* What is proved of the add-on's two playback commands: of prepare_play   *)
(* (the module PreparePlay) for any queues and tracks, and of the stream   *)
(* route with resolve_stream (the module EdgeStream) for any requests,     *)
(* queue ids, sessions of Music Assistant and retries.                     *)
(*                                                                         *)
(* The two properties of prepare_play speak of finished commands.          *)
(* Inductive is what they rest on: up to "enqueue" nothing was started;    *)
(* from then to the answer, through all forms, at most the found track in  *)
(* the effective queue.                                                    *)
(*                                                                         *)
(* Of the stream route: what a failure leaves in the caches, whichever     *)
(* requests have filled them before it, and the bound on its attempts.     *)
(***************************************************************************)
EXTENDS PreparePlay, EdgeStream, FiniteSetTheorems, TLAPS

Lookups == {"wantedCurrent", "wantedNext", "current", "next"}

\* A queue's item is looked for only on behalf of a lookup.
Sourced == at \in {"select", "rediscover", "reselect"} => stage \in Lookups

Holding == at \in {"build", "enqueue", "post", "read"} => found \in Media

Quiet ==
    at \in {"discover", "select", "rediscover", "reselect", "build", "players",
            "search", "enqueue"} => posted = {}

Starting ==
    at \in {"post", "read"} => queue \in Queues /\ posted \subseteq {<<queue, found.track>>}

Unsettled == at # "idle" => answer = None

Concluded ==
    at = "idle" =>
        IF answer \in {None, Failure} THEN posted = {}
        ELSE \E t \in Tracks : /\ posted \subseteq {<<answer.queue, t>>}
                               /\ answer.item.real \/ answer.item.track = t

Inv == TypeOK /\ Sourced /\ Holding /\ Quiet /\ Starting /\ Unsettled /\ Concluded

USE DEF Lookups, AnyQueue

-----------------------------------------------------------------------------
(* The pieces the actions share *)

LEMMA SanitizedType == \A q \in AnyQueue \cup {Numeric} : Sanitized(q) \in AnyQueue
  BY DEF Sanitized

\* A command that has just started, anew or once more, is in order.
LEMMA StartInv ==
  ASSUME Inv, NEW q \in AnyQueue, NEW query \in BOOLEAN, Start(q, query),
         retried' \in BOOLEAN, requests' \in 0 .. MaxRequests,
         ask' \in [queue : AnyQueue \cup {Numeric}, query : BOOLEAN],
         posted' = {}, answer' = None, UNCHANGED <<ma, uriMapping>>
  PROVE  Inv'
<1>1. /\ wanted' \in AnyQueue /\ queue' \in AnyQueue
      /\ stage' \in {"query", "wantedCurrent", "current"}
      /\ at' \in {"discover", "search", "select"}
      /\ at' = "select" => stage' = "wantedCurrent"
      /\ kinds' = 4 /\ candidates' = 0 /\ found' = None
  BY DEF Start, Go
<1>2. TypeOK'
  BY <1>1 DEF Inv, TypeOK, ma
<1> QED
  BY <1>1, <1>2 DEF Inv, Sourced, Holding, Quiet, Starting, Unsettled, Concluded

\* An error leaves things in order while nothing was started.
LEMMA RaisedInv ==
  ASSUME Inv, posted = {}, answer = None, NEW error, Raised(error)
  PROVE  Inv'
<1>1. /\ UNCHANGED <<ma, command, posted, uriMapping>>
      /\ \/ retried' = TRUE /\ Start(NoQueue, ask.query) /\ UNCHANGED answer
         \/ answer' = Failure /\ End
  BY DEF Raised
<1>2. CASE retried' = TRUE /\ Start(NoQueue, ask.query) /\ UNCHANGED answer
  <2>1. ask.query \in BOOLEAN
    BY DEF Inv, TypeOK
  <2>2. /\ retried' \in BOOLEAN /\ requests' \in 0 .. MaxRequests
        /\ ask' \in [queue : AnyQueue \cup {Numeric}, query : BOOLEAN]
        /\ posted' = {} /\ answer' = None /\ UNCHANGED <<ma, uriMapping>>
    BY <1>1, <1>2 DEF Inv, TypeOK, command
  <2> QED
    BY <1>2, <2>1, <2>2, StartInv
<1>3. CASE answer' = Failure /\ End
  <2>1. TypeOK'
    BY <1>1, <1>3 DEF Inv, TypeOK, End, Go, ma, command
  <2> QED
    BY <1>1, <1>3, <2>1
    DEF Inv, Sourced, Holding, Quiet, Starting, Unsettled, Concluded, End, Go
<1> QED
  BY <1>1, <1>2, <1>3

\* An answer that names what was started settles the command.
LEMMA AnsweredInv ==
  ASSUME Inv, found \in Media, NEW q \in AnyQueue, NEW i \in Items, Answered(q, i),
         UNCHANGED <<ma, command>>,
         posted' \subseteq Queues \X Tracks,
         posted' = {} \/ i.real \/ i.track = found.track,
         posted' \subseteq {<<q, found.track>>}
  PROVE  Inv'
<1>1. found.track \in Tracks
  BY DEF Media
<1>2. uriMapping' \in [AnyQueue \X Items -> Tracks \cup {None}]
  <2>1. uriMapping \in [AnyQueue \X Items -> Tracks \cup {None}]
    BY DEF Inv, TypeOK
  <2>2. \/ uriMapping' = uriMapping
        \/ uriMapping' = [uriMapping EXCEPT ![<<q, i>>] = found.track]
    BY DEF Answered
  <2> QED
    BY <1>1, <2>1, <2>2
<1>3. /\ at' = "idle" /\ queue' = NoQueue /\ found' = None /\ kinds' = 0 /\ candidates' = 0
      /\ UNCHANGED <<retried, wanted, stage>>
      /\ answer' = [queue |-> q, item |-> i]
  BY DEF Answered, End, Go
<1>4. TypeOK'
  BY <1>2, <1>3 DEF Inv, TypeOK, ma, command
<1>5. answer' \notin {None, Failure}
  BY <1>3, Outcomes DEF Items
<1>6. PICK t \in Tracks : posted' \subseteq {<<q, t>>} /\ (i.real \/ i.track = t)
  <2>1. CASE posted' = {}
    BY <2>1 DEF Items
  <2>2. CASE posted' # {}
    BY <1>1, <2>2
  <2> QED
    BY <2>1, <2>2
<1>7. answer'.queue = q /\ answer'.item = i
  BY <1>3
<1>8. Concluded'
  BY <1>5, <1>6, <1>7 DEF Concluded
<1> QED
  BY <1>3, <1>4, <1>8 DEF Inv, Sourced, Holding, Quiet, Starting, Unsettled

\* Going on to the next lookup leaves things in order.
LEMMA NoItemInv ==
  ASSUME Inv, posted = {}, answer = None, stage \in Lookups, NoItem
  PROVE  Inv'
<1>1. After(stage) \in {"wantedNext", "current", "next", "nowPlaying"}
  BY DEF After
<1>2. /\ stage' = After(stage)
      /\ at' \in {"select", "players", "discover"}
      /\ at' = "select" => stage' = "wantedNext"
      /\ queue' \in AnyQueue
      /\ UNCHANGED <<wanted, kinds, found, candidates>> /\ Continues
  BY <1>1 DEF NoItem, Go, Inv, TypeOK
<1>3. TypeOK'
  BY <1>1, <1>2 DEF Inv, TypeOK, Continues, ma, command
<1> QED
  BY <1>2, <1>3 DEF Inv, Sourced, Holding, Quiet, Starting, Unsettled, Concluded, Continues

\* So does a step between awaits that starts and answers nothing.
LEMMA GoesOnInv ==
  ASSUME Inv, posted = {}, answer = None, Continues, at # "idle",
         at' \in {"discover", "select", "rediscover", "reselect", "build", "players",
                  "search", "enqueue", "post"},
         queue' \in AnyQueue, kinds' \in 0 .. 4, candidates' \in 0 .. 2,
         found' \in Media \cup {None}, wanted' \in AnyQueue,
         stage' \in Lookups \cup {"query", "nowPlaying"},
         at' \in {"select", "rediscover", "reselect"} => stage' \in Lookups,
         at' \in {"build", "enqueue", "post"} => found' \in Media,
         at' = "post" => queue' \in Queues
  PROVE  Inv'
<1>1. TypeOK'
  BY DEF Inv, TypeOK, Continues, ma, command
<1> QED
  BY <1>1 DEF Inv, Sourced, Holding, Quiet, Starting, Unsettled, Concluded, Continues

-----------------------------------------------------------------------------
LEMMA InitInv == Init => Inv
<1> SUFFICES ASSUME Init PROVE Inv
  OBVIOUS
<1>1. uriMapping \in [AnyQueue \X Items -> Tracks \cup {None}]
  BY DEF Init
<1>2. requests \in 0 .. MaxRequests
  BY BoundIsNat DEF Init
<1>3. held \in [Queues -> SUBSET Tracks]
  BY DEF Init
<1>4. ask \in [queue : AnyQueue \cup {Numeric}, query : BOOLEAN] /\ retried \in BOOLEAN
  BY DEF Init
<1>5. TypeOK
  BY <1>1, <1>2, <1>3, <1>4 DEF Init, TypeOK
<1> QED
  BY <1>5 DEF Init, Inv, Sourced, Holding, Quiet, Starting, Unsettled, Concluded

LEMMA MAChangesInv == Inv /\ MAChanges => Inv'
<1> SUFFICES ASSUME Inv, MAChanges PROVE Inv'
  OBVIOUS
<1>1. exists' \subseteq Queues /\ held' \in [Queues -> SUBSET Tracks]
  BY DEF Inv, TypeOK, MAChanges
<1>2. UNCHANGED <<command, progress, posted, answer, uriMapping>>
  BY DEF MAChanges
<1>3. TypeOK'
  BY <1>1, <1>2 DEF Inv, TypeOK, command, progress
<1> QED
  BY <1>2, <1>3
  DEF Inv, Sourced, Holding, Quiet, Starting, Unsettled, Concluded, progress

LEMMA RequestInv ==
  ASSUME Inv, NEW q \in AnyQueue \cup {Numeric}, NEW query \in BOOLEAN, Request(q, query)
  PROVE  Inv'
<1>1. requests' \in 0 .. MaxRequests
  <2>1. requests \in 0 .. MaxRequests /\ requests < MaxRequests /\ requests' = requests + 1
    BY DEF Inv, TypeOK, Request
  <2> QED
    BY <2>1, BoundIsNat
<1>2. /\ ask' \in [queue : AnyQueue \cup {Numeric}, query : BOOLEAN]
      /\ retried' \in BOOLEAN /\ posted' = {} /\ answer' = None
      /\ Start(Sanitized(q), query) /\ UNCHANGED <<ma, uriMapping>>
  BY DEF Request
<1>3. Sanitized(q) \in AnyQueue
  BY SanitizedType
<1> QED
  BY <1>1, <1>2, <1>3, StartInv

LEMMA UnansweredInv == Inv /\ (Unanswered \/ CallBreaks) => Inv'
<1> SUFFICES ASSUME Inv, Unanswered \/ CallBreaks PROVE Inv'
  OBVIOUS
<1>1. posted = {} /\ answer = None
  BY DEF Inv, Quiet, Unsettled, Unanswered, CallBreaks
<1>2. \E error : Raised(error)
  BY DEF Unanswered, CallBreaks
<1> QED
  BY <1>1, <1>2, RaisedInv

LEMMA DiscoverInv == Inv /\ (Discover \/ Rediscover) => Inv'
<1> SUFFICES ASSUME Inv, Discover \/ Rediscover PROVE Inv'
  OBVIOUS
<1>1. posted = {} /\ answer = None /\ at # "idle"
  BY DEF Inv, Quiet, Unsettled, Discover, Rediscover
<1>2. stage \in Lookups \cup {"query", "nowPlaying"}
  BY DEF Inv, TypeOK
<1>3. PICK q \in Discovered :
        \/ /\ stage \in Lookups /\ NoItem
        \/ /\ at' \in {"search", "select", "reselect"} /\ queue' = q
           /\ at' # "search" => stage \in Lookups
           /\ UNCHANGED <<stage, wanted, kinds, found, candidates>> /\ Continues
  BY <1>2 DEF Discover, Rediscover, Go, Inv, Sourced
<1>4. q \in AnyQueue
  BY DEF Discovered, Inv, TypeOK
<1>5. CASE stage \in Lookups /\ NoItem
  BY <1>1, <1>5, NoItemInv
<1>6. CASE /\ at' \in {"search", "select", "reselect"} /\ queue' = q
           /\ at' # "search" => stage \in Lookups
           /\ UNCHANGED <<stage, wanted, kinds, found, candidates>> /\ Continues
  <2>1. /\ kinds' \in 0 .. 4 /\ candidates' \in 0 .. 2 /\ wanted' \in AnyQueue
        /\ found' \in Media \cup {None}
    BY <1>6 DEF Inv, TypeOK
  <2> QED
    BY <1>1, <1>2, <1>4, <1>6, <2>1, GoesOnInv
<1> QED
  BY <1>3, <1>5, <1>6

LEMMA SelectInv == Inv /\ Select => Inv'
<1> SUFFICES ASSUME Inv, Select PROVE Inv'
  OBVIOUS
<1>1. posted = {} /\ answer = None /\ at # "idle" /\ stage \in Lookups
  BY DEF Inv, Quiet, Unsettled, Sourced, Select
<1>2. CASE NoItem
  BY <1>1, <1>2, NoItemInv
<1>3. CASE /\ found' \in Media /\ Go("build", queue)
           /\ UNCHANGED <<stage, wanted, kinds, candidates>> /\ Continues
  <2>1. /\ at' = "build" /\ queue' \in AnyQueue /\ kinds' \in 0 .. 4
        /\ candidates' \in 0 .. 2 /\ wanted' \in AnyQueue
    BY <1>3 DEF Inv, TypeOK, Go
  <2> QED
    BY <1>1, <1>3, <2>1, GoesOnInv
<1> QED
  BY <1>2, <1>3 DEF Select

LEMMA QueueGoneInv == Inv /\ QueueGone => Inv'
<1> SUFFICES ASSUME Inv, QueueGone PROVE Inv'
  OBVIOUS
<1>1. posted = {} /\ answer = None /\ at # "idle" /\ stage \in Lookups
  BY DEF Inv, Quiet, Unsettled, Sourced, QueueGone
<1>2. \/ Raised("ma")
      \/ /\ at' \in {"rediscover", "discover"} /\ queue' \in AnyQueue
         /\ wanted' \in AnyQueue /\ stage' \in Lookups
         /\ UNCHANGED <<kinds, found, candidates>> /\ Continues
  BY <1>1 DEF QueueGone, Go, Inv, TypeOK
<1>3. CASE Raised("ma")
  BY <1>1, <1>3, RaisedInv
<1>4. CASE /\ at' \in {"rediscover", "discover"} /\ queue' \in AnyQueue
           /\ wanted' \in AnyQueue /\ stage' \in Lookups
           /\ UNCHANGED <<kinds, found, candidates>> /\ Continues
  <2>1. kinds' \in 0 .. 4 /\ candidates' \in 0 .. 2 /\ found' \in Media \cup {None}
    BY <1>4 DEF Inv, TypeOK
  <2> QED
    BY <1>1, <1>4, <2>1, GoesOnInv
<1> QED
  BY <1>2, <1>3, <1>4

LEMMA BuildInv == Inv /\ Build => Inv'
<1> SUFFICES ASSUME Inv, Build PROVE Inv'
  OBVIOUS
<1>1. posted = {} /\ found \in Media /\ queue \in AnyQueue
  BY DEF Inv, TypeOK, Quiet, Holding, Build
<1>2. DEFINE i == [real |-> TRUE, track |-> found.track]
<1>3. i \in Items /\ i.real
  BY <1>1 DEF Media, Items
<1>4. Answered(queue, i) /\ UNCHANGED <<ma, command>> /\ posted' = {}
  BY <1>1 DEF Build
<1> HIDE DEF i
<1> QED
  BY <1>1, <1>3, <1>4, AnsweredInv

LEMMA NowPlayingInv == Inv /\ NowPlaying => Inv'
<1> SUFFICES ASSUME Inv, NowPlaying PROVE Inv'
  OBVIOUS
<1>1. posted = {} /\ answer = None /\ at # "idle"
  BY DEF Inv, Quiet, Unsettled, NowPlaying
<1>2. CASE Raised("ma")
  BY <1>1, <1>2, RaisedInv
<1>3. CASE ~Raised("ma")
  <2>1. /\ at' \in {"discover", "search"} /\ queue' \in AnyQueue /\ kinds' = 4
        /\ UNCHANGED <<stage, wanted, found, candidates>> /\ Continues
    BY <1>3 DEF NowPlaying, Go, Inv, TypeOK
  <2>2. /\ candidates' \in 0 .. 2 /\ found' \in Media \cup {None} /\ wanted' \in AnyQueue
        /\ stage' \in Lookups \cup {"query", "nowPlaying"}
    BY <2>1 DEF Inv, TypeOK
  <2> QED
    BY <1>1, <2>1, <2>2, GoesOnInv
<1> QED
  BY <1>2, <1>3

LEMMA SearchInv == Inv /\ Search => Inv'
<1> SUFFICES ASSUME Inv, Search PROVE Inv'
  OBVIOUS
<1>1. posted = {} /\ answer = None /\ at = "search"
  BY DEF Inv, Quiet, Unsettled, Search
<1>2. /\ (at' = "search" /\ UNCHANGED found) \/ (at' = "enqueue" /\ found' \in Media)
      /\ UNCHANGED <<stage, wanted, queue, candidates>> /\ Continues
  BY <1>1 DEF Search
<1>3. kinds' \in 0 .. 4
  BY DEF Search, Inv, TypeOK
<1>4. /\ candidates' \in 0 .. 2 /\ queue' \in AnyQueue /\ wanted' \in AnyQueue
      /\ found' \in Media \cup {None}
      /\ stage' \in Lookups \cup {"query", "nowPlaying"}
  BY <1>2 DEF Inv, TypeOK
<1> QED
  BY <1>1, <1>2, <1>3, <1>4, GoesOnInv

LEMMA NoMatchInv == Inv /\ NoMatch => Inv'
<1> SUFFICES ASSUME Inv, NoMatch PROVE Inv'
  OBVIOUS
<1>1. posted = {} /\ answer = None /\ at = "search"
  BY DEF Inv, Quiet, Unsettled, NoMatch
<1>2. CASE Raised("ma")
  BY <1>1, <1>2, RaisedInv
<1>3. CASE ~Raised("ma")
  <2>1. /\ at' = "players" /\ queue' \in AnyQueue
        /\ UNCHANGED <<stage, wanted, kinds, found, candidates>> /\ Continues
    BY <1>3 DEF NoMatch, Go
  <2>2. /\ kinds' \in 0 .. 4 /\ candidates' \in 0 .. 2 /\ wanted' \in AnyQueue
        /\ found' \in Media \cup {None}
        /\ stage' \in Lookups \cup {"query", "nowPlaying"}
    BY <2>1 DEF Inv, TypeOK
  <2> QED
    BY <1>1, <2>1, <2>2, GoesOnInv
<1> QED
  BY <1>2, <1>3

LEMMA SyntheticType == found \in Media => /\ Synthetic \in Items
                                          /\ Synthetic.track = found.track
  BY DEF Media, Synthetic, Items

LEMMA EnqueueInv == Inv /\ Enqueue => Inv'
<1> SUFFICES ASSUME Inv, Enqueue PROVE Inv'
  OBVIOUS
<1>1. posted = {} /\ answer = None /\ found \in Media /\ at # "idle"
  BY DEF Inv, Quiet, Unsettled, Holding, Enqueue
<1>2. PICK target \in AnyQueue :
        IF target = NoQueue
        THEN Answered(target, Synthetic) /\ UNCHANGED <<ma, command, posted>>
        ELSE /\ Go("post", target) /\ candidates' = found.forms
             /\ UNCHANGED <<stage, wanted, kinds, found>> /\ Continues
  BY DEF Enqueue, Discovered, Inv, TypeOK
<1>3. CASE target = NoQueue
  BY <1>1, <1>2, <1>3, SyntheticType, AnsweredInv
<1>4. CASE target # NoQueue
  <2>1. /\ at' = "post" /\ queue' \in Queues /\ candidates' = found.forms
        /\ UNCHANGED <<stage, wanted, kinds, found>> /\ Continues
    BY <1>2, <1>4 DEF Go
  <2>2. candidates' \in 0 .. 2
    BY <1>1, <2>1 DEF Media
  <2>3. /\ kinds' \in 0 .. 4 /\ wanted' \in AnyQueue
        /\ stage' \in Lookups \cup {"query", "nowPlaying"}
    BY <2>1 DEF Inv, TypeOK
  <2> QED
    BY <1>1, <2>1, <2>2, <2>3, GoesOnInv
<1> QED
  BY <1>3, <1>4

\* Whatever a post adds is the found track in the effective queue.
LEMMA TakenFacts ==
  ASSUME Inv, at = "post"
  PROVE  /\ found \in Media /\ queue \in Queues /\ answer = None
         /\ \A p \in {posted, Taken} : /\ p \subseteq Queues \X Tracks
                                       /\ p \subseteq {<<queue, found.track>>}
<1>1. /\ found \in Media /\ queue \in Queues /\ answer = None
      /\ posted \subseteq {<<queue, found.track>>}
      /\ posted \subseteq Queues \X Tracks
  BY DEF Inv, TypeOK, Holding, Starting, Unsettled
<1>2. found.track \in Tracks
  BY <1>1 DEF Media
<1> QED
  BY <1>1, <1>2 DEF Taken

LEMMA PostAcceptedInv == Inv /\ PostAccepted => Inv'
<1> SUFFICES ASSUME Inv, PostAccepted PROVE Inv'
  OBVIOUS
<1>1. /\ found \in Media /\ queue \in Queues /\ answer = None
      /\ posted' \subseteq Queues \X Tracks /\ posted' \subseteq {<<queue, found.track>>}
  BY TakenFacts DEF PostAccepted
<1>2. /\ at' = "read"
      /\ UNCHANGED <<queue, stage, wanted, kinds, found, candidates>>
      /\ UNCHANGED <<ma, command, retried, answer, uriMapping>>
  BY DEF PostAccepted, Go
<1>3. TypeOK'
  BY <1>1, <1>2 DEF Inv, TypeOK, ma, command
<1> QED
  BY <1>1, <1>2, <1>3 DEF Inv, Sourced, Holding, Quiet, Starting, Unsettled, Concluded

LEMMA PostFailsInv == Inv /\ PostFails => Inv'
<1> SUFFICES ASSUME Inv, PostFails PROVE Inv'
  OBVIOUS
<1>1. /\ found \in Media /\ queue \in Queues /\ answer = None
      /\ posted' \subseteq Queues \X Tracks /\ posted' \subseteq {<<queue, found.track>>}
  BY TakenFacts DEF PostFails
<1>2. CASE candidates > 1
  <2>1. /\ at' = "post" /\ candidates' = candidates - 1
        /\ UNCHANGED <<queue, retried, wanted, stage, kinds, found, answer, uriMapping>>
        /\ UNCHANGED <<ma, command>>
    BY <1>2 DEF PostFails, NextCandidate, Go
  <2>2. candidates' \in 0 .. 2
    BY <1>2, <2>1 DEF Inv, TypeOK
  <2>3. TypeOK'
    BY <1>1, <2>1, <2>2 DEF Inv, TypeOK, ma, command
  <2> QED
    BY <1>1, <2>1, <2>3 DEF Inv, Sourced, Holding, Quiet, Starting, Unsettled, Concluded
<1>3. CASE ~(candidates > 1)
  <2>1. Answered(queue, Synthetic) /\ UNCHANGED <<ma, command>>
    BY <1>3 DEF PostFails, NotEnqueued
  <2> QED
    BY <1>1, <2>1, SyntheticType, AnsweredInv
<1> QED
  BY <1>2, <1>3

LEMMA ReadItemsInv == Inv /\ ReadItems => Inv'
<1> SUFFICES ASSUME Inv, ReadItems PROVE Inv'
  OBVIOUS
<1>1. /\ found \in Media /\ queue \in Queues /\ UNCHANGED <<ma, command, posted>>
      /\ posted' \subseteq Queues \X Tracks /\ posted' \subseteq {<<queue, found.track>>}
  BY DEF Inv, TypeOK, Holding, Starting, ReadItems
<1>2. CASE Answered(queue, Synthetic)
  BY <1>1, <1>2, SyntheticType, AnsweredInv
<1>3. CASE ~Answered(queue, Synthetic)
  <2>1. PICK t \in held[queue] : Answered(queue, [real |-> TRUE, track |-> t])
    BY <1>3 DEF ReadItems
  <2>2. t \in Tracks
    BY <1>1, <2>1 DEF Inv, TypeOK
  <2>3. DEFINE i == [real |-> TRUE, track |-> t]
  <2>4. i \in Items /\ i.real /\ Answered(queue, i)
    BY <2>1, <2>2 DEF Items
  <2> HIDE DEF i
  <2> QED
    BY <1>1, <2>4, AnsweredInv
<1> QED
  BY <1>2, <1>3

LEMMA StutterInv == Inv /\ UNCHANGED vars => Inv'
  BY DEF Inv, TypeOK, Sourced, Holding, Quiet, Starting, Unsettled, Concluded,
         vars, ma, command, progress

-----------------------------------------------------------------------------
LEMMA Invariance == Spec => []Inv
<1>1. Inv /\ [Next]_vars => Inv'
  <2> SUFFICES ASSUME Inv, [Next]_vars PROVE Inv'
    OBVIOUS
  <2>1. CASE \E q \in AnyQueue \cup {Numeric}, query \in BOOLEAN : Request(q, query)
    BY <2>1, RequestInv
  <2>2. CASE MAChanges
    BY <2>2, MAChangesInv
  <2>3. CASE Unanswered \/ CallBreaks
    BY <2>3, UnansweredInv
  <2>4. CASE Discover \/ Rediscover
    BY <2>4, DiscoverInv
  <2>5. CASE Select \/ QueueGone \/ Build
    BY <2>5, SelectInv, QueueGoneInv, BuildInv
  <2>6. CASE NowPlaying \/ Search \/ NoMatch
    BY <2>6, NowPlayingInv, SearchInv, NoMatchInv
  <2>7. CASE Enqueue \/ PostAccepted \/ PostFails \/ ReadItems
    BY <2>7, EnqueueInv, PostAcceptedInv, PostFailsInv, ReadItemsInv
  <2>8. CASE UNCHANGED vars
    BY <2>8, StutterInv
  <2> QED
    BY <2>1, <2>2, <2>3, <2>4, <2>5, <2>6, <2>7, <2>8 DEF Next
<1> QED
  BY <1>1, InitInv, PTL DEF Spec

\* The state of prepare_play is well-formed: no numeric queue id gets past
\* sanitizing, in either try and at any await.
THEOREM TypeCorrect == Spec => []TypeOK
<1>1. Inv => TypeOK
  BY DEF Inv
<1> QED
  BY <1>1, Invariance, PTL

\* A command answered with an error has started nothing (the except clauses of
\* command_dispatch.py and of resolve_play_request).
THEOREM ErrorsAreClean == Spec => []ErrorsStartNothing
<1>1. Inv => ErrorsStartNothing
  BY Outcomes DEF Inv, Concluded, Unsettled, ErrorsStartNothing
<1> QED
  BY <1>1, Invariance, PTL

\* What a command may have started is one track in one queue, the answered one
\* (_try_enqueue_search_result over all its forms of the item).
THEOREM OneStart == Spec => []StartedAsAnswered
<1>1. Inv => StartedAsAnswered
  <2> SUFFICES ASSUME Inv PROVE StartedAsAnswered
    OBVIOUS
  <2>1. \E x : posted \subseteq {x}
    BY DEF Inv, TypeOK, Quiet, Starting, Concluded
  <2>2. Cardinality(posted) <= 1
    <3>1. PICK x : posted \subseteq {x}
      BY <2>1
    <3>2. IsFiniteSet({x}) /\ Cardinality({x}) = 1
      BY FS_Singleton
    <3> QED
      BY <3>1, <3>2, FS_Subset
  <2>3. ASSUME NEW p \in posted, answer \notin {None, Failure}
        PROVE  /\ answer.queue = p[1]
               /\ ~answer.item.real => answer.item.track = p[2]
    <3>1. at = "idle"
      BY <2>3 DEF Inv, Unsettled
    <3>2. PICK t \in Tracks : /\ posted \subseteq {<<answer.queue, t>>}
                              /\ answer.item.real \/ answer.item.track = t
      BY <2>3, <3>1 DEF Inv, Concluded
    <3>3. p = <<answer.queue, t>>
      BY <2>3, <3>2
    <3> QED
      BY <3>2, <3>3
  <2> QED
    BY <2>2, <2>3 DEF StartedAsAnswered
<1> QED
  BY <1>1, Invariance, PTL

-----------------------------------------------------------------------------
(* The stream route *)

Ended == {"idle", "audio"}

\* A request under way goes by a queue id it came with.
AskedFor == \A r \in Requests : pc[r] \notin Ended => key[r] \in Keys

\* Only the queue of the item has a session id cached, whatever ids were asked for.
OneQueueCached ==
    \A q \in QueueIds : sessionCache[q] # Nil => q = ItemQueue

StreamInv == StreamTypeOK /\ AskedFor /\ OneQueueCached

LEMMA StreamInitInv ==
  ASSUME StreamInit
  PROVE  StreamInv
<1>1. published \in BOOLEAN /\ ready \in BOOLEAN
  BY DEF StreamInit
<1>2. 0 \in 0 .. MaxSessions /\ 0 \in 0 .. MaxRestarts /\ 0 \in 0 .. Retries
  BY BoundsAreNat
<1> QED
  BY <1>1, <1>2 DEF StreamInit, StreamInv, StreamTypeOK, AskedFor, Ended, OneQueueCached,
                    Urls, PCs

\* The session that _build_ma_stream_url comes up with is a URL's.
LEMMA ChosenType ==
  ASSUME StreamInv, NEW r \in Requests
  PROVE  Chosen(r) \in Urls
  BY BoundsAreNat DEF StreamInv, StreamTypeOK, Urls, Chosen

\* Neither Nil nor Elsewhere is a session.
LEMMA UrlsAreNotNil == Nil \notin Urls
  BY NilIsNoKey, ElsewhereIsNoSession, BoundsAreNat DEF Urls

\* A request that is answered holds nothing.
LEMMA AnswerInv ==
  ASSUME StreamInv, NEW r \in Requests, NEW l \in Ended, Answer(r, l),
         UNCHANGED <<maVars, restarts>>,
         streamCache' \in [Keys -> Urls \cup {Nil}],
         sessionCache' \in [QueueIds -> (0 .. MaxSessions) \cup {Nil}], OneQueueCached'
  PROVE  StreamInv'
  BY BoundsAreNat
  DEF StreamInv, StreamTypeOK, AskedFor, Answer, Goto, Ended, PCs, maVars

\* A session id read from the players goes to the item's queue.
LEMMA CacheSessionInv ==
  ASSUME StreamInv, NEW r \in Requests, CacheSession(r)
  PROVE  sessionCache' \in [QueueIds -> (0 .. MaxSessions) \cup {Nil}] /\ OneQueueCached'
<1>1. \A q \in QueueIds \ {ItemQueue} : sessionCache'[q] = sessionCache[q]
  BY DEF StreamInv, StreamTypeOK, CacheSession
<1>2. sessionCache' \in [QueueIds -> (0 .. MaxSessions) \cup {Nil}]
  BY DEF StreamInv, StreamTypeOK, CacheSession
<1> QED
  BY <1>1, <1>2 DEF StreamInv, OneQueueCached

LEMMA LookUpType ==
  ASSUME StreamInv, NEW r \in Requests, NEW k \in Keys, LookUp(r, k)
  PROVE  /\ url' \in [Requests -> Urls \cup {Nil}] /\ pc' \in [Requests -> PCs]
         /\ \A s \in Requests : s # r => pc'[s] = pc[s] /\ url'[s] = url[s]
         /\ pc'[r] \in {"fetch", "resolve"} /\ (pc'[r] = "fetch" => url'[r] # Nil)
  BY DEF LookUp, Goto, StreamInv, StreamTypeOK, PCs

\* A step of one request's handler.
LEMMA HandleInv ==
  ASSUME StreamInv, NEW r \in Requests, Handle(r)
  PROVE  StreamInv'
<1>0. OneQueueCached /\ StreamTypeOK
  BY DEF StreamInv
<1>1. CASE LookupRaises(r)
  <2>1. CASE Answer(r, "idle")
    BY <1>0, <1>1, <2>1, AnswerInv
    DEF LookupRaises, caches, StreamTypeOK, OneQueueCached, Ended
  <2> QED
    BY <1>1, <2>1
    DEF LookupRaises, StreamInv, StreamTypeOK, AskedFor, OneQueueCached, Ended, Goto, PCs,
        maVars, caches
<1>2. CASE DiscoverItemQueue(r)
  BY <1>2
  DEF DiscoverItemQueue, StreamInv, StreamTypeOK, AskedFor, OneQueueCached, Ended, Goto, PCs,
      maVars, caches, Urls, QueueIds
<1>3. CASE DiscoverAnother(r)
  BY <1>3
  DEF DiscoverAnother, StreamInv, StreamTypeOK, AskedFor, OneQueueCached, Ended, Goto, PCs,
      maVars, caches, Urls
<1>4. CASE PlayersAnswer(r)
  BY <1>4
  DEF PlayersAnswer, StreamInv, StreamTypeOK, AskedFor, OneQueueCached, Ended, Goto, PCs,
      maVars, caches
<1>5. CASE PlayersFail(r)
  <2>1. 0 \in Urls
    BY BoundsAreNat DEF Urls
  <2> QED
    BY <1>5, <2>1
    DEF PlayersFail, StreamInv, StreamTypeOK, AskedFor, OneQueueCached, Ended, Goto, PCs,
        maVars, caches
<1>6. CASE Resolved(r)
  <2>1. key[r] \in Keys /\ Chosen(r) \in Urls /\ Chosen(r) # Nil
    BY <1>6, ChosenType, UrlsAreNotNil DEF StreamInv, AskedFor, Ended, Resolved
  <2>2. streamCache' \in [Keys -> Urls \cup {Nil}]
    BY <1>0, <1>6, <2>1 DEF Resolved, StreamTypeOK
  <2>3. sessionCache' \in [QueueIds -> (0 .. MaxSessions) \cup {Nil}] /\ OneQueueCached'
    BY <1>6, CacheSessionInv DEF Resolved
  <2> QED
    BY <1>6, <2>1, <2>2, <2>3
    DEF Resolved, StreamInv, StreamTypeOK, AskedFor, Ended, Goto, PCs, maVars
<1>7. CASE CommandResolved(r)
  BY <1>0, <1>7, CacheSessionInv, AnswerInv DEF CommandResolved, StreamTypeOK, Ended
<1>8. CASE FetchServed(r)
  <2>1. key[r] \in Keys /\ url[r] \in Urls \cup {Nil}
    BY <1>0, <1>8 DEF StreamInv, AskedFor, Ended, FetchServed, StreamTypeOK
  <2>2. streamCache' \in [Keys -> Urls \cup {Nil}] /\ sessionCache' = sessionCache
    BY <1>0, <1>8, <2>1 DEF FetchServed, StreamTypeOK
  <2> QED
    BY <1>0, <1>8, <2>2, AnswerInv DEF FetchServed, StreamTypeOK, OneQueueCached, Ended
<1>9. CASE FetchKept(r)
  BY <1>9
  DEF FetchKept, StreamInv, StreamTypeOK, AskedFor, OneQueueCached, Ended, Goto, PCs,
      maVars, caches
<1>10. CASE FetchFails(r)
  <2>1. key[r] \in Keys /\ key[r] \in QueueIds
    BY <1>10 DEF StreamInv, AskedFor, Ended, FetchFails, QueueIds
  <2> QED
    BY <1>10, <2>1
    DEF FetchFails, Dropped, Invalidated, StreamInv, StreamTypeOK, AskedFor, OneQueueCached,
        Ended, Goto, PCs, maVars
<1>11. CASE RetryFails(r)
  BY <1>11
  DEF RetryFails, StreamInv, StreamTypeOK, AskedFor, OneQueueCached, Ended, Goto, PCs,
      maVars, caches
<1>12. CASE Retry(r)
  <2>1. key[r] \in Keys
    BY <1>12 DEF StreamInv, AskedFor, Ended, Retry
  <2>2. retries' \in [Requests -> 0 .. Retries]
    BY <1>0, <1>12, BoundsAreNat DEF Retry, NextAttempt, StreamTypeOK
  <2> QED
    BY <1>12, <2>1, <2>2, LookUpType
    DEF Retry, StreamInv, StreamTypeOK, AskedFor, OneQueueCached, Ended, maVars, caches
<1>13. CASE GiveUp(r)
  <2>1. CASE Answer(r, "idle")
    BY <1>0, <1>13, <2>1, AnswerInv DEF GiveUp, caches, StreamTypeOK, OneQueueCached, Ended
  <2> QED
    BY <1>13, <2>1
    DEF GiveUp, StreamInv, StreamTypeOK, AskedFor, OneQueueCached, Ended, Goto, PCs, maVars,
        caches
<1>14. CASE Transcode(r)
  BY <1>0, <1>14, AnswerInv DEF Transcode, caches, StreamTypeOK, OneQueueCached, Ended
<1> QED
  BY <1>1, <1>2, <1>3, <1>4, <1>5, <1>6, <1>7, <1>8, <1>9, <1>10, <1>11, <1>12, <1>13, <1>14
  DEF Handle

\* Every step: a handler's, a new request, Music Assistant, time, a restart.
LEMMA StreamStep ==
  ASSUME StreamInv, [StreamNext]_streamVars
  PROVE  StreamInv'
<1>1. ASSUME NEW r \in Requests, Handle(r)
      PROVE  StreamInv'
  BY <1>1, HandleInv
<1>2. ASSUME NEW r \in Requests, NEW k \in Keys, Begin(r, k)
      PROVE  StreamInv'
  BY <1>2, LookUpType
  DEF Begin, StreamInv, StreamTypeOK, AskedFor, OneQueueCached, Ended, maVars, caches
<1>3. CASE MusicAssistant
  <2>1. session' \in 0 .. MaxSessions /\ lastSession' \in 0 .. MaxSessions
    BY BoundsAreNat, <1>3
    DEF StreamInv, StreamTypeOK, MusicAssistant, MAPlays, MAResolves, MARestarts, MAWavers
  <2>2. UNCHANGED <<caches, reqVars, restarts>>
    BY <1>3 DEF MusicAssistant, MAPlays, MAResolves, MARestarts, MAWavers
  <2>3. published' \in BOOLEAN /\ ready' \in BOOLEAN
    BY <1>3, Zenon
    DEF StreamInv, StreamTypeOK, MusicAssistant, MAPlays, MAResolves, MARestarts, MAWavers
  <2>4. finds' \in {"queue", "another", "error"}
    BY <1>3
    DEF StreamInv, StreamTypeOK, MusicAssistant, MAPlays, MAResolves, MARestarts, MAWavers
  <2> QED
    BY <2>1, <2>2, <2>3, <2>4
    DEF StreamInv, StreamTypeOK, AskedFor, OneQueueCached, caches, reqVars
<1>4. CASE EntryExpires
  BY <1>4
  DEF StreamInv, StreamTypeOK, AskedFor, OneQueueCached, EntryExpires, maVars, reqVars
<1>5. CASE AddonRestarts
  BY BoundsAreNat, <1>5
  DEF StreamInv, StreamTypeOK, AskedFor, OneQueueCached, AddonRestarts, Ended, PCs, maVars
<1>6. CASE UNCHANGED streamVars
  BY <1>6
  DEF StreamInv, StreamTypeOK, AskedFor, OneQueueCached, streamVars, maVars, caches, reqVars
<1> QED
  BY <1>1, <1>2, <1>3, <1>4, <1>5, <1>6 DEF StreamNext

LEMMA StreamInvariance == StreamSpec => []StreamInv
  BY StreamInitInv, StreamStep, PTL DEF StreamSpec

\* Types of the stream route's requests and caches: a fetch has a URL, a
\* transcode one that was kept (edge_stream).
THEOREM StreamTypeCorrect == StreamSpec => []StreamTypeOK
<1>1. StreamInv => StreamTypeOK
  BY DEF StreamInv
<1> QED
  BY <1>1, StreamInvariance, PTL

\* A request with the id of the item's own queue, all of whose candidate URLs
\* fail, leaves no session id cached under any id, so that its retries ask Music
\* Assistant (invalidate_session_cache at the end of edge_stream's first round);
\* requests with other ids, whose failures this is false of, may be around it.
RefusalsForget ==
    [][\A r \in Requests :
          FetchFails(r) /\ key[r] = ItemQueue
              => \A q \in QueueIds : sessionCache'[q] = Nil]_streamVars

THEOREM RefusalsForgetAll == StreamSpec => RefusalsForget
<1>1. ASSUME StreamInv, NEW r \in Requests, FetchFails(r), key[r] = ItemQueue
      PROVE  \A q \in QueueIds : sessionCache'[q] = Nil
  <2>1. sessionCache' = [sessionCache EXCEPT ![ItemQueue] = Nil]
    BY <1>1 DEF FetchFails, Invalidated
  <2> QED
    BY <1>1, <2>1 DEF StreamInv, StreamTypeOK, OneQueueCached
<1>2. ASSUME StreamInv, [StreamNext]_streamVars
      PROVE  [\A r \in Requests :
                 FetchFails(r) /\ key[r] = ItemQueue
                     => \A q \in QueueIds : sessionCache'[q] = Nil]_streamVars
  BY <1>1, <1>2
<1> QED
  BY <1>2, StreamInvariance, PTL DEF StreamSpec, RefusalsForget

-----------------------------------------------------------------------------
(* The backoff loop is bounded *)

\* How far a place of edge_stream is from the end of an attempt.
Distance(l) ==
    CASE l = "resolve"   -> 6
      [] l = "players"   -> 5
      [] l = "answered"  -> 4
      [] l = "fetch"     -> 3
      [] l = "waiting"   -> 2
      [] l = "transcode" -> 1
      [] l \in Ended     -> 0

\* The steps a request can at most still take.
StepsLeft(r) ==
    IF pc[r] \in Ended THEN 0 ELSE Distance(pc[r]) + 6 * (Retries - retries[r])

\* Every step of a request's handler brings its end nearer, whatever the caches
\* hold by then, and nothing but a new request takes it back: what is left of
\* EveryRequestEnds without fairness.  The loop over _RETRY_DELAYS is its cause.
StepsAreCounted ==
    [][\A r \in Requests :
          /\ Handle(r) => StepsLeft(r)' < StepsLeft(r)
          /\ StepsLeft(r)' > StepsLeft(r) => \E k \in Keys : Begin(r, k)]_streamVars

StepsAreBounded == \A r \in Requests : StepsLeft(r) \in 0 .. 6 * (Retries + 1)

LEMMA StepsBounded ==
  ASSUME StreamInv
  PROVE  StepsAreBounded
<1> SUFFICES ASSUME NEW r \in Requests
             PROVE  StepsLeft(r) \in 0 .. 6 * (Retries + 1)
  BY DEF StepsAreBounded
<1>1. Retries \in Nat /\ retries[r] \in 0 .. Retries
  BY BoundsAreNat DEF StreamInv, StreamTypeOK
<1>2. Distance(pc[r]) \in 0 .. 6
  BY DEF StreamInv, StreamTypeOK, PCs, Distance, Ended
<1>3. Retries - retries[r] \in 0 .. Retries
  BY <1>1
<1> QED
  BY <1>1, <1>2, <1>3 DEF StepsLeft

\* The last step, one within an attempt, and one to the next attempt.
LEMMA Nearer ==
  ASSUME StreamInv, NEW r \in Requests, pc[r] \notin Ended,
         pc'[r] \in PCs,
         \/ pc'[r] \in Ended
         \/ retries'[r] = retries[r] /\ Distance(pc'[r]) < Distance(pc[r])
         \/ pc[r] = "waiting" /\ retries[r] < Retries /\ retries'[r] = retries[r] + 1
  PROVE  StepsLeft(r)' < StepsLeft(r)
<1>1. Retries \in Nat /\ retries[r] \in 0 .. Retries
  BY BoundsAreNat DEF StreamInv, StreamTypeOK
<1>2. /\ Distance(pc[r]) \in 1 .. 6 /\ Distance(pc'[r]) \in 0 .. 6
      /\ pc[r] = "waiting" => Distance(pc[r]) = 2
  BY DEF StreamInv, StreamTypeOK, PCs, Distance, Ended
<1>3. /\ StepsLeft(r) = Distance(pc[r]) + 6 * (Retries - retries[r])
      /\ StepsLeft(r)' = IF pc'[r] \in Ended THEN 0
                         ELSE Distance(pc'[r]) + 6 * (Retries - retries'[r])
  BY DEF StepsLeft
<1> QED
  BY <1>1, <1>2, <1>3

LEMMA HandleCounts ==
  ASSUME StreamInv, NEW r \in Requests, Handle(r)
  PROVE  /\ StepsLeft(r)' < StepsLeft(r)
         /\ \A s \in Requests \ {r} : StepsLeft(s)' = StepsLeft(s)
<1> USE DEF StreamInv, StreamTypeOK, Goto, LookUp, Answer, Ended
<1>1. \A s \in Requests \ {r} : pc'[s] = pc[s] /\ retries'[s] = retries[s]
  BY DEF Handle, LookupRaises, DiscoverItemQueue, DiscoverAnother, PlayersAnswer, PlayersFail,
         Resolved, CommandResolved, FetchServed, FetchKept, FetchFails, RetryFails, Retry,
         GiveUp, Transcode
<1>2. pc[r] \notin Ended /\ pc'[r] \in PCs
  BY DEF Handle, LookupRaises, DiscoverItemQueue, DiscoverAnother, PlayersAnswer, PlayersFail,
         Resolved, CommandResolved, FetchServed, FetchKept, FetchFails, RetryFails, Retry,
         GiveUp, Transcode, PCs
<1>3. \/ pc'[r] \in Ended
      \/ retries'[r] = retries[r] /\ Distance(pc'[r]) < Distance(pc[r])
      \/ pc[r] = "waiting" /\ retries[r] < Retries /\ retries'[r] = retries[r] + 1
  <2>1. CASE LookupRaises(r) \/ DiscoverItemQueue(r) \/ DiscoverAnother(r)
    BY <2>1 DEF LookupRaises, DiscoverItemQueue, DiscoverAnother, Distance
  <2>2. CASE PlayersAnswer(r) \/ PlayersFail(r) \/ Resolved(r) \/ CommandResolved(r)
    BY <2>2 DEF PlayersAnswer, PlayersFail, Resolved, CommandResolved, Distance
  <2>3. CASE FetchServed(r) \/ FetchKept(r) \/ FetchFails(r) \/ RetryFails(r)
    BY <2>3 DEF FetchServed, FetchKept, FetchFails, RetryFails, Distance
  <2>4. CASE Retry(r)
    BY <2>4 DEF Retry, NextAttempt
  <2>5. CASE GiveUp(r) \/ Transcode(r)
    BY <2>5 DEF GiveUp, Transcode, Distance
  <2> QED
    BY <2>1, <2>2, <2>3, <2>4, <2>5 DEF Handle
<1>4. StepsLeft(r)' < StepsLeft(r)
  BY <1>2, <1>3, Nearer
<1> QED
  BY <1>1, <1>4 DEF StepsLeft

\* At most 6 steps for each attempt of edge_stream, counted down by each step of
\* its handler, with any requests around it that fill the caches anew.
THEOREM RequestsAreBounded == StreamSpec => []StepsAreBounded /\ StepsAreCounted
<1>1. StreamInv => StepsAreBounded
  BY StepsBounded
<1>2. StreamInv' => StepsAreBounded'
  BY <1>1, PTL
<1>3. ASSUME StreamInv, [StreamNext]_streamVars
      PROVE  [\A r \in Requests :
                 /\ Handle(r) => StepsLeft(r)' < StepsLeft(r)
                 /\ StepsLeft(r)' > StepsLeft(r)
                        => \E k \in Keys : Begin(r, k)]_streamVars
  <2> SUFFICES ASSUME StreamNext, NEW r \in Requests
               PROVE  /\ Handle(r) => StepsLeft(r)' < StepsLeft(r)
                      /\ StepsLeft(r)' > StepsLeft(r)
                             => \E k \in Keys : Begin(r, k)
    BY <1>3
  <2>1. Handle(r) => StepsLeft(r)' < StepsLeft(r)
    BY <1>3, HandleCounts
  <2>2. StepsLeft(r) \in Nat /\ StepsLeft(r)' \in Nat
    <3>1. StreamInv'
      BY <1>3, StreamStep
    <3> QED
      BY BoundsAreNat, <1>1, <1>2, <1>3, <3>1 DEF StepsAreBounded
  <2>3. ASSUME NEW s \in Requests, Handle(s)
        PROVE  StepsLeft(r)' <= StepsLeft(r)
    BY <1>3, <2>2, <2>3, HandleCounts
  <2>4. ASSUME NEW s \in Requests, NEW k \in Keys, Begin(s, k), s # r
        PROVE  StepsLeft(r)' = StepsLeft(r)
    BY <1>3, <2>4 DEF Begin, LookUp, Goto, StepsLeft, StreamInv, StreamTypeOK
  <2>5. CASE MusicAssistant \/ EntryExpires
    BY <2>1, <2>2, <2>5 DEF MusicAssistant, MAPlays, MAResolves,
                MARestarts, MAWavers,
                EntryExpires, reqVars, StepsLeft
  <2>6. CASE AddonRestarts
    BY <2>1, <2>2, <2>6 DEF AddonRestarts, StepsLeft, Ended
  <2> QED
    BY <2>1, <2>2, <2>3, <2>4, <2>5, <2>6 DEF StreamNext
<1> QED
  BY <1>1, <1>3, StreamInvariance, PTL DEF StreamSpec, StepsAreCounted

=============================================================================
