------------------------- MODULE SkillSessionProofs -------------------------
(***************************************************************************)
(* What is proved of SkillSession for any requests, queues and lengths of  *)
(* queues, and any bounds on events on their way and on restarts.          *)
(***************************************************************************)
EXTENDS SkillSession, SequenceTheorems, TLAPS

-----------------------------------------------------------------------------
(* The inductive invariant *)

LookupRecords == [from : Queues, ask : Asks]

\* What a handler holds at each of its awaits, and an answer on its way.
Coherent(r) ==
    /\ Looks(r) => req[r].lookups # <<>>
    /\ (req[r].pc = "post" /\ req[r].kind \in Skips) => req[r].lookups # <<>>
    /\ req[r].pc \in {"forward", "found"} => req[r].found \in Tracks
    /\ req[r].directive \in {"play", "enqueue"} => req[r].found \in Tracks

\* The lookups of a next, one by one.
NextThenCurrent(q) == <<[from |-> q, ask |-> "next"], [from |-> q, ask |-> "current"]>>
OnlyCurrent(q) == <<[from |-> q, ask |-> "current"]>>

\* A next found its queue at its end, or empty.
AtAnEnd(r) == req[r].places \cap {0, QueueLength} # {}

MovedOn(r) ==
    \/ req[r].found.item - 1 \in req[r].places
    \/ req[r].found.item \in req[r].places /\ AtAnEnd(r)

\* A next still has both lookups to try, or found nothing after the current item.
NextInv(r) ==
    req[r].kind \in Nexts =>
      LET q == req[r].queue IN
      /\ req[r].pc \in {"post", "lookup", "discover", "lastLookup", "found"}
      /\ req[r].directive = "none"
      /\ req[r].pc = "post" => q # None /\ req[r].lookups = NextThenCurrent(q)
      /\ req[r].pc = "lookup" =>
            /\ q # None
            /\ \/ req[r].lookups = NextThenCurrent(q)
               \/ req[r].lookups = OnlyCurrent(q) /\ AtAnEnd(r)
      /\ (req[r].pc = "discover" /\ q # None) => AtAnEnd(r)
      /\ req[r].pc = "lastLookup" =>
            \E p \in Queues : req[r].lookups = OnlyCurrent(p) /\ (p = q => AtAnEnd(r))
      /\ (req[r].pc = "found" /\ req[r].found.queue = q) => MovedOn(r)

\* An answer with one of these directives is on its way.
Coming(directives) ==
    \E r \in Requests : req[r].pc = "answering" /\ req[r].directive \in directives

StopDirectives == {"stop", "stopClear"}

Starts(es, i) == es[i].kind = "started"

LastStart(es, i) == Starts(es, i) /\ \A j \in i+1..Len(es) : ~Starts(es, j)

\* The events on their way end where the device is by now; when none of them is
\* a start, and no play on its way was recorded ahead, the session has its track;
\* when there is none at all, the session is ahead of the device or agrees.
Follows ==
    ~strayed =>
      /\ events # <<>> => (device.plays <=> Starts(events, Len(events)))
      /\ \A i \in 1..Len(events) : LastStart(events, i) => events[i].track = device.track
      /\ (~Coming({"play"}) /\ \A i \in 1..Len(events) : ~Starts(events, i))
            => session.current = device.track
      /\ (~Coming({"play"}) /\ events = <<>> /\ session.state = "PLAYING") => device.plays
      /\ (~Coming(StopDirectives) /\ events = <<>> /\ device.plays)
            => session.state = "PLAYING"

IInv ==
    /\ TypeOK
    /\ \A r \in Requests : Coherent(r) /\ NextInv(r)
    /\ device.plays => device.track # None
    /\ Follows

-----------------------------------------------------------------------------
(* Lookups *)

LEMMA AskOfFacts ==
  ASSUME NEW q \in Queues \cup {None}, NEW ask \in Asks
  PROVE  /\ AskOf(q, ask) \in Seq(LookupRecords)
         /\ q = None => AskOf(q, ask) = <<>>
         /\ q # None => AskOf(q, ask) = <<[from |-> q, ask |-> ask]>>
<1>1. CASE q = None
  BY <1>1 DEF AskOf
<1>2. CASE q # None
  <2>1. [from |-> q, ask |-> ask] \in LookupRecords
    BY <1>2 DEF LookupRecords
  <2> QED
    BY <1>2, <2>1 DEF AskOf
<1> QED
  BY <1>1, <1>2

LEMMA LookupsAreTyped ==
  ASSUME NEW k \in Kinds, NEW q \in Queues \cup {None}, NEW c \in Tracks \cup {None}
  PROVE  LookupsFor(k, q, c) \in Seq(LookupRecords)
<1>1. AskOf(q, "next") \in Seq(LookupRecords) /\ AskOf(q, "current") \in Seq(LookupRecords)
  BY AskOfFacts DEF Asks
<1>2. c # None => AskOf(c.queue, "current") \in Seq(LookupRecords)
  <2> SUFFICES ASSUME c # None PROVE AskOf(c.queue, "current") \in Seq(LookupRecords)
    OBVIOUS
  <2>1. c.queue \in Queues
    BY DEF Tracks
  <2> QED
    BY <2>1, AskOfFacts DEF Asks
<1>3. <<>> \in Seq(LookupRecords)
  OBVIOUS
<1>4. CASE k \in Nexts
  BY <1>1, <1>4 DEF LookupsFor, Nexts, Stops, Pauses
<1>5. CASE k = "resume" /\ c # None
  BY <1>1, <1>2, <1>5 DEF LookupsFor, Nexts
<1>6. CASE k = "nearly"
  BY <1>1, <1>6 DEF LookupsFor, Nexts
<1>7. CASE k \in Stops \cup {"search"}
  BY <1>3, <1>7 DEF LookupsFor, Nexts, Stops, Pauses
<1>8. CASE /\ k \notin Nexts /\ ~(k = "resume" /\ c # None) /\ k # "nearly"
           /\ k \notin Stops \cup {"search"}
  BY <1>1, <1>8 DEF LookupsFor
<1> QED
  BY <1>4, <1>5, <1>6, <1>7, <1>8

LEMMA PairOfSequences ==
  ASSUME NEW a, NEW b
  PROVE  <<a>> \o <<b>> = <<a, b>>
<1>1. <<a>> \in Seq({a, b}) /\ <<b>> \in Seq({a, b})
  OBVIOUS
<1>2. /\ <<a>> \o <<b>> \in Seq({a, b}) /\ <<a, b>> \in Seq({a, b})
      /\ Len(<<a>> \o <<b>>) = Len(<<a, b>>)
      /\ \A i \in 1..Len(<<a>> \o <<b>>) : (<<a>> \o <<b>>)[i] = <<a, b>>[i]
  BY <1>1, ConcatProperties
<1> QED
  BY <1>2, SeqEqual

LEMMA LookupsOfASkip ==
  ASSUME NEW k \in Skips, NEW q \in Queues, NEW c \in Tracks \cup {None}
  PROVE  /\ LookupsFor(k, q, c) # <<>>
         /\ k \in Nexts => LookupsFor(k, q, c) = NextThenCurrent(q)
<1>1. /\ AskOf(q, "next") = <<[from |-> q, ask |-> "next"]>>
      /\ AskOf(q, "current") = <<[from |-> q, ask |-> "current"]>>
  BY AskOfFacts, NoneIsNoQueue DEF Asks
<1>2. CASE k \in Nexts
  <2>1. LookupsFor(k, q, c) = AskOf(q, "next") \o AskOf(q, "current")
    BY <1>2 DEF LookupsFor, Nexts, Stops, Pauses
  <2>2. LookupsFor(k, q, c) = NextThenCurrent(q)
    BY <1>1, <2>1, PairOfSequences DEF NextThenCurrent
  <2> QED
    BY <2>2 DEF NextThenCurrent
<1>3. CASE k \notin Nexts
  <2>1. LookupsFor(k, q, c) = AskOf(q, "current")
    BY <1>3 DEF LookupsFor, Skips, Nexts, Stops, Pauses
  <2> QED
    BY <1>1, <1>3, <2>1
<1> QED
  BY <1>2, <1>3

LEMMA ItemOfFacts ==
  ASSUME NEW q \in Queues, NEW ask \in Asks, NEW place \in 0..QueueLength
  PROVE  /\ ItemOf(q, ask, place) \in Tracks \cup {None}
         /\ ItemOf(q, ask, place) # None =>
               /\ ItemOf(q, ask, place).queue = q
               /\ ItemOf(q, ask, place).item = IF ask = "next" THEN place + 1 ELSE place
         /\ ItemOf(q, ask, place) = None =>
               place = 0 \/ (ask = "next" /\ place = QueueLength)
<1>1. CASE place = 0 \/ (ask = "next" /\ place = QueueLength)
  BY <1>1 DEF ItemOf
<1>2. CASE ~(place = 0 \/ (ask = "next" /\ place = QueueLength))
  <2>1. (IF ask = "next" THEN place + 1 ELSE place) \in 1..QueueLength
    BY <1>2, QueueLengthIsPositive
  <2>2. ItemOf(q, ask, place) =
          [queue |-> q, item |-> IF ask = "next" THEN place + 1 ELSE place]
    BY <1>2 DEF ItemOf
  <2>3. ItemOf(q, ask, place) \in Tracks
    BY <2>1, <2>2 DEF Tracks
  <2> QED
    BY <2>2, <2>3, NoneIsNoTrack
<1> QED
  BY <1>1, <1>2

-----------------------------------------------------------------------------
(* Steps of one request *)

\* What a step changed only the request r, which is as it should be.
OneRequest(r) ==
    /\ req' \in [Requests -> RequestRecords]
    /\ \A o \in Requests : o # r => req'[o] = req[o]
    /\ Coherent(r)' /\ NextInv(r)'

LEMMA OneRequestIsEnough ==
  ASSUME IInv, NEW r \in Requests, OneRequest(r)
  PROVE  \A o \in Requests : Coherent(o)' /\ NextInv(o)'
<1> SUFFICES ASSUME NEW o \in Requests, o # r PROVE Coherent(o)' /\ NextInv(o)'
  BY DEF OneRequest
<1>1. Coherent(o) /\ NextInv(o) /\ req'[o] = req[o]
  BY DEF IInv, OneRequest
<1> QED
  BY <1>1 DEF Coherent, NextInv, MovedOn, AtAnEnd, Looks

\* What replaces a request's record.
LEMMA Replaced ==
  ASSUME TypeOK, NEW r \in Requests, NEW rec \in RequestRecords,
         req' = [req EXCEPT ![r] = rec]
  PROVE  /\ req' \in [Requests -> RequestRecords]
         /\ req'[r] = rec
         /\ \A o \in Requests : o # r => req'[o] = req[o]
  BY DEF TypeOK

LEMMA RequestFacts ==
  ASSUME TypeOK, NEW r \in Requests
  PROVE  /\ req[r] \in RequestRecords
         /\ req[r].pc \in PCs /\ req[r].kind \in Kinds \cup {"none"}
         /\ req[r].queue \in Queues \cup {None}
         /\ req[r].lookups \in Seq([from : Queues, ask : Asks])
         /\ req[r].found \in Tracks \cup {None} /\ req[r].token \in Tracks \cup {None}
         /\ req[r].places \in SUBSET (0..QueueLength)
         /\ req[r].directive \in Directives \cup {"none"}
<1>1. req[r] \in RequestRecords
  BY DEF TypeOK
<1> QED
  BY <1>1 DEF RequestRecords

LEMMA FreshFacts ==
  /\ Fresh \in RequestRecords /\ [Fresh EXCEPT !.pc = "done"] \in RequestRecords
  /\ [Fresh EXCEPT !.pc = "done"].pc = "done"
  /\ [Fresh EXCEPT !.pc = "done"].kind = "none"
  /\ [Fresh EXCEPT !.pc = "done"].directive = "none"
<1>1. <<>> \in Seq([from : Queues, ask : Asks]) /\ {} \in SUBSET (0..QueueLength)
  OBVIOUS
<1>2. Fresh \in RequestRecords
  BY <1>1 DEF Fresh, RequestRecords, PCs
<1> QED
  BY <1>2 DEF Fresh, RequestRecords, PCs

LEMMA RespondFacts ==
  ASSUME TypeOK, NEW r \in Requests, Respond(r)
  PROVE  OneRequest(r) /\ req'[r].pc = "done" /\ req'[r].directive = "none"
<1> DEFINE rec == [Fresh EXCEPT !.pc = "done"]
<1>1. /\ rec \in RequestRecords /\ rec.pc = "done" /\ rec.kind = "none"
      /\ rec.directive = "none"
  BY FreshFacts
<1>2. req' = [req EXCEPT ![r] = rec]
  BY DEF Respond
<1> HIDE DEF rec
<1>3. /\ req' \in [Requests -> RequestRecords] /\ req'[r] = rec
      /\ \A o \in Requests : o # r => req'[o] = req[o]
  BY <1>1, <1>2, Replaced
<1> QED
  BY <1>1, <1>3 DEF OneRequest, Coherent, Looks, NextInv, Nexts

\* An answer leaves.
LEMMA AnswerFacts ==
  ASSUME TypeOK, NEW r \in Requests, NEW directive \in Directives, Answer(r, directive),
         directive \in {"play", "enqueue"} => req[r].found \in Tracks
  PROVE  OneRequest(r) /\ req'[r].pc = "answering" /\ req'[r].directive = directive
<1> DEFINE rec == [Fresh EXCEPT !.pc = "answering", !.directive = directive,
                                !.found = req[r].found, !.token = req[r].token]
<1>1. req[r].found \in Tracks \cup {None} /\ req[r].token \in Tracks \cup {None}
  BY RequestFacts
<1>2. Fresh \in RequestRecords /\ Fresh.kind = "none"
  BY FreshFacts DEF Fresh
<1>3. /\ rec \in RequestRecords /\ rec.pc = "answering" /\ rec.kind = "none"
      /\ rec.directive = directive /\ rec.found = req[r].found
  BY <1>1, <1>2 DEF RequestRecords, PCs
<1>4. req' = [req EXCEPT ![r] = rec]
  BY DEF Answer
<1> HIDE DEF rec
<1>5. /\ req' \in [Requests -> RequestRecords] /\ req'[r] = rec
      /\ \A o \in Requests : o # r => req'[o] = req[o]
  BY <1>3, <1>4, Replaced
<1> QED
  BY <1>3, <1>5 DEF OneRequest, Coherent, Looks, NextInv, Nexts

LEMMA GotoFacts ==
  ASSUME TypeOK, NEW r \in Requests, NEW l \in PCs, Goto(r, l)
  PROVE  /\ req' \in [Requests -> RequestRecords]
         /\ \A o \in Requests : o # r => req'[o] = req[o]
         /\ req'[r].pc = l /\ req'[r].kind = req[r].kind
         /\ req'[r].queue = req[r].queue /\ req'[r].lookups = req[r].lookups
         /\ req'[r].found = req[r].found /\ req'[r].places = req[r].places
         /\ req'[r].directive = req[r].directive
<1>1. req[r] \in RequestRecords /\ req \in [Requests -> RequestRecords]
  BY DEF TypeOK
<1>2. [req[r] EXCEPT !.pc = l] \in RequestRecords
  BY <1>1 DEF RequestRecords
<1>3. req' = [req EXCEPT ![r] = [req[r] EXCEPT !.pc = l]]
  BY <1>1 DEF Goto
<1> QED
  BY <1>1, <1>2, <1>3, Replaced DEF RequestRecords

\* The queue a handler starts on, and the token it was brought.
LEMMA SessionFacts ==
  ASSUME TypeOK
  PROVE  /\ SessionQueue \in Queues \cup {None}
         /\ \A k \in Kinds, c \in Tracks \cup {None} : QueueFor(k, c) \in Queues \cup {None}
         /\ \A k \in Kinds : Contexts(k) \subseteq Tracks \cup {None}
<1>1. session.queue \in Queues \cup {None} /\ session.current \in Tracks \cup {None}
  BY DEF TypeOK, SessionRecords
<1>2. \A t \in Tracks : t.queue \in Queues
  BY DEF Tracks
<1>3. SessionQueue \in Queues \cup {None}
  BY <1>1, <1>2 DEF SessionQueue
<1>4. \A k \in Kinds, c \in Tracks \cup {None} : QueueFor(k, c) \in Queues \cup {None}
  BY <1>1, <1>2, <1>3, ConfigQueueIsOptional DEF QueueFor, VoiceQueue, ButtonQueue
<1>5. \A k \in Kinds : Contexts(k) \subseteq Tracks \cup {None}
  BY <1>1 DEF Contexts
<1> QED
  BY <1>3, <1>4, <1>5

LEMMA BeginFacts ==
  ASSUME TypeOK, NEW r \in Requests, NEW k \in Kinds, NEW q \in Queues \cup {None},
         NEW c \in Tracks \cup {None}, NEW first \in PCs, Begin(r, k, q, c, first)
  PROVE  /\ req' \in [Requests -> RequestRecords]
         /\ \A o \in Requests : o # r => req'[o] = req[o]
         /\ req'[r].pc = first /\ req'[r].kind = k
         /\ k \in Nexts => req'[r].queue = q
         /\ req'[r].lookups = LookupsFor(k, q, c)
         /\ req'[r].directive = "none"
<1> DEFINE own == IF k \in Nexts THEN q ELSE None
           token == IF k = "nearly" THEN c ELSE None
           rec == [Fresh EXCEPT !.pc = first, !.kind = k, !.queue = own,
                                !.lookups = LookupsFor(k, q, c), !.token = token]
<1>1. LookupsFor(k, q, c) \in Seq([from : Queues, ask : Asks])
  BY LookupsAreTyped DEF LookupRecords
<1>2. own \in Queues \cup {None} /\ token \in Tracks \cup {None}
  OBVIOUS
<1>3. k \in Nexts => own = q
  OBVIOUS
<1>4. req' = [req EXCEPT ![r] = rec]
  BY DEF Begin
<1> HIDE DEF own, token
<1>5. Fresh \in RequestRecords /\ Fresh.directive = "none"
  BY FreshFacts DEF Fresh
<1>6. /\ rec \in RequestRecords /\ rec.pc = first /\ rec.kind = k /\ rec.queue = own
      /\ rec.lookups = LookupsFor(k, q, c) /\ rec.directive = "none"
  BY <1>1, <1>2, <1>5 DEF RequestRecords
<1> HIDE DEF rec
<1> QED
  BY <1>3, <1>4, <1>6, Replaced

LEMMA ReceiveStep ==
  ASSUME IInv, NEW r \in Requests, NEW k \in Kinds, Receive(r, k)
  PROVE  OneRequest(r)
<1>1. k # "nearly" /\ TypeOK
  BY DEF Receive, IInv
<1>2. PICK c \in Contexts(k) :
          LET q == QueueFor(k, c) IN
          IF q = None /\ k \in Skips \ Discoverers
          THEN Respond(r)
          ELSE Begin(r, k, q, c, FirstAwait(k, q, c))
  BY DEF Receive
<1> DEFINE q == QueueFor(k, c)
<1>3. c \in Tracks \cup {None} /\ q \in Queues \cup {None}
  BY <1>1, SessionFacts
<1> HIDE DEF q
<1>4. CASE q = None /\ k \in Skips \ Discoverers
  BY <1>1, <1>2, <1>4, RespondFacts DEF q
<1>5. CASE ~(q = None /\ k \in Skips \ Discoverers)
  <2> DEFINE first == FirstAwait(k, q, c)
  <2>1. Begin(r, k, q, c, first)
    BY <1>2, <1>5 DEF q
  <2>2. /\ first \in {"search", "post", "lookup", "discover"}
        /\ first = "lookup" => LookupsFor(k, q, c) # <<>>
        /\ (first = "post" /\ k \in Skips) => q # None
        /\ (k \in Skips /\ q # None) => first = "post"
    <3>1. CASE k = "search"
      BY <3>1 DEF FirstAwait, Stops, Pauses, Skips, Nexts
    <3>2. CASE k \in Stops \/ (k \in Skips /\ q # None)
      <4>1. k # "search"
        BY <3>2 DEF Stops, Pauses, Skips, Nexts
      <4>2. k \in Skips => q # None
        BY <3>2 DEF Stops, Pauses, Skips, Nexts
      <4>3. first = "post"
        BY <3>2, <4>1 DEF FirstAwait
      <4> QED
        BY <4>2, <4>3
    <3>3. CASE k # "search" /\ ~(k \in Stops \/ (k \in Skips /\ q # None))
      BY <3>3 DEF FirstAwait, Skips, Nexts
    <3> QED
      BY <3>1, <3>2, <3>3
  <2>3. (k \in Nexts /\ q = None) => first = "discover"
    <3> SUFFICES ASSUME k \in Nexts, q = None PROVE first = "discover"
      OBVIOUS
    <3>1. AskOf(q, "next") = <<>> /\ AskOf(q, "current") = <<>>
      BY DEF AskOf
    <3>2. LookupsFor(k, q, c) = AskOf(q, "next") \o AskOf(q, "current")
      BY DEF LookupsFor, Nexts, Stops, Pauses
    <3>3. LookupsFor(k, q, c) = <<>>
      BY <3>1, <3>2
    <3> QED
      BY <3>3 DEF FirstAwait, Stops, Pauses, Skips, Nexts
  <2>4. first \in PCs
    BY <2>2 DEF PCs
  <2> HIDE DEF first
  <2>5. /\ req' \in [Requests -> RequestRecords]
        /\ \A o \in Requests : o # r => req'[o] = req[o]
        /\ req'[r].pc = first /\ req'[r].kind = k
        /\ k \in Nexts => req'[r].queue = q
        /\ req'[r].lookups = LookupsFor(k, q, c)
        /\ req'[r].directive = "none"
    BY <1>1, <1>3, <2>1, <2>4, BeginFacts
  <2>6. /\ (k \in Skips /\ q # None) => LookupsFor(k, q, c) # <<>>
        /\ (k \in Nexts /\ q # None) => LookupsFor(k, q, c) = NextThenCurrent(q)
    BY <1>3, LookupsOfASkip DEF Skips
  <2>7. Coherent(r)'
    BY <2>2, <2>5, <2>6 DEF Coherent, Looks
  <2>8. NextInv(r)'
    <3> SUFFICES ASSUME k \in Nexts PROVE NextInv(r)'
      BY <2>5 DEF NextInv
    <3>1. CASE q = None
      BY <2>3, <2>5, <3>1 DEF NextInv
    <3>2. CASE q # None
      <4>1. first = "post" /\ req'[r].lookups = NextThenCurrent(q)
        BY <2>2, <2>5, <2>6, <3>2 DEF Skips
      <4> QED
        BY <2>5, <3>2, <4>1 DEF NextInv
    <3> QED
      BY <3>1, <3>2
  <2> QED
    BY <2>5, <2>7, <2>8 DEF OneRequest
<1> QED
  BY <1>4, <1>5

LEMMA NearlyFinishedStep ==
  ASSUME IInv, NEW r \in Requests, PlaybackNearlyFinished(r)
  PROVE  OneRequest(r) /\ req'[r].pc = "lookup"
<1> DEFINE t == device.track
<1>1. t \in Tracks /\ TypeOK
  BY DEF PlaybackNearlyFinished, IInv, TypeOK, Devices
<1>2. Begin(r, "nearly", t.queue, t, "lookup")
  BY DEF PlaybackNearlyFinished
<1> HIDE DEF t
<1>3. t.queue \in Queues /\ "nearly" \in Kinds /\ "lookup" \in PCs
  BY <1>1 DEF Tracks, Kinds, PCs
<1> DEFINE q == t.queue
<1>4. q \in Queues /\ q \in Queues \cup {None} /\ Begin(r, "nearly", q, t, "lookup")
  BY <1>2, <1>3
<1> HIDE DEF q
<1>5. /\ req' \in [Requests -> RequestRecords]
      /\ \A o \in Requests : o # r => req'[o] = req[o]
      /\ req'[r].pc = "lookup" /\ req'[r].kind = "nearly"
      /\ req'[r].lookups = LookupsFor("nearly", q, t) /\ req'[r].directive = "none"
  BY <1>1, <1>3, <1>4, BeginFacts
<1>6. LookupsFor("nearly", q, t) = AskOf(q, "next")
  BY DEF LookupsFor, Nexts, Stops, Pauses
<1>7. LookupsFor("nearly", q, t) # <<>>
  BY <1>4, <1>6, AskOfFacts, NoneIsNoQueue DEF Asks
<1> QED
  BY <1>5, <1>7 DEF OneRequest, Coherent, NextInv, Nexts

LEMMA PostSkipStep ==
  ASSUME IInv, NEW r \in Requests, PostSkip(r)
  PROVE  OneRequest(r) /\ req'[r].pc = "lookup"
<1>1. /\ TypeOK /\ Goto(r, "lookup") /\ "lookup" \in PCs
      /\ req[r].pc = "post" /\ req[r].kind \in Skips
  BY DEF PostSkip, IInv, PCs
<1>2. Coherent(r) /\ NextInv(r)
  BY DEF IInv
<1>3. Coherent(r)'
  BY <1>1, <1>2, GotoFacts DEF Coherent, Looks
<1>4. NextInv(r)'
  BY <1>1, <1>2, GotoFacts DEF NextInv
<1> QED
  BY <1>1, <1>3, <1>4, GotoFacts DEF OneRequest

\* A track is taken; for a next, it is one that moves on.
LEMMA TakeFacts ==
  ASSUME TypeOK, NEW r \in Requests, NEW t \in Tracks, NEW places \in SUBSET (0..QueueLength),
         Take(r, t, places), req[r].kind \in Nexts => req[r].directive = "none",
         (req[r].kind \in Nexts /\ t.queue = req[r].queue) =>
            \/ t.item - 1 \in places
            \/ t.item \in places /\ places \cap {0, QueueLength} # {}
  PROVE  OneRequest(r) /\ req'[r].pc \in {"forward", "found"}
<1> DEFINE l == IF req[r].kind \in {"resume", "playButton"} THEN "forward" ELSE "found"
           rec == [req[r] EXCEPT !.found = t, !.places = places, !.lookups = <<>>, !.pc = l]
<1>1. req[r] \in RequestRecords /\ <<>> \in Seq([from : Queues, ask : Asks])
  BY DEF TypeOK
<1>2. l \in PCs /\ l \in {"forward", "found"} /\ (req[r].kind \in Nexts => l = "found")
  BY DEF PCs, Nexts
<1>3. req' = [req EXCEPT ![r] = rec]
  BY <1>1 DEF Take, RequestRecords
<1> HIDE DEF l
<1>4. /\ rec \in RequestRecords /\ rec.pc = l /\ rec.kind = req[r].kind
      /\ rec.queue = req[r].queue /\ rec.found = t /\ rec.places = places
      /\ rec.directive = req[r].directive
  BY <1>1, <1>2 DEF RequestRecords
<1> HIDE DEF rec
<1>5. /\ req' \in [Requests -> RequestRecords] /\ req'[r] = rec
      /\ \A o \in Requests : o # r => req'[o] = req[o]
  BY <1>3, <1>4, Replaced
<1>6. Coherent(r)'
  BY <1>2, <1>4, <1>5 DEF Coherent, Looks
<1>7. NextInv(r)'
  <2> SUFFICES ASSUME req[r].kind \in Nexts PROVE NextInv(r)'
    BY <1>4, <1>5 DEF NextInv
  <2>1. t.queue = req[r].queue => MovedOn(r)'
    BY <1>4, <1>5 DEF MovedOn, AtAnEnd
  <2> QED
    BY <1>2, <1>4, <1>5, <2>1 DEF NextInv
<1> QED
  BY <1>2, <1>4, <1>5, <1>6, <1>7 DEF OneRequest

\* A request that looks something up: what it asks, and what a next knows.
LEMMA LookingFacts ==
  ASSUME IInv, NEW r \in Requests, NEW place \in 0..QueueLength, Looks(r)
  PROVE  LET first == Head(req[r].lookups)
             rest == Tail(req[r].lookups)
             q == req[r].queue
             t == Asked(r, place)
         IN  /\ first.from \in Queues /\ first.ask \in Asks
             /\ rest \in Seq([from : Queues, ask : Asks])
             /\ t \in Tracks \cup {None}
             /\ t # None => /\ t.queue = first.from
                            /\ t.item = IF first.ask = "next" THEN place + 1 ELSE place
             /\ t = None => place = 0 \/ (first.ask = "next" /\ place = QueueLength)
             /\ Seen(r, place) \in SUBSET (0..QueueLength)
             /\ req[r].places \subseteq Seen(r, place)
             /\ (req[r].kind \in Nexts /\ first.from = q) => place \in Seen(r, place)
             /\ req[r].kind \in Nexts =>
                   /\ req[r].directive = "none"
                   /\ \/ /\ req[r].pc = "lookup" /\ q # None
                         /\ first = [from |-> q, ask |-> "next"] /\ rest = OnlyCurrent(q)
                      \/ /\ req[r].pc = "lookup" /\ q # None /\ AtAnEnd(r)
                         /\ first = [from |-> q, ask |-> "current"] /\ rest = <<>>
                      \/ /\ req[r].pc = "lastLookup"
                         /\ first.ask = "current" /\ rest = <<>>
                         /\ first.from = q => AtAnEnd(r)
<1> DEFINE first == Head(req[r].lookups)
           rest == Tail(req[r].lookups)
           q == req[r].queue
           t == Asked(r, place)
<1>1. TypeOK /\ Coherent(r) /\ NextInv(r)
  BY DEF IInv
<1>2. req[r].lookups \in Seq([from : Queues, ask : Asks]) /\ req[r].lookups # <<>>
  BY <1>1, RequestFacts DEF Coherent
<1>3. first \in [from : Queues, ask : Asks] /\ rest \in Seq([from : Queues, ask : Asks])
  BY <1>2, HeadTailProperties
<1>4. first.from \in Queues /\ first.ask \in Asks
  BY <1>3
<1>5. t = ItemOf(first.from, first.ask, place)
  BY DEF Asked
<1>6. req[r].places \in SUBSET (0..QueueLength)
  BY <1>1, RequestFacts
<1>7. /\ Seen(r, place) \in SUBSET (0..QueueLength)
      /\ req[r].places \subseteq Seen(r, place)
      /\ (req[r].kind \in Nexts /\ first.from = q) => place \in Seen(r, place)
  BY <1>6 DEF Seen
<1> HIDE DEF t
<1>8. ASSUME req[r].kind \in Nexts
      PROVE  /\ req[r].directive = "none"
             /\ \/ /\ req[r].pc = "lookup" /\ q # None
                   /\ first = [from |-> q, ask |-> "next"] /\ rest = OnlyCurrent(q)
                \/ /\ req[r].pc = "lookup" /\ q # None /\ AtAnEnd(r)
                   /\ first = [from |-> q, ask |-> "current"] /\ rest = <<>>
                \/ /\ req[r].pc = "lastLookup"
                   /\ first.ask = "current" /\ rest = <<>>
                   /\ first.from = q => AtAnEnd(r)
  <2>1. \A p : /\ Head(OnlyCurrent(p)) = [from |-> p, ask |-> "current"]
               /\ Tail(OnlyCurrent(p)) = <<>>
    BY DEF OnlyCurrent
  <2>2. /\ Head(NextThenCurrent(q)) = [from |-> q, ask |-> "next"]
        /\ Tail(NextThenCurrent(q)) = OnlyCurrent(q)
    BY DEF OnlyCurrent, NextThenCurrent
  <2>3. CASE req[r].pc = "lookup"
    <3>1. /\ q # None /\ req[r].directive = "none"
          /\ \/ req[r].lookups = NextThenCurrent(q)
             \/ req[r].lookups = OnlyCurrent(q) /\ AtAnEnd(r)
      BY <1>1, <1>8, <2>3 DEF NextInv
    <3> QED
      BY <2>1, <2>2, <2>3, <3>1
  <2>4. CASE req[r].pc = "lastLookup"
    <3>1. PICK p \in Queues : req[r].lookups = OnlyCurrent(p) /\ (p = q => AtAnEnd(r))
      BY <1>1, <1>8, <2>4 DEF NextInv
    <3>2. req[r].directive = "none"
      BY <1>1, <1>8 DEF NextInv
    <3> QED
      BY <2>1, <2>4, <3>1, <3>2
  <2> QED
    BY <2>3, <2>4 DEF Looks
<1> HIDE DEF first, rest, q
<1>9. /\ t \in Tracks \cup {None}
      /\ t # None => /\ t.queue = first.from
                     /\ t.item = IF first.ask = "next" THEN place + 1 ELSE place
      /\ t = None => place = 0 \/ (first.ask = "next" /\ place = QueueLength)
  BY <1>4, <1>5, ItemOfFacts
<1> QED
  BY <1>3, <1>4, <1>7, <1>8, <1>9 DEF first, rest, q, t

LEMMA LookupFindsStep ==
  ASSUME IInv, NEW r \in Requests, NEW place \in 0..QueueLength, LookupFinds(r, place)
  PROVE  OneRequest(r) /\ req'[r].pc \in {"forward", "found"}
<1> DEFINE first == Head(req[r].lookups)
           rest == Tail(req[r].lookups)
           q == req[r].queue
           t == Asked(r, place)
           places == Seen(r, place)
<1>1. TypeOK /\ Looks(r) /\ t # None /\ Take(r, t, places)
  BY DEF LookupFinds, IInv
<1>2. /\ t \in Tracks /\ t.queue = first.from
      /\ t.item = IF first.ask = "next" THEN place + 1 ELSE place
      /\ places \in SUBSET (0..QueueLength) /\ req[r].places \subseteq places
      /\ (req[r].kind \in Nexts /\ first.from = q) => place \in places
  BY <1>1, LookingFacts
<1>3. req[r].kind \in Nexts =>
         /\ req[r].directive = "none"
         /\ \/ /\ req[r].pc = "lookup" /\ q # None
               /\ first = [from |-> q, ask |-> "next"] /\ rest = OnlyCurrent(q)
            \/ /\ req[r].pc = "lookup" /\ q # None /\ AtAnEnd(r)
               /\ first = [from |-> q, ask |-> "current"] /\ rest = <<>>
            \/ /\ req[r].pc = "lastLookup"
               /\ first.ask = "current" /\ rest = <<>>
               /\ first.from = q => AtAnEnd(r)
  BY <1>1, LookingFacts
<1> HIDE DEF first, rest, q, t, places
<1>4. (req[r].kind \in Nexts /\ t.queue = q) =>
         \/ t.item - 1 \in places
         \/ t.item \in places /\ places \cap {0, QueueLength} # {}
  <2> SUFFICES ASSUME req[r].kind \in Nexts, t.queue = q
               PROVE  \/ t.item - 1 \in places
                      \/ t.item \in places /\ places \cap {0, QueueLength} # {}
    OBVIOUS
  <2>1. place \in places /\ first.from = q
    BY <1>2
  <2>2. CASE first.ask = "next"
    <3>1. t.item = place + 1
      BY <1>2, <2>2
    <3>2. t.item - 1 = place
      BY <3>1
    <3> QED
      BY <2>1, <3>2
  <2>3. CASE first.ask = "current" /\ AtAnEnd(r)
    <3>1. t.item = place
      BY <1>2, <2>3
    <3> QED
      BY <1>2, <2>1, <2>3, <3>1 DEF AtAnEnd
  <2> QED
    BY <1>3, <2>1, <2>2, <2>3
<1> QED
  BY <1>1, <1>2, <1>3, <1>4, TakeFacts DEF q

LEMMA LookupGoesOnStep ==
  ASSUME IInv, NEW r \in Requests, NEW place \in 0..QueueLength, LookupGoesOn(r, place)
  PROVE  OneRequest(r) /\ req'[r].pc \in {"lookup", "lastLookup", "discover"}
<1> DEFINE first == Head(req[r].lookups)
           rest == Tail(req[r].lookups)
           q == req[r].queue
           places == Seen(r, place)
           l == IF rest # <<>> THEN req[r].pc ELSE "discover"
           rec == [req[r] EXCEPT !.lookups = rest, !.places = places, !.pc = l]
<1>1. TypeOK /\ Looks(r) /\ Asked(r, place) = None /\ (rest # <<>> \/ Discovers(r))
  BY DEF LookupGoesOn, IInv
<1>2. /\ rest \in Seq([from : Queues, ask : Asks])
      /\ place = 0 \/ (first.ask = "next" /\ place = QueueLength)
      /\ places \in SUBSET (0..QueueLength) /\ req[r].places \subseteq places
      /\ (req[r].kind \in Nexts /\ first.from = q) => place \in places
  BY <1>1, LookingFacts
<1>3. req[r].kind \in Nexts =>
         /\ req[r].directive = "none"
         /\ \/ /\ req[r].pc = "lookup" /\ q # None
               /\ first = [from |-> q, ask |-> "next"] /\ rest = OnlyCurrent(q)
            \/ /\ req[r].pc = "lookup" /\ q # None /\ AtAnEnd(r)
               /\ first = [from |-> q, ask |-> "current"] /\ rest = <<>>
            \/ req[r].pc = "lastLookup" /\ rest = <<>>
  BY <1>1, LookingFacts
<1>4. req[r] \in RequestRecords
  BY <1>1 DEF TypeOK
<1>5. l \in PCs /\ l \in {"lookup", "lastLookup", "discover"}
  BY <1>1 DEF PCs, Looks
<1>6. req' = [req EXCEPT ![r] = rec]
  BY <1>4 DEF LookupGoesOn, RequestRecords
<1>7. l = IF rest # <<>> THEN req[r].pc ELSE "discover"
  OBVIOUS
<1> HIDE DEF first, rest, places, l
<1>8. /\ rec \in RequestRecords /\ rec.pc = l /\ rec.kind = req[r].kind
      /\ rec.queue = q /\ rec.found = req[r].found /\ rec.places = places
      /\ rec.lookups = rest /\ rec.directive = req[r].directive
  BY <1>2, <1>4, <1>5 DEF RequestRecords
<1> HIDE DEF rec, q
<1>9. /\ req' \in [Requests -> RequestRecords] /\ req'[r] = rec
      /\ \A o \in Requests : o # r => req'[o] = req[o]
  BY <1>1, <1>6, <1>8, Replaced
<1>10. Coherent(r)
  BY DEF IInv
<1>11. Coherent(r)'
  BY <1>1, <1>5, <1>7, <1>8, <1>9, <1>10 DEF Coherent, Looks
<1>12. NextInv(r)'
  <2> SUFFICES ASSUME req[r].kind \in Nexts PROVE NextInv(r)'
    BY <1>8, <1>9 DEF NextInv
  <2>1. CASE /\ req[r].pc = "lookup" /\ q # None
             /\ first = [from |-> q, ask |-> "next"] /\ rest = OnlyCurrent(q)
    <3>1. place \in places /\ place \in {0, QueueLength}
      BY <1>2, <2>1
    <3>2. AtAnEnd(r)'
      BY <1>8, <1>9, <3>1 DEF AtAnEnd
    <3>3. l = "lookup"
      BY <1>7, <2>1 DEF OnlyCurrent
    <3> QED
      BY <1>3, <1>8, <1>9, <2>1, <3>2, <3>3 DEF NextInv
  <2>2. CASE /\ req[r].pc = "lookup" /\ q # None /\ AtAnEnd(r)
             /\ first = [from |-> q, ask |-> "current"] /\ rest = <<>>
    <3>1. AtAnEnd(r)' /\ l = "discover"
      BY <1>2, <1>7, <1>8, <1>9, <2>2 DEF AtAnEnd
    <3> QED
      BY <1>3, <1>8, <1>9, <2>2, <3>1 DEF NextInv
  <2>3. ~(req[r].pc = "lastLookup" /\ rest = <<>>)
    BY <1>1 DEF Discovers
  <2> QED
    BY <1>3, <2>1, <2>2, <2>3
<1> QED
  BY <1>5, <1>8, <1>9, <1>11, <1>12 DEF OneRequest

LEMMA DiscoverStep ==
  ASSUME IInv, NEW r \in Requests, Discover(r)
  PROVE  OneRequest(r) /\ req'[r].pc \in {"lastLookup", "done"}
<1>1. TypeOK /\ req[r].pc = "discover" /\ NextInv(r) /\ Coherent(r)
  BY DEF Discover, IInv
<1>2. CASE Respond(r)
  BY <1>1, <1>2, RespondFacts
<1>3. CASE \E q \in Queues : req' = [req EXCEPT ![r].lookups = AskOf(q, "current"),
                                                ![r].pc = "lastLookup"]
  <2>1. PICK p \in Queues : req' = [req EXCEPT ![r].lookups = AskOf(p, "current"),
                                               ![r].pc = "lastLookup"]
    BY <1>3
  <2>2. req[r] \in RequestRecords /\ req \in [Requests -> RequestRecords]
    BY <1>1 DEF TypeOK
  <2>3. AskOf(p, "current") = OnlyCurrent(p)
    BY AskOfFacts, NoneIsNoQueue DEF Asks, OnlyCurrent
  <2>4. OnlyCurrent(p) \in Seq([from : Queues, ask : Asks])
    BY <2>3, AskOfFacts DEF Asks, LookupRecords
  <2> DEFINE rec == [req[r] EXCEPT !.lookups = OnlyCurrent(p), !.pc = "lastLookup"]
  <2>5. req' = [req EXCEPT ![r] = rec]
    BY <2>1, <2>2, <2>3
  <2>6. rec \in RequestRecords
    BY <2>2, <2>4 DEF RequestRecords, PCs
  <2>7. /\ rec.pc = "lastLookup" /\ rec.kind = req[r].kind /\ rec.queue = req[r].queue
        /\ rec.lookups = OnlyCurrent(p) /\ rec.places = req[r].places
        /\ rec.directive = req[r].directive /\ rec.found = req[r].found
    BY <2>2 DEF RequestRecords
  <2> HIDE DEF rec
  <2>8. /\ req' \in [Requests -> RequestRecords] /\ req'[r] = rec
        /\ \A o \in Requests : o # r => req'[o] = req[o]
    BY <1>1, <2>5, <2>6, Replaced
  <2>9. Coherent(r)'
    <3>1. OnlyCurrent(p) # <<>>
      BY DEF OnlyCurrent
    <3> QED
      BY <1>1, <2>7, <2>8, <3>1 DEF Coherent, Looks
  <2>10. NextInv(r)'
    <3> SUFFICES ASSUME req[r].kind \in Nexts PROVE NextInv(r)'
      BY <2>7, <2>8 DEF NextInv
    <3>1. req[r].directive = "none" /\ (req[r].queue # None => AtAnEnd(r))
      BY <1>1 DEF NextInv
    <3>2. p = req[r].queue => AtAnEnd(r)'
      BY <2>7, <2>8, <3>1, NoneIsNoQueue DEF AtAnEnd
    <3> QED
      BY <2>7, <2>8, <3>1, <3>2 DEF NextInv
  <2> QED
    BY <2>7, <2>8, <2>9, <2>10 DEF OneRequest
<1> QED
  BY <1>2, <1>3 DEF Discover

LEMMA ForwardStep ==
  ASSUME IInv, NEW r \in Requests, Forward(r)
  PROVE  OneRequest(r) /\ req'[r].pc = "found"
<1>1. /\ TypeOK /\ Goto(r, "found") /\ "found" \in PCs /\ req[r].pc = "forward"
      /\ Coherent(r) /\ NextInv(r)
  BY DEF Forward, IInv, PCs
<1>2. req[r].kind \notin Nexts
  BY <1>1 DEF NextInv
<1>3. Coherent(r)' /\ NextInv(r)'
  BY <1>1, <1>2, GotoFacts DEF Coherent, Looks, NextInv
<1> QED
  BY <1>1, <1>3, GotoFacts DEF OneRequest

-----------------------------------------------------------------------------
(* The session and its file *)

StoreTyped == session \in SessionRecords /\ file \in SessionRecords

LEMMA UpdateFacts ==
  ASSUME StoreTyped, NEW s \in SessionRecords, update_session(s)
  PROVE  StoreTyped' /\ session' = s
<1>1. NewSession \in SessionRecords
  BY DEF NewSession, SessionRecords, PlayStates
<1> QED
  BY <1>1 DEF StoreTyped, update_session

LEMMA NotedFacts ==
  ASSUME StoreTyped, NEW e \in Events
  PROVE  /\ Noted(e) \in SessionRecords
         /\ e.kind = "started" => /\ e.track \in Tracks /\ Noted(e).state = "PLAYING"
                                  /\ Noted(e).current = e.track
         /\ e.kind # "started" => /\ Noted(e).current = session.current
                                  /\ Noted(e).state # "PLAYING"
<1>1. session \in SessionRecords
  BY DEF StoreTyped
<1>2. CASE e.kind = "started"
  <2>1. e.track \in Tracks
    BY <1>2 DEF Events, Endings
  <2>2. e.track.queue \in Queues
    BY <2>1 DEF Tracks
  <2> QED
    BY <1>2, <2>1, <2>2 DEF Noted, SessionRecords, PlayStates
<1>3. CASE e.kind # "started"
  <2>1. e.kind \in Endings
    BY <1>3 DEF Events
  <2>2. StateAfter(e.kind) \in PlayStates \ {"PLAYING"}
    BY <2>1 DEF StateAfter, PlayStates, Endings
  <2> QED
    BY <1>1, <1>3, <2>2 DEF Noted, SessionRecords
<1> QED
  BY <1>2, <1>3

\* What a handler's step does to the session.
LEMMA PostStopStore ==
  ASSUME StoreTyped, NEW r \in Requests, PostStop(r)
  PROVE  /\ StoreTyped' /\ session'.current = session.current
         /\ session'.state # "PLAYING"
<1>1. PICK s \in {"PAUSED", "STOPPED"} : update_session([session EXCEPT !.state = s])
  BY DEF PostStop
<1>2. /\ [session EXCEPT !.state = s] \in SessionRecords
      /\ [session EXCEPT !.state = s].current = session.current
      /\ [session EXCEPT !.state = s].state = s
  BY DEF StoreTyped, SessionRecords, PlayStates
<1> QED
  BY <1>1, <1>2, UpdateFacts

LEMMA FinishStore ==
  ASSUME IInv, NEW r \in Requests, Finish(r)
  PROVE  /\ StoreTyped'
         /\ req[r].kind = "nearly" => session' = session /\ Answer(r, "enqueue")
         /\ req[r].kind # "nearly" => session'.state = "PLAYING" /\ Answer(r, "play")
         /\ req[r].found \in Tracks
<1> DEFINE t == req[r].found
<1>1. t \in Tracks /\ session \in SessionRecords /\ StoreTyped
  BY DEF Finish, IInv, Coherent, TypeOK, StoreTyped
<1>2. t.queue \in Queues
  BY <1>1 DEF Tracks
<1>3. CASE req[r].kind = "nearly"
  BY <1>1, <1>3, UpdateFacts DEF Finish
<1>4. CASE req[r].kind # "nearly"
  <2>1. update_session(Played(r)) /\ Answer(r, "play")
    BY <1>4 DEF Finish
  <2> HIDE DEF t
  <2>2. Played(r) \in SessionRecords /\ Played(r).state = "PLAYING"
    BY <1>1, <1>2 DEF Played, SessionRecords, PlayStates, t
  <2> QED
    BY <1>1, <1>4, <2>1, <2>2, UpdateFacts DEF t
<1> QED
  BY <1>3, <1>4

-----------------------------------------------------------------------------
(* The session follows the device *)

\* What a request other than r has on its way stays there.
LEMMA StaysComing ==
  ASSUME NEW D, NEW r \in Requests, \A o \in Requests : o # r => req'[o] = req[o],
         req[r].pc # "answering" \/ req[r].directive \notin D
  PROVE  Coming(D) => Coming(D)'
<1> SUFFICES ASSUME Coming(D) PROVE Coming(D)'
  OBVIOUS
<1>1. PICK o \in Requests : req[o].pc = "answering" /\ req[o].directive \in D
  BY DEF Coming
<1>2. req'[o] = req[o]
  BY <1>1
<1> QED
  BY <1>1, <1>2 DEF Coming

\* A step that takes no play or stop off its way and leaves the session's track
\* and state and what the device does alone.
LEMMA QuietStep ==
  ASSUME Follows, Coming({"play"}) => Coming({"play"})',
         Coming(StopDirectives) => Coming(StopDirectives)',
         session'.current = session.current, session'.state = session.state,
         device'.track = device.track, device'.plays = device.plays,
         events' = events, strayed' = strayed
  PROVE  Follows'
  BY DEF Follows, Starts, LastStart

\* A start is the latest that happened.
LEMMA StartStep ==
  ASSUME NEW es \in Seq(Events), NEW t \in Tracks,
         events' = es \o <<Started(t)>>, device'.track = t, device'.plays = TRUE
  PROVE  Follows'
<1> DEFINE n == Len(es) + 1
<1>1. Started(t) \in Events /\ Started(t).kind = "started" /\ Started(t).track = t
  BY DEF Started, Events
<1>2. Len(es) \in Nat
  OBVIOUS
<1>3. events' \in Seq(Events) /\ Len(events') = n /\ events'[n] = Started(t)
  BY <1>1, ConcatProperties
<1>4. n \in 1..n /\ events' # <<>>
  BY <1>2, <1>3
<1>5. Starts(events', n)
  BY <1>1, <1>3 DEF Starts
<1>6. ASSUME NEW i \in 1..Len(events'), LastStart(events', i)
      PROVE  events'[i].track = device'.track
  <2>1. i = n
    <3> SUFFICES ASSUME i # n PROVE FALSE
      OBVIOUS
    <3>1. n \in i+1..Len(events')
      BY <1>2, <1>3
    <3> QED
      BY <1>5, <1>6, <3>1 DEF LastStart
  <2> QED
    BY <1>1, <1>3, <2>1
<1>7. n \in 1..Len(events') /\ Starts(events', Len(events'))
  BY <1>3, <1>4, <1>5
<1> QED
  BY <1>3, <1>4, <1>5, <1>6, <1>7 DEF Follows

\* The device does not play any more, and an ending is the latest that happened.
LEMMA EndingStep ==
  ASSUME Follows, events \in Seq(Events), NEW kind \in Endings,
         Coming({"play"}) => Coming({"play"})',
         events' = events \o <<Ending(kind)>>,
         device'.track = device.track, device'.plays = FALSE,
         session'.current = session.current, strayed' = strayed
  PROVE  Follows'
<1> DEFINE n == Len(events) + 1
<1>1. Ending(kind) \in Events /\ Ending(kind).kind # "started"
  BY DEF Ending, Events, Endings
<1>2. Len(events) \in Nat
  OBVIOUS
<1>3. /\ events' \in Seq(Events) /\ Len(events') = n /\ events'[n] = Ending(kind)
      /\ \A i \in 1..Len(events) : events'[i] = events[i]
  BY <1>1, ConcatProperties
<1>4. /\ events' # <<>> /\ ~Starts(events', n)
      /\ \A i \in 1..Len(events) : Starts(events', i) <=> Starts(events, i)
  BY <1>1, <1>2, <1>3 DEF Starts
<1>5. ASSUME NEW i \in 1..Len(events'), LastStart(events', i)
      PROVE  i \in 1..Len(events) /\ LastStart(events, i)
  <2>1. i # n
    BY <1>4, <1>5 DEF LastStart
  <2>2. i \in 1..Len(events) /\ i \in Int
    BY <1>2, <1>3, <2>1
  <2>3. Starts(events, i)
    BY <1>4, <1>5, <2>2 DEF LastStart
  <2>4. ASSUME NEW j \in i+1..Len(events) PROVE ~Starts(events, j)
    <3>1. j \in 1..Len(events) /\ j \in i+1..Len(events')
      BY <1>2, <1>3, <2>2
    <3> QED
      BY <1>4, <1>5, <3>1 DEF LastStart
  <2> QED
    BY <2>2, <2>3, <2>4 DEF LastStart
<1>6. (\A i \in 1..Len(events') : ~Starts(events', i))
         => \A i \in 1..Len(events) : ~Starts(events, i)
  BY <1>2, <1>3, <1>4
<1>7. Len(events') = n /\ ~Starts(events', Len(events'))
  BY <1>3, <1>4
<1>8. ASSUME NEW i \in 1..Len(events'), LastStart(events', i), ~strayed
      PROVE  events'[i].track = device'.track
  BY <1>3, <1>5, <1>8 DEF Follows
<1> QED
  BY <1>4, <1>6, <1>7, <1>8 DEF Follows

\* The oldest event is handled.
LEMMA EventStep ==
  ASSUME IInv, PlaybackEvent
  PROVE  StoreTyped' /\ events' \in Seq(Events) /\ Follows'
<1> DEFINE e == Head(events)
<1>1. /\ events \in Seq(Events) /\ events # <<>> /\ StoreTyped /\ Follows
      /\ update_session(Noted(e)) /\ events' = Tail(events)
      /\ device' = device /\ strayed' = strayed /\ req' = req
  BY DEF PlaybackEvent, IInv, TypeOK, StoreTyped
<1>2. /\ e \in Events /\ e = events[1] /\ events' \in Seq(Events)
      /\ Len(events') = Len(events) - 1
      /\ \A i \in 1..Len(events') : events'[i] = events[i+1]
  BY <1>1, HeadTailProperties
<1>3. Len(events) \in Nat \ {0}
  BY <1>1, EmptySeq
<1> HIDE DEF e
<1>4. StoreTyped' /\ session' = Noted(e)
  BY <1>1, <1>2, NotedFacts, UpdateFacts
<1>5. \A i \in 1..Len(events') : i+1 \in 1..Len(events) /\ (Starts(events', i) <=> Starts(events, i+1))
  BY <1>2, <1>3 DEF Starts
<1>6. ASSUME NEW i \in 1..Len(events'), LastStart(events', i) PROVE LastStart(events, i+1)
  <2>1. Starts(events, i+1) /\ i \in Int
    BY <1>5, <1>6 DEF LastStart
  <2>2. ASSUME NEW j \in (i+1)+1..Len(events) PROVE ~Starts(events, j)
    <3>1. j-1 \in i+1..Len(events') /\ j-1 \in 1..Len(events') /\ (j-1)+1 = j
      BY <1>2, <1>3
    <3>2. ~Starts(events', j-1)
      BY <1>6, <3>1 DEF LastStart
    <3> QED
      BY <1>5, <3>1, <3>2
  <2> QED
    BY <2>1, <2>2 DEF LastStart
<1>7. SUFFICES ASSUME ~strayed PROVE Follows'
  BY <1>1, <1>2, <1>4 DEF Follows
<1>8. events' # <<>> => (device'.plays <=> Starts(events', Len(events')))
  <2> SUFFICES ASSUME events' # <<>> PROVE device'.plays <=> Starts(events', Len(events'))
    OBVIOUS
  <2>1. Len(events') \in 1..Len(events') /\ Len(events') + 1 = Len(events)
    BY <1>2, <1>3, EmptySeq
  <2>2. Starts(events', Len(events')) <=> Starts(events, Len(events))
    BY <1>5, <2>1
  <2> QED
    BY <1>1, <1>7, <2>2 DEF Follows
<1>9. \A i \in 1..Len(events') : LastStart(events', i) => events'[i].track = device'.track
  BY <1>1, <1>2, <1>5, <1>6, <1>7 DEF Follows
<1>10. Coming({"play"})' <=> Coming({"play"})
  BY <1>1 DEF Coming
<1>11. (~Coming({"play"})' /\ \A i \in 1..Len(events') : ~Starts(events', i))
          => session'.current = device'.track
  <2> SUFFICES ASSUME ~Coming({"play"}), \A i \in 1..Len(events') : ~Starts(events', i)
               PROVE  session'.current = device'.track
    BY <1>10
  <2>1. \A j \in 2..Len(events) : ~Starts(events, j)
    <3> TAKE j \in 2..Len(events)
    <3>1. j-1 \in 1..Len(events') /\ (j-1)+1 = j
      BY <1>2, <1>3
    <3> QED
      BY <1>5, <3>1
  <2>2. CASE e.kind = "started"
    <3>1. 1 \in 1..Len(events) /\ LastStart(events, 1)
      BY <1>2, <1>3, <2>1, <2>2 DEF LastStart, Starts
    <3>2. e.track = device.track
      BY <1>1, <1>2, <1>7, <3>1 DEF Follows
    <3> QED
      BY <1>1, <1>2, <1>4, <2>2, <3>2, NotedFacts
  <2>3. CASE e.kind # "started"
    <3>1. \A j \in 1..Len(events) : ~Starts(events, j)
      <4> TAKE j \in 1..Len(events)
      <4>1. CASE j = 1
        BY <1>2, <2>3, <4>1 DEF Starts
      <4>2. CASE j # 1
        BY <2>1, <1>3, <4>2
      <4> QED
        BY <4>1, <4>2
    <3>2. session.current = device.track
      BY <1>1, <1>7, <3>1 DEF Follows
    <3> QED
      BY <1>1, <1>2, <1>4, <2>3, <3>2, NotedFacts
  <2> QED
    BY <2>2, <2>3
<1>12. events' = <<>> => (session'.state = "PLAYING" <=> device'.plays)
  <2> SUFFICES ASSUME events' = <<>> PROVE session'.state = "PLAYING" <=> device'.plays
    OBVIOUS
  <2>1. Len(events) = 1
    BY <1>2, <1>3
  <2>2. device.plays <=> e.kind = "started"
    BY <1>1, <1>2, <1>7, <2>1 DEF Follows, Starts
  <2> QED
    BY <1>1, <1>2, <1>4, <2>2, NotedFacts
<1> QED
  BY <1>8, <1>9, <1>11, <1>12 DEF Follows

-----------------------------------------------------------------------------
(* What the steps do to the requests *)

LEMMA HandleStep ==
  ASSUME IInv, NEW r \in Requests, Handle(r)
  PROVE  OneRequest(r) /\ req[r].pc # "answering"
<1>1. TypeOK /\ Coherent(r) /\ NextInv(r)
  BY DEF IInv
<1>2. CASE PostStop(r)
  <2>1. /\ req[r].pc = "post"
        /\ \E d \in {"stop", "stopClear"} : Answer(r, d)
    BY <1>2 DEF PostStop
  <2> QED
    BY <1>1, <2>1, AnswerFacts DEF Directives
<1>3. CASE Search(r)
  <2>1. /\ req[r].pc = "search" /\ req[r].kind \notin Nexts
        /\ \E t \in Tracks : Take(r, t, {})
    BY <1>1, <1>3 DEF Search, NextInv
  <2>2. {} \in SUBSET (0..QueueLength)
    OBVIOUS
  <2> QED
    BY <1>1, <2>1, <2>2, TakeFacts
<1>4. CASE \E place \in 0..QueueLength :
             LookupFinds(r, place) \/ LookupGoesOn(r, place) \/ LookupEnds(r, place)
  <2>1. PICK place \in 0..QueueLength :
             LookupFinds(r, place) \/ LookupGoesOn(r, place) \/ LookupEnds(r, place)
    BY <1>4
  <2>2. req[r].pc # "answering"
    BY <2>1 DEF LookupFinds, LookupGoesOn, LookupEnds, Looks
  <2>3. LookupEnds(r, place) => OneRequest(r)
    BY <1>1, RespondFacts DEF LookupEnds
  <2> QED
    BY <2>1, <2>2, <2>3, LookupFindsStep, LookupGoesOnStep
<1>5. CASE Fail(r)
  BY <1>1, <1>5, RespondFacts DEF Fail
<1>6. CASE Finish(r)
  <2>1. req[r].pc = "found" /\ (Answer(r, "enqueue") \/ Answer(r, "play"))
        /\ req[r].found \in Tracks
    BY <1>6, FinishStore DEF Finish
  <2> QED
    BY <1>1, <2>1, AnswerFacts DEF Directives
<1>7. CASE PostSkip(r)
  BY <1>7, PostSkipStep DEF PostSkip
<1>8. CASE Discover(r)
  BY <1>8, DiscoverStep DEF Discover
<1>9. CASE Forward(r)
  BY <1>9, ForwardStep DEF Forward
<1> QED
  BY <1>2, <1>3, <1>4, <1>5, <1>6, <1>7, <1>8, <1>9 DEF Handle

LEMMA DeliverRequest ==
  ASSUME IInv, NEW r \in Requests, Deliver(r)
  PROVE  OneRequest(r)
<1>1. Respond(r)
  BY DEF Deliver, PlayArrives, PlayFails, StopArrives, EnqueueArrives, AnswerIsLost
<1> QED
  BY <1>1, RespondFacts DEF IInv

LEMMA RestartRequests ==
  ASSUME IInv, Restart
  PROVE  /\ req' \in [Requests -> RequestRecords]
         /\ \A r \in Requests : Coherent(r)' /\ NextInv(r)'
<1>1. /\ Fresh \in RequestRecords /\ [Fresh EXCEPT !.pc = "done"] \in RequestRecords
      /\ [Fresh EXCEPT !.pc = "done"].pc = "done" /\ Fresh.pc = "idle"
      /\ [Fresh EXCEPT !.pc = "done"].kind = "none" /\ Fresh.kind = "none"
      /\ [Fresh EXCEPT !.pc = "done"].directive = "none" /\ Fresh.directive = "none"
  BY FreshFacts DEF Fresh
<1>2. ASSUME NEW r \in Requests
      PROVE  req'[r] \in RequestRecords /\ Coherent(r)' /\ NextInv(r)'
  <2>1. req'[r] = Fresh \/ req'[r] = [Fresh EXCEPT !.pc = "done"]
    BY DEF Restart
  <2> QED
    BY <1>1, <2>1 DEF Coherent, Looks, NextInv, Nexts
<1> QED
  BY <1>2 DEF Restart

LEMMA RequestsStep ==
  ASSUME IInv, [Next]_vars
  PROVE  /\ req' \in [Requests -> RequestRecords]
         /\ \A r \in Requests : Coherent(r)' /\ NextInv(r)'
<1>1. CASE req' = req
  BY <1>1 DEF IInv, TypeOK, Coherent, Looks, NextInv, MovedOn, AtAnEnd
<1>2. ASSUME NEW r \in Requests,
             \/ \E k \in Kinds : Receive(r, k)
             \/ PlaybackNearlyFinished(r)
             \/ Handle(r)
             \/ Deliver(r)
      PROVE  OneRequest(r)
  BY <1>2, ReceiveStep, NearlyFinishedStep, HandleStep, DeliverRequest
<1>3. ASSUME NEW r \in Requests, OneRequest(r)
      PROVE  req' \in [Requests -> RequestRecords]
             /\ \A o \in Requests : Coherent(o)' /\ NextInv(o)'
  BY <1>3, OneRequestIsEnough DEF OneRequest
<1>4. CASE \/ \E kind \in Endings : TrackEnds(kind)
           \/ PlaybackEvent
           \/ \E i \in 1..Len(events) : EventGoesAstray(i)
           \/ UNCHANGED vars
  BY <1>1, <1>4 DEF TrackEnds, PlaybackEvent, EventGoesAstray, vars
<1> QED
  BY <1>2, <1>3, <1>4, RestartRequests DEF Next

-----------------------------------------------------------------------------
(* What the steps do to the session and the device *)

\* What a step may not break there.
DeviceFine ==
    /\ StoreTyped
    /\ device \in Devices /\ events \in Seq(Events) /\ strayed \in BOOLEAN
    /\ device.plays => device.track # None
    /\ Follows

LEMMA HandleDevice ==
  ASSUME IInv, DeviceFine, NEW r \in Requests, Handle(r)
  PROVE  DeviceFine' /\ restarts' = restarts
<1>1. UNCHANGED deviceVars /\ restarts' = restarts
  BY DEF Handle, PostSkip, PostStop, Search, LookupFinds, LookupGoesOn, LookupEnds,
         Discover, Forward, Fail, Finish
<1>2. OneRequest(r) /\ req[r].pc # "answering"
  BY HandleStep
<1>3. /\ \A o \in Requests : o # r => req'[o] = req[o]
      /\ device' = device /\ events' = events /\ strayed' = strayed
  BY <1>1, <1>2 DEF OneRequest, deviceVars
<1>4. /\ Coming({"play"}) => Coming({"play"})'
      /\ Coming(StopDirectives) => Coming(StopDirectives)'
  BY <1>2, <1>3, StaysComing
<1>5. CASE StoreTyped' /\ session' = session
  <2>1. Follows'
    BY <1>3, <1>4, <1>5, QuietStep DEF DeviceFine
  <2> QED
    BY <1>1, <1>3, <1>5, <2>1 DEF DeviceFine
<1>6. CASE PostStop(r)
  <2>1. StoreTyped' /\ session'.current = session.current /\ session'.state # "PLAYING"
    BY <1>6, PostStopStore DEF DeviceFine
  <2>2. \E d \in StopDirectives : Answer(r, d)
    BY <1>6 DEF PostStop, StopDirectives
  <2>3. req'[r].pc = "answering" /\ req'[r].directive \in StopDirectives
    BY <2>2, AnswerFacts DEF IInv, Directives, StopDirectives
  <2>4. Coming(StopDirectives)'
    BY <2>3 DEF Coming
  <2>5. Follows'
    BY <1>3, <1>4, <2>1, <2>4 DEF Follows, DeviceFine
  <2> QED
    BY <1>1, <1>3, <2>1, <2>5 DEF DeviceFine
<1>7. CASE Finish(r)
  <2>1. CASE req[r].kind = "nearly"
    BY <1>5, <1>7, <2>1, FinishStore DEF DeviceFine
  <2>2. CASE req[r].kind # "nearly"
    <3>1. /\ StoreTyped' /\ session'.state = "PLAYING" /\ Answer(r, "play")
          /\ req[r].found \in Tracks
      BY <1>7, <2>2, FinishStore
    <3>2. req'[r].pc = "answering" /\ req'[r].directive = "play"
      BY <3>1, AnswerFacts DEF IInv, Directives
    <3>3. Coming({"play"})'
      BY <3>2 DEF Coming
    <3>4. Follows'
      BY <1>3, <3>1, <3>3 DEF Follows, DeviceFine
    <3> QED
      BY <1>1, <1>3, <3>1, <3>4 DEF DeviceFine
  <2> QED
    BY <2>1, <2>2
<1>8. CASE \E place \in 0..QueueLength : LookupEnds(r, place)
  <2>1. update_session(session) \/ UNCHANGED storeVars
    BY <1>8 DEF LookupEnds
  <2>2. StoreTyped /\ session \in SessionRecords
    BY DEF DeviceFine, StoreTyped
  <2>3. StoreTyped' /\ session' = session
    BY <2>1, <2>2, UpdateFacts DEF StoreTyped, storeVars
  <2> QED
    BY <1>5, <2>3
<1>9. CASE UNCHANGED storeVars
  BY <1>5, <1>9 DEF DeviceFine, StoreTyped, storeVars
<1> QED
  BY <1>6, <1>7, <1>8, <1>9
  DEF Handle, PostSkip, Search, LookupFinds, LookupGoesOn, Discover, Forward, Fail

LEMMA InterruptionFacts ==
  ASSUME events \in Seq(Events)
  PROVE  /\ Interruption \in Seq(Events)
         /\ device.plays => Interruption = <<Ending("stopped")>>
         /\ ~device.plays => Interruption = <<>>
         /\ \A kind \in Endings : <<Ending(kind)>> \in Seq(Events)
         /\ \A kind \in Endings : events \o <<Ending(kind)>> \in Seq(Events)
         /\ events \o Interruption \in Seq(Events)
         /\ events \o <<>> = events
         /\ \A t \in Tracks : <<Started(t)>> \in Seq(Events)
<1>1. \A kind \in Endings : Ending(kind) \in Events
  BY DEF Ending, Events, Endings
<1>2. \A t \in Tracks : Started(t) \in Events
  BY DEF Started, Events
<1>3. "stopped" \in Endings
  BY DEF Endings
<1>4. Interruption \in Seq(Events)
  BY <1>1, <1>3 DEF Interruption
<1>5. events \o <<>> = events
  BY ConcatEmptySeq
<1> QED
  BY <1>1, <1>2, <1>4, <1>5, ConcatProperties DEF Interruption

LEMMA DeliverDevice ==
  ASSUME IInv, DeviceFine, NEW r \in Requests, Deliver(r)
  PROVE  DeviceFine' /\ restarts' = restarts
<1>1. /\ restarts' = restarts /\ session' = session /\ file' = file
      /\ req[r].pc = "answering" /\ Respond(r)
  BY DEF Deliver, PlayArrives, PlayFails, StopArrives, EnqueueArrives, AnswerIsLost, storeVars
<1>2. StoreTyped' /\ OneRequest(r)
  BY <1>1, DeliverRequest DEF DeviceFine, StoreTyped
<1>3. /\ device \in Devices /\ events \in Seq(Events) /\ strayed \in BOOLEAN
      /\ device.track \in Tracks \cup {None} /\ device.next \in Tracks \cup {None}
      /\ device.plays \in BOOLEAN
  BY DEF DeviceFine, Devices
<1>4. \A o \in Requests : o # r => req'[o] = req[o]
  BY <1>2 DEF OneRequest
<1> DEFINE t == req[r].found
<1>5. req[r].directive \in {"play", "enqueue"} => t \in Tracks
  BY DEF IInv, Coherent
<1> HIDE DEF t
<1>6. CASE PlayArrives(r)
  <2>1. /\ t \in Tracks /\ device' = [track |-> t, plays |-> TRUE, next |-> None]
        /\ events' = events \o (Interruption \o <<Started(t)>>)
        /\ strayed' \in BOOLEAN
    BY <1>3, <1>5, <1>6 DEF PlayArrives, Tell, t
  <2>2. /\ events \o Interruption \in Seq(Events) /\ <<Started(t)>> \in Seq(Events)
        /\ Interruption \in Seq(Events)
    BY <1>3, <2>1, InterruptionFacts
  <2>3. events' = (events \o Interruption) \o <<Started(t)>>
    BY <1>3, <2>1, <2>2, ConcatAssociative
  <2>4. events' \in Seq(Events)
    BY <2>2, <2>3, ConcatProperties
  <2>5. Follows'
    BY <2>1, <2>2, <2>3, StartStep
  <2>6. device' \in Devices /\ device'.track # None
    BY <2>1, NoneIsNoTrack DEF Devices
  <2> QED
    BY <1>1, <1>2, <2>1, <2>4, <2>5, <2>6 DEF DeviceFine
<1>7. CASE PlayFails(r)
  <2>1. /\ t \in Tracks /\ device' = [track |-> t, plays |-> FALSE, next |-> None]
        /\ events' = events \o (Interruption \o <<Ending("failed")>>) /\ strayed' = TRUE
    BY <1>5, <1>7 DEF PlayFails, Tell, t
  <2>2. <<Ending("failed")>> \in Seq(Events) /\ Interruption \in Seq(Events)
    BY <1>3, InterruptionFacts DEF Endings
  <2>3. events' \in Seq(Events)
    BY <1>3, <2>1, <2>2, ConcatProperties
  <2>4. device' \in Devices /\ ~device'.plays
    BY <2>1 DEF Devices
  <2> QED
    BY <1>1, <1>2, <2>1, <2>3, <2>4 DEF DeviceFine, Follows
<1>8. CASE StopArrives(r)
  <2>1. /\ device' \in Devices /\ device'.track = device.track /\ device'.plays = FALSE
        /\ events' = events \o Interruption /\ strayed' = strayed
        /\ req[r].directive # "play"
    BY <1>3, <1>8 DEF StopArrives, Tell, Devices
  <2>2. events' \in Seq(Events)
    BY <1>3, <2>1, InterruptionFacts
  <2>3. CASE device.plays
    <3>1. events' = events \o <<Ending("stopped")>> /\ "stopped" \in Endings
      BY <1>3, <2>1, <2>3, InterruptionFacts DEF Endings
    <3>2. Coming({"play"}) => Coming({"play"})'
      BY <1>4, <2>1, StaysComing
    <3>3. Follows'
      BY <1>1, <1>3, <2>1, <3>1, <3>2, EndingStep DEF DeviceFine
    <3> QED
      BY <1>1, <1>2, <1>3, <2>1, <2>2, <3>3 DEF DeviceFine
  <2>4. CASE ~device.plays
    <3>1. events' = events /\ device'.plays = device.plays
      BY <1>3, <2>1, <2>4, InterruptionFacts
    <3>2. Coming({"play"}) => Coming({"play"})'
      BY <1>4, <2>1, StaysComing
    <3>3. Follows'
      BY <1>1, <2>1, <3>1, <3>2 DEF Follows, DeviceFine
    <3> QED
      BY <1>1, <1>2, <1>3, <2>1, <2>2, <3>3 DEF DeviceFine
  <2> QED
    BY <1>3, <2>3, <2>4
<1>9. CASE EnqueueArrives(r)
  <2>1. /\ device' \in Devices /\ device'.track = device.track /\ device'.plays = device.plays
        /\ events' = events /\ strayed' = strayed /\ req[r].directive = "enqueue"
    <3>1. req[r].directive = "enqueue" /\ t \in Tracks
      BY <1>5, <1>9 DEF EnqueueArrives
    <3>2. device' = device \/ device' = [device EXCEPT !.next = t]
      BY <1>9 DEF EnqueueArrives, t
    <3>3. device' \in Devices /\ device'.track = device.track /\ device'.plays = device.plays
      BY <1>3, <3>1, <3>2 DEF Devices
    <3> QED
      BY <1>9, <3>1, <3>3 DEF EnqueueArrives
  <2>2. /\ Coming({"play"}) => Coming({"play"})'
        /\ Coming(StopDirectives) => Coming(StopDirectives)'
    BY <1>4, <2>1, StaysComing DEF StopDirectives
  <2>3. Follows'
    BY <1>1, <2>1, <2>2, QuietStep DEF DeviceFine
  <2> QED
    BY <1>1, <1>2, <1>3, <2>1, <2>3 DEF DeviceFine
<1>10. CASE AnswerIsLost(r)
  BY <1>1, <1>2, <1>3, <1>10 DEF AnswerIsLost, DeviceFine, Follows
<1> QED
  BY <1>6, <1>7, <1>8, <1>9, <1>10 DEF Deliver

LEMMA TrackEndsDevice ==
  ASSUME IInv, DeviceFine, NEW kind \in Endings, TrackEnds(kind)
  PROVE  DeviceFine' /\ restarts' = restarts
<1>1. /\ restarts' = restarts /\ session' = session /\ file' = file /\ req' = req
      /\ strayed' = strayed /\ strayed \in BOOLEAN
  BY DEF TrackEnds, storeVars, DeviceFine
<1>2. /\ StoreTyped' /\ device \in Devices /\ events \in Seq(Events)
      /\ device.track \in Tracks \cup {None} /\ device.next \in Tracks \cup {None}
  BY <1>1 DEF DeviceFine, StoreTyped, Devices
<1>3. events \o <<Ending(kind)>> \in Seq(Events) /\ <<Ending(kind)>> \in Seq(Events)
  BY <1>2, InterruptionFacts
<1>4. CASE kind # "stopped" /\ device.next # None
  <2> DEFINE t == device.next
  <2>1. t \in Tracks
    BY <1>2, <1>4
  <2>2. /\ device' = [track |-> t, plays |-> TRUE, next |-> None]
        /\ events' = events \o <<Ending(kind), Started(t)>>
    BY <1>4 DEF TrackEnds, Tell
  <2> HIDE DEF t
  <2>3. <<Started(t)>> \in Seq(Events)
    BY <1>2, <2>1, InterruptionFacts
  <2>4. <<Ending(kind), Started(t)>> = <<Ending(kind)>> \o <<Started(t)>>
    BY PairOfSequences
  <2>5. events' = (events \o <<Ending(kind)>>) \o <<Started(t)>>
    BY <1>2, <1>3, <2>2, <2>3, <2>4, ConcatAssociative
  <2>6. events' \in Seq(Events)
    BY <1>3, <2>3, <2>5, ConcatProperties
  <2>7. Follows'
    BY <1>3, <2>1, <2>2, <2>5, StartStep
  <2>8. device' \in Devices /\ device'.track # None
    BY <2>1, <2>2, NoneIsNoTrack DEF Devices
  <2> QED
    BY <1>1, <1>2, <2>6, <2>7, <2>8 DEF DeviceFine
<1>5. CASE ~(kind # "stopped" /\ device.next # None)
  <2>1. /\ device' \in Devices /\ device'.track = device.track /\ device'.plays = FALSE
        /\ events' = events \o <<Ending(kind)>>
    BY <1>2, <1>5 DEF TrackEnds, Tell, Devices
  <2>2. Coming({"play"}) => Coming({"play"})'
    BY <1>1 DEF Coming
  <2>3. Follows'
    BY <1>1, <1>2, <2>1, <2>2, EndingStep DEF DeviceFine
  <2> QED
    BY <1>1, <1>2, <1>3, <2>1, <2>3 DEF DeviceFine
<1> QED
  BY <1>4, <1>5

LEMMA AstrayDevice ==
  ASSUME IInv, DeviceFine, NEW i \in 1..Len(events), EventGoesAstray(i)
  PROVE  DeviceFine' /\ restarts' = restarts
<1>1. /\ events \in Seq(Events) /\ events[i] \in Events /\ StoreTyped
      /\ events' = RemoveAt(events, i) /\ strayed' = TRUE /\ device' = device
      /\ restarts' = restarts
  BY DEF EventGoesAstray, DeviceFine
<1>2. SubSeq(events, 1, i-1) \in Seq(Events) /\ SubSeq(events, i+1, Len(events)) \in Seq(Events)
  BY <1>1
<1>3. events' \in Seq(Events)
  BY <1>1, <1>2, ConcatProperties DEF RemoveAt
<1>4. StoreTyped'
  <2>1. CASE update_session(Noted(events[i]))
    BY <1>1, <2>1, NotedFacts, UpdateFacts
  <2>2. CASE UNCHANGED storeVars
    BY <1>1, <2>2 DEF storeVars, StoreTyped
  <2> QED
    BY <2>1, <2>2 DEF EventGoesAstray
<1> QED
  BY <1>1, <1>3, <1>4 DEF DeviceFine, Follows

\* Requests that come in.
LEMMA ArrivalDevice ==
  ASSUME IInv, DeviceFine, NEW r \in Requests,
         (\E k \in Kinds : Receive(r, k)) \/ PlaybackNearlyFinished(r)
  PROVE  DeviceFine' /\ restarts' = restarts
<1>1. /\ OneRequest(r) /\ req[r].pc = "idle" /\ restarts' = restarts /\ UNCHANGED deviceVars
      /\ UNCHANGED storeVars \/ update_session(session)
  BY ReceiveStep, NearlyFinishedStep DEF Receive, PlaybackNearlyFinished
<1>2. StoreTyped /\ session \in SessionRecords
  BY DEF DeviceFine, StoreTyped
<1>3. StoreTyped' /\ session' = session
  BY <1>1, <1>2, UpdateFacts DEF StoreTyped, storeVars
<1>4. /\ device' = device /\ events' = events /\ strayed' = strayed
      /\ \A o \in Requests : o # r => req'[o] = req[o]
  BY <1>1 DEF deviceVars, OneRequest
<1>5. /\ Coming({"play"}) => Coming({"play"})'
      /\ Coming(StopDirectives) => Coming(StopDirectives)'
  BY <1>1, <1>4, StaysComing
<1>6. Follows'
  BY <1>3, <1>4, <1>5, QuietStep DEF DeviceFine
<1> QED
  BY <1>1, <1>3, <1>4, <1>6 DEF DeviceFine

LEMMA DeviceStep ==
  ASSUME IInv, DeviceFine, [Next]_vars
  PROVE  DeviceFine' /\ restarts' \in 0..MaxRestarts
<1>1. restarts \in 0..MaxRestarts
  BY DEF IInv, TypeOK
<1>2. CASE PlaybackEvent
  <2>1. device' = device /\ strayed' = strayed /\ restarts' = restarts
    BY <1>2 DEF PlaybackEvent
  <2> QED
    BY <1>1, <1>2, <2>1, EventStep DEF DeviceFine
<1>3. CASE Restart
  <2>1. /\ StoreTyped' /\ device' = device /\ events' = events /\ strayed' = TRUE
        /\ restarts' = restarts + 1 /\ restarts < MaxRestarts
    BY <1>3 DEF Restart, DeviceFine, StoreTyped
  <2>2. restarts' \in 0..MaxRestarts
    BY <1>1, <2>1, MaxRestartsIsNat
  <2> QED
    BY <2>1, <2>2 DEF DeviceFine, Follows
<1>4. CASE UNCHANGED vars
  <2>1. /\ session' = session /\ file' = file /\ device' = device /\ events' = events
        /\ strayed' = strayed /\ req' = req /\ restarts' = restarts
    BY <1>4 DEF vars, storeVars, deviceVars
  <2> QED
    BY <1>1, <2>1 DEF DeviceFine, StoreTyped, Follows, Coming, Starts, LastStart
<1> QED
  BY <1>1, <1>2, <1>3, <1>4, ArrivalDevice, HandleDevice, DeliverDevice, TrackEndsDevice,
     AstrayDevice DEF Next

-----------------------------------------------------------------------------
(* What holds in every reachable state *)

LEMMA InitIInv == Init => IInv
<1> SUFFICES ASSUME Init PROVE IInv
  OBVIOUS
<1>1. /\ session \in SessionRecords /\ session.current \in Tracks \cup {None}
      /\ session.state = "PLAYING" => session.current # None
  <2>1. /\ NewSession \in SessionRecords /\ NewSession.current \in Tracks \cup {None}
        /\ NewSession.state # "PLAYING"
    BY DEF NewSession, SessionRecords, PlayStates
  <2>2. ASSUME NEW q \in Queues, NEW p \in Queues \cup {None}
        PROVE  LET s == [queue |-> p, state |-> "PLAYING", current |-> FirstTrack(q)]
               IN s \in SessionRecords /\ s.current \in Tracks
    <3>1. FirstTrack(q) \in Tracks
      BY QueueLengthIsPositive DEF FirstTrack, Tracks
    <3> QED
      BY <3>1 DEF SessionRecords, PlayStates
  <2> QED
    BY <2>1, <2>2, NoneIsNoTrack DEF Init, EarlierSessions
<1>2. /\ device \in Devices /\ device.track = session.current
      /\ device.plays <=> session.state = "PLAYING"
  BY <1>1 DEF Init, Devices
<1>3. events = <<>> /\ events \in Seq(Events) /\ Len(events) = 0
  BY DEF Init
<1>4. Fresh \in RequestRecords
  BY FreshFacts
<1>5. req \in [Requests -> RequestRecords] /\ \A r \in Requests : Coherent(r) /\ NextInv(r)
  BY <1>4 DEF Init, Fresh, Coherent, Looks, NextInv, Nexts
<1>6. TypeOK
  <2>1. session \in SessionRecords /\ file \in SessionRecords
    BY <1>1 DEF Init
  <2>2. strayed \in BOOLEAN
    BY Zenon DEF Init
  <2>3. restarts \in 0..MaxRestarts
    BY MaxRestartsIsNat DEF Init
  <2> QED
    BY <1>2, <1>3, <1>5, <2>1, <2>2, <2>3 DEF TypeOK
<1>7. Follows
  BY <1>2, <1>3 DEF Follows
<1> QED
  BY <1>1, <1>2, <1>5, <1>6, <1>7 DEF IInv

LEMMA StepIInv == IInv /\ [Next]_vars => IInv'
<1> SUFFICES ASSUME IInv, [Next]_vars PROVE IInv'
  OBVIOUS
<1>1. DeviceFine
  BY DEF IInv, TypeOK, DeviceFine, StoreTyped
<1>2. DeviceFine' /\ restarts' \in 0..MaxRestarts
  BY <1>1, DeviceStep
<1> QED
  BY <1>2, RequestsStep DEF IInv, TypeOK, DeviceFine, StoreTyped

\* The inductive invariant holds in every reachable state.
THEOREM Invariance == Spec => []IInv
  BY InitIInv, StepIInv, PTL DEF Spec

\* Type correctness.
THEOREM TypeCorrect == Spec => []TypeOK
<1>1. IInv => TypeOK
  BY DEF IInv
<1> QED
  BY <1>1, Invariance, PTL

\* However requests, their answers and the device's events come in between each
\* other, the session has the device's track, and knows whether it plays, once
\* answers and events have arrived with none lost or overtaken.
THEOREM SessionsFollowTheDevice == Spec => []SessionFollowsDevice
<1>1. IInv => SessionFollowsDevice
  <2> SUFFICES ASSUME IInv, ~strayed, events = <<>>,
                      \A r \in Requests : req[r].pc # "answering"
               PROVE  /\ session.current = device.track
                      /\ session.state = "PLAYING" <=> device.plays
    BY DEF SessionFollowsDevice
  <2>1. ~Coming({"play"}) /\ ~Coming(StopDirectives)
    BY DEF Coming
  <2>2. Len(events) = 0 /\ \A i \in 1..Len(events) : ~Starts(events, i)
    OBVIOUS
  <2>3. Follows
    BY DEF IInv
  <2>4. session.current = device.track
    BY <2>1, <2>2, <2>3 DEF Follows
  <2>5. session.state = "PLAYING" <=> device.plays
    BY <2>1, <2>3 DEF Follows
  <2> QED
    BY <2>4, <2>5
<1> QED
  BY <1>1, Invariance, PTL

-----------------------------------------------------------------------------
(* A next moves on *)

\* Only Finish lets a play leave, and only the request it finishes.

-----------------------------------------------------------------------------
(* A next moves on *)

\* Only Finish lets a play leave, and only the request it finishes.
LEMMA OnlyFinishPlays ==
  ASSUME IInv, [Next]_vars, NEW r \in Requests,
         req[r].kind \in Nexts, req'[r].directive = "play"
  PROVE  Finish(r)
<1>1. /\ TypeOK /\ req[r] \in RequestRecords /\ req \in [Requests -> RequestRecords]
      /\ req[r].directive = "none" /\ req[r].pc \notin {"idle", "answering"}
  BY DEF IInv, NextInv, TypeOK
<1>2. ASSUME NEW o \in Requests, OneRequest(o) PROVE o = r
  BY <1>1, <1>2 DEF OneRequest
<1>3. ASSUME NEW o \in Requests, Respond(o) PROVE FALSE
  <2>1. OneRequest(o) /\ req'[o].directive = "none"
    BY <1>1, <1>3, RespondFacts
  <2> QED
    BY <1>2, <2>1
<1>4. ASSUME NEW o \in Requests, Handle(o) PROVE Finish(r)
  <2>1. o = r
    BY <1>2, <1>4, HandleStep
  <2>2. ~PostStop(r)
    <3> SUFFICES ASSUME PostStop(r) PROVE FALSE
      OBVIOUS
    <3>1. PICK d \in {"stop", "stopClear"} : Answer(r, d)
      BY DEF PostStop
    <3>2. req'[r].directive = d
      BY <1>1, <3>1, AnswerFacts DEF Directives
    <3> QED
      BY <3>2
  <2>3. ~PostSkip(r) /\ ~Forward(r)
    BY <1>1 DEF PostSkip, Forward, Goto, RequestRecords
  <2>4. ASSUME NEW t, NEW places, Take(r, t, places) PROVE FALSE
    <3>1. req'[r].directive = req[r].directive
      BY <1>1, <2>4 DEF Take, RequestRecords
    <3> QED
      BY <1>1, <3>1
  <2>5. ~Search(r) /\ \A place \in 0..QueueLength : ~LookupFinds(r, place)
    BY <2>4 DEF Search, LookupFinds
  <2>6. \A place \in 0..QueueLength : ~LookupGoesOn(r, place)
    BY <1>1 DEF LookupGoesOn, RequestRecords
  <2>7. ~Discover(r)
    <3> SUFFICES ASSUME Discover(r) PROVE FALSE
      OBVIOUS
    <3>1. ~Respond(r)
      BY <1>3
    <3>2. PICK q \in Queues :
            req' = [req EXCEPT ![r].lookups = AskOf(q, "current"), ![r].pc = "lastLookup"]
      BY <3>1 DEF Discover
    <3>3. req'[r].directive = req[r].directive
      BY <1>1, <3>2 DEF RequestRecords
    <3> QED
      BY <1>1, <3>3
  <2>8. ~Fail(r) /\ \A place \in 0..QueueLength : ~LookupEnds(r, place)
    BY <1>3 DEF Fail, LookupEnds
  <2> QED
    BY <1>4, <2>1, <2>2, <2>3, <2>5, <2>6, <2>7, <2>8 DEF Handle
<1>5. ASSUME NEW o \in Requests, Deliver(o) PROVE FALSE
  BY <1>3, <1>5 DEF Deliver, PlayArrives, PlayFails, StopArrives, EnqueueArrives, AnswerIsLost
<1>6. ASSUME NEW o \in Requests, (\E k \in Kinds : Receive(o, k)) \/ PlaybackNearlyFinished(o)
      PROVE  FALSE
  <2>1. o = r
    BY <1>2, <1>6, ReceiveStep, NearlyFinishedStep
  <2> QED
    BY <1>1, <1>6, <2>1 DEF Receive, PlaybackNearlyFinished
<1>7. ~Restart
  <2> SUFFICES ASSUME Restart PROVE FALSE
    OBVIOUS
  <2>1. req'[r] = [Fresh EXCEPT !.pc = "done"]
    BY <1>1 DEF Restart
  <2> QED
    BY <2>1, FreshFacts
<1>8. /\ ~(UNCHANGED vars) /\ ~PlaybackEvent
      /\ \A kind \in Endings : ~TrackEnds(kind)
      /\ \A i \in 1..Len(events) : ~EventGoesAstray(i)
  BY <1>1 DEF vars, PlaybackEvent, TrackEnds, EventGoesAstray
<1> QED
  BY <1>4, <1>5, <1>6, <1>7, <1>8 DEF Next

\* A next, by voice or by a button, plays the item after a place it found its
\* queue at, or the item there if it also found the queue at its end or empty.
THEOREM NextsMoveOn == Spec => NextMovesOn
<1>1. ASSUME IInv, [Next]_vars, NEW r \in Requests, req[r].kind \in Nexts,
             req[r].found.queue = req[r].queue, req'[r].directive = "play"
      PROVE  MovedOn(r)
  <2>1. Finish(r)
    BY <1>1, OnlyFinishPlays
  <2> QED
    BY <1>1, <2>1 DEF Finish, IInv, NextInv
<1>2. IInv /\ [Next]_vars =>
        [\A r \in Requests :
          (/\ req[r].kind \in Nexts /\ req[r].found # None
           /\ req[r].found.queue = req[r].queue /\ req'[r].directive = "play")
              => \/ req[r].found.item - 1 \in req[r].places
                 \/ /\ req[r].found.item \in req[r].places
                    /\ req[r].places \cap {0, QueueLength} # {}]_vars
  BY <1>1 DEF MovedOn, AtAnEnd
<1> QED
  BY <1>2, Invariance, PTL DEF Spec, NextMovesOn

=============================================================================
