# EchoWeave: models, checks and proofs

EchoWeave lets an Alexa device play the queue of a Music Assistant (MA) server
at home. A Cloudflare Worker is the Alexa skill's endpoint; the home's add-on
keeps a WebSocket open to a durable object of the Worker, which relays commands
to it; the audio goes back through the Worker's stream proxy. This directory
holds TLA+ models of that system, the TLC configurations that check them, and
TLAPS proofs. `PROJECT.json` lists the runs, the source lines of every
definition, the hazards and which property is about each, and the findings.

    tlc -config HomeSession.cfg MCHomeSession.tla
    tlapm HomeSessionProofs.tla

Paths below are relative to `src/`; *worker* is `services/edge-worker/src`,
*add-on* is `addons/echoweave/app`.

## Inventory

| Component | State it keeps | Operations | Talks to |
|---|---|---|---|
| Home session durable object, command relay (*worker* `durable_objects/HomeSession.ts`) | connector socket and metadata, one wake-up slot, `pending` map with timers | attach, command, status; message, close, error events | Worker routes by call, the add-on by WebSocket |
| Its playback-start watch (same file, `/playback-start`) | `playbackStarts` in memory, `playback_start:*` in durable storage | register, status, mark_fetched, mark_playback_event | alexa.ts, stream.ts, connectors.ts |
| Worker Alexa endpoint (*worker* `alexa.ts`) | D1 rows of sessions and tokens | launch, play intents, AudioPlayer events | D1, durable object |
| Worker connector routes (*worker* `connectors.ts`) | D1 rows | register, WebSocket upgrade, handoff, start poll | D1, durable object |
| Worker stream proxy (*worker* `stream.ts`) | D1 row of the home's origin | GET /v1/stream | D1, durable object, add-on |
| Directory (*worker* `provisioning.ts`, `linking.ts`, `db.ts`, `connectors.ts`) | D1: homes, users, alexa_accounts, home_connectors | admin create/update, link, bootstrap, register, auto-link, origin update | D1 |
| Worker router, rate limiter, signatures (*worker* `index.ts`, `security.ts`) | counters per isolate | routing | - |
| Add-on edge connector (`edge/client_ws.py`) | loop task, socket, `is_connected` | start, run loop, handle message, close | durable object |
| Add-on command dispatch and stream route (`edge/command_dispatch.py`, `edge/stream_router.py`) | stream URL cache, URI mapping | prepare_play, resolve_stream, GET /edge/stream | MA client |
| Add-on MA client (`ma/client.py`) | session id cache | queue, player, library calls | MA over HTTP |
| Add-on push-url callbacks (`ma/router.py`, `handoff_playback_url` of `ma/client.py`) | per-player lock and 8 s result cache, lock of each handoff, last probe | POST /ma/push-url | MA client, Worker handoff |
| Add-on skill endpoint of the legacy mode (`alexa/*.py`) | device sessions in memory and as JSON files | intents, AudioPlayer events, buttons | MA client, storage |
| Add-on lifespan, settings, web pages (`main.py`, `core`, `web`) | configuration, service registry | start-up, pages | all of the add-on |
| Legacy cloud connector and backend (`connector/*.py`, `services/cloud-backend`) | connectors and command queues in memory | register, heartbeat, poll, ack | each other |

What is hard here, and what makes each part correct:

* **Relay.** Caller, connector, timers, close events of two sockets and object
  restarts race for one `pending` entry. Every caller must be answered once;
  a late response must find nothing; the socket in use must not be one known to
  be closed.
* **Connector.** Commands and answers die with a socket; the next socket is up
  before the object hears of the old one's end. A verdict must come from a
  handler that ran, and go back on the socket its command came on.
* **Playback watch.** What a poll has seen must survive restarts.
* **Push-url.** Duplicated callbacks, a lock held across network calls, a
  time-limited cache. One start at a time; success only with proof of a fetch.
* **prepare_play.** Queues come and go between awaits, a play that timed out may
  still be carried out, and the whole resolution is tried twice. An error must
  have started nothing, an answer exactly what it names.
* **Configuration.** Options, environment, file and memory at each start; two
  pages that save across awaits; a file that tears. What was saved must stay in
  use, and the MA client must follow it.
* **Play requests and proxy.** Several D1 statements without a transaction, any
  of which fails. A URL that is out must be recorded; a refusal must be about
  expiry; the origin in D1 must follow the tunnel.
* **Directory.** Check-then-write over D1 without transactions. References must
  resolve, links stay within a tenant, connectors stay with their home.
* **Device session (legacy mode).** Intents, buttons and late AudioPlayer events
  of one device interleave over HTTP calls to MA, whose queue follows commands
  late; session files tear. The session is written before the device is told, and
  again when it tells of it: it must end up where the device is, and a skip must
  move on.
* **Stream route.** Two caches with different keys and lifetimes in front of a
  server that changes its session ids. Requests end; a stale entry must not
  keep a device from its audio for good.

## Modules

| Module | Models | Extends / instantiates |
|---|---|---|
| `CommandRelay` | what a caller of the relay is promised (abstract) | |
| `HomeSession` | the durable object's relay | instantiates `CommandRelay` |
| `HomeSessionProofs` | its theorems | extends `HomeSession`, `TLAPS` |
| `EdgeConnector` | the add-on's connector task | |
| `EdgeLink` | object and connector joined by their sockets | extends `EdgeConnector`, instantiates `HomeSession` |
| `EdgeLinkProofs` | its theorems | extends `EdgeLink`, `TLAPS`, instantiates `HomeSessionProofs` |
| `PlaybackFacts` | what a poll of the watch may rely on (abstract) | |
| `PlaybackStart` | the watch, as operators on its two variables | instantiates `PlaybackFacts` |
| `PlayerHandoff` | the media handoff to a player under its lock | |
| `PushUrl` | push-url callbacks, both branches, with handoff and watch | extends `PlaybackStart`, instantiates `PlayerHandoff` |
| `PushUrlProofs` | its theorems | extends `PushUrl`, `SequenceTheorems`, `TLAPS` |
| `PreparePlay` | prepare_play: resolution, search, enqueue, retry | |
| `Configuration` | settings from options, environment, file and pages; the MA client | |
| `ConfigurationProofs` | its theorems | extends `Configuration`, `TLAPS` |
| `WorkerPlayback` | play requests, handoffs, stream proxy with the watch | extends `PlaybackStart` |
| `WorkerPlaybackProofs` | its theorems | extends `WorkerPlayback`, `TLAPS` |
| `HomeDirectory` | the D1 directory, statement by statement | |
| `HomeDirectoryProofs` | its theorems | extends `HomeDirectory`, `TLAPS` |
| `EdgeStream` | stream route, resolve_stream and MA's sessions | |
| `EdgePlaybackProofs` | theorems of the add-on's two playback commands | extends `PreparePlay`, `EdgeStream`, `FiniteSetTheorems`, `TLAPS` |
| `SkillSession` | the legacy skill endpoint for one device, its session and file | |
| `SkillSessionProofs` | its theorems | extends `SkillSession`, `SequenceTheorems`, `TLAPS` |
| `MC*` | model values (where liveness is not checked also symmetry) for TLC | the module they name |

Mutants - operators named `<definition>_<what is wrong>` just above the
definition they spoil - are never used by a specification. Each property of a
passing run fails under at least one of them.

### CommandRelay and HomeSession

A step of `HomeSession` is one event handler up to its next await. JavaScript
runs handlers one at a time, and a durable object's input gate holds events back
while it waits for its storage; so the interleaving points of `relayCommand` are
the wait for a connector, `request.json()` and the promise of the response.
`phase[r]` is where the handler stands: `idle`, `grace` (waitForConnector),
`body` (reading the body), `relayed` (awaiting the response), `done`.
`conn[c]` is a socket as the object sees it: `lost` means closed but not heard of
yet. `attachConnector` replaces the socket in use and wakes the request in the
slot; `onClose`, the listener of "close" and "error", forgets the socket in use
whichever socket the event is of. `Restart` is an eviction.

`CommandRelay` says what matters to a caller: one answer, at most one hand-over,
verdicts of the connector only after a hand-over, local refusals only without.
`HomeSession` implements it with status from `phase`, handedOver from `sentOn`
and reply from `answer`.

* `home_session` (`HomeSession.cfg`) - three sockets and two requests: the
  invariants, that every accepted request is answered, and
  `ImplementsRelay` with its fairness. Three sockets give a replaced one, its
  replacement and one after it, so that a close event can be late by one and by
  two; of two requests one can take the other's wake-up slot or id away.
  (`TypeOK`, `AwaitedCommandsExpire`, `PendingIsUnanswered`, `NoStaleSocket`,
  `EveryRequestAnswered`, `ImplementsRelay`.)
* `home_session_offline` - refuted: the change log has the relay wait up to 5 s
  for a reconnect before it answers 503, but the late close event of the
  replaced socket takes the new one offline, and a 503 is given while the
  socket is open (`OfflineOnlyWithoutConnector`).

The same models show two more things that no run keeps. The wake-up slot holds
one request: if a second one waits too, the first sleeps its full 5 s although
a connector attaches, then finds it. And when a late close event has made the object
forget its open socket, the link stays up at both ends and unused until one of
them closes it, since neither side has a reason to reconnect.

Fairness: timers fire and bodies arrive. Nothing is assumed of the connector or
the network.

### EdgeConnector and EdgeLink

`EdgeConnector` is the one task of `EdgeConnectorWSClient`: connect, handle
messages one by one, back off. A clean close ends the receive loop without the
except branch, so `is_connected` and `_socket` keep their values
(`ConnectionEnded`). `EdgeLink` joins it with `HomeSession`: commands travel in
order on the socket they were sent on, responses too, and what is on the way
when a socket ends may be lost. The guard `sentOn[r] = c` that `HomeSession` puts
on a response is justified by `RepliesReturnOnTheirSocket` here.

* `edge_link` (`EdgeLink.cfg`) - replies return on their socket, and a command that reached a served
  socket is run unless the socket is given up. Two sockets - one that ends with
  messages on it, and its successor - and two commands. Fair: the task takes the
  next message and handlers end (their calls to MA have timeouts).
  (`LinkTypeOK`, `RepliesReturnOnTheirSocket`, `ReceivedCommandsRun`.)

### PlaybackStart, PlayerHandoff and PushUrl

`PlaybackStart` keeps a record per playback session in memory and in storage;
reads fall back to storage and fill memory. Of the timestamps only those the
status poll goes by are kept, as flags (`playback_failed` is not read by it).
To its readers this is a table of facts: `PlaybackFacts` has three growing sets
of sessions, tracked, fetched and started, and `PlaybackStart` implements it
(`ImplementsFacts`) within each module that extends it, because there a session
is registered once.

`PushUrl` models `ma_push_url` for one player, which is an Alexa device or not.
For an Alexa device a callback without a request id wakes the skill and waits for a new probe, then takes the
player's lock, reuses or coalesces with a cached result, or hands off, polls the
watch, reads the player back and caches the outcome. The 5 s of polling, the 8 s
of the cache, the 6 s wait for a probe and the age of a probe are not counted:
each deadline can pass at any time. A session that a handoff created although
its answer got lost is known to nobody and has no action.

The stream URL of a handoff is a local variable of the callback until its 200
answer, and that answer waits for the URL to be fetched. Nothing in the
repository hands the URL on before; the model lets the device have it by another
route (`UrlIsOut`), and if there is none, no callback can succeed: the wait of
`router.py:1077` then always runs into its deadline.

* `push_url` (`PushUrl.cfg`) - one attempt at a time, success is proven by the
  watch, a media handoff reported as sent has its own URL playing, a fresh
  success is reused, every callback is answered, and the watch implements
  `PlaybackFacts`, restarts of the object included.
  Two callbacks - an attempt and a duplicate that waits for its lock or comes
  after it - each with a session of its own, one probe, and one form of play_media
  tried before the two ways to resume. Fair: every
  await of the handler ends (HTTP calls have timeouts, waits have deadlines,
  asyncio.Lock is first come, first served). (`TypeOK`, `OneAttemptAtATime`,
  `SuccessIsProven`, `SentUrlPlays`, `FreshSuccessIsReused`,
  `EveryCallbackAnswered`, `ImplementsFacts`.)

A callback for any other player goes to `PlayerHandoff`: one lock per player that
a second handoff does not wait for but is turned away from, then media commands
in several forms, each possibly followed by a play command, until one is taken;
after a failure the URL's public form is tried once more. In the model a URL
that MA has loaded and is told to play, plays: a command MA carries out takes
effect before the caller stops waiting for it (`SentUrlPlays` rests on this).
The Worker session that the direct branch may ask for first is left out.

An exception in the read-back leaves the cache entry saying "running", so that
for 8 s duplicates are told of an attempt that no longer runs.

### WorkerPlayback

Each play request, by voice or as a handoff, takes its D1 statements one by one:
session, token, link, then (handoff) the registration with the watch, then the
answer. Each statement may fail, and so may the calls of the object, in a world where
`fails` holds; which world it is, is chosen at the start.
The reply of `prepare_play` or `resolve_stream` is any that `CommandRelay` allows.
`Sessions` stands for requests, playback sessions and tokens at once, because
each request makes its own fresh ones. A token's claims expire by whole seconds
and its row by milliseconds, hence the age `lastSecond`. Alexa's 8 s deadline is
`UrlArrives` not happening.

* `worker_playback` (`WorkerPlayback.cfg`) - URLs that are out are recorded on
  every path, refusals are about expiry, fetches stay on record, and a stream that learned the origin after the
  tunnel's last move uses it. Where nothing fails, D1's origin also follows the
  tunnel (liveness; a D1 that always fails can follow nothing). One play request of
  either kind, two overlapping streams of its URL, one move of the tunnel: a
  second request shares no row with the first, a second stream is what a first
  can overtake. Fair: the calls of each stream are answered. (`TypeOK`,
  `UrlsAreRecorded`, `RefusedOnlyWhenExpired`, `FetchesAreOnRecord`,
  `StreamsFollowTheTunnel`, `OriginConverges`.)

### HomeDirectory

A step is one D1 statement; the statements of the requests in flight interleave,
since D1 gives no transaction around a request. `op`, `at`, `seen` are a
request's body, its next statement and what it has read and still goes by.
Request slots are reused, so any number of requests is made. D1 enforces the
schema's foreign keys except for `homes.connector_id`, which has none; a
registration for an unknown home runs into them.

* `directory` (`HomeDirectory.cfg`) - two concurrent requests over two tenants:
  every reference resolves, a link changes only by the operations that may change
  it, and a row moves to another owner only by a request that was overtaken
  (`TypeOK`, `ReferencesResolve`, `LinksChangeByLinking`, `RowsKeepTheirOwner`).
* `directory_serial` (`HomeDirectorySerial.cfg`) - one request at a time, so that
  none is overtaken, but two tenants, homes and origins and every history of
  requests, whole or broken off: tenants of homes and links never change,
  connectors stay bound, links stay within a tenant (`LinksStayInOneTenant`,
  `RowsKeepTheirOwner`).
* `directory_remap` - refuted: `docs/WORKER_ONBOARDING.md` has cross-tenant
  remaps rejected, but check and upsert are separate statements
  (`LinksKeepTheirTenant`).

`overtaken` is a history variable. A request reads owners - its home's tenant, the
tenant of the link it is to replace, the home its connector is bound to - and goes
by them statements later (`Checked`); it is overtaken when a step of another
request changes one of them in between. The owner properties allow a change of
hands to an overtaken request only, and to its own statements only: they say that
each check holds against everything but a change of what it read. The
refuted run shows that such a change is possible.

The model shows more that no run keeps. A registration with an
`origin_base_url` for an unknown home fails: its connector row comes first and
refers to the home (`connectors.test.ts:7` has it create the home, on a database
without foreign keys). Two concurrent registrations take a home over from each
other's tenant (the check is a statement of its own). A home update merges with a
row it read before, and can take back an origin the stream proxy wrote
meanwhile. And db.ts falls back to a default
home for an unlinked Alexa user, which the docs deny.

Two tenants and two homes are what a conflict needs; a third adds no new kind.
Left out: secrets and hashes, `connector_bootstraps` (written, never read),
`is_active` (never cleared), deletion (there is none).

### EdgeStream

Requests of devices and resolve_stream commands share two caches: stream URLs
per queue id (300 s) and MA session ids per queue (600 s). MA refuses a session
id other than its current one, checks nothing while it has none, and serves
nothing before the item is resolved. What a lookup meets is `finds`, which
changes at any time (`MAWavers`): auto-discovery finds the item's queue, another
player's queue (no session helps there: `Elsewhere`), or every call fails. Then a
lookup may raise (`LookupRaises`: a 404, or within the backoff the next attempt),
the players list may be missing (`PlayersFail`: a placeholder in the URL), and a
fetch may fail of a URL MA would serve (`FetchFails`). The candidate URLs of one
attempt are folded into served, served in another format (`kept` for ffmpeg) or
failed; direct URLs from streamdetails, the URI mapping of synthetic items and
the cleanup of the transcode pipe are left out. `_RETRY_DELAYS` has 5 entries; one
retry (`Retries`) already runs the loop with what comes before and after it.
ffmpeg is assumed to be installed.

* `edge_stream` (`EdgeStream.cfg`) - every request ends; and once MA is settled a
  device that keeps asking keeps getting audio, although no cache entry need
  ever expire. Two requests, two MA sessions, one restart, one retry. Fair:
  fetches, MA calls and sleeps end. (`StreamTypeOK`, `EveryRequestEnds`,
  `SettledStreamsPlay`.)

The run's requests come with the id of the item's queue. A request may also come
with a logical id (another member of `Keys`); what it resolved is then cached
under two ids, the stream URL under its own and the session id under the
discovered queue's, and when its candidates fail both caches are invalidated
under its own (`stream_router.py:466`): the session id stays, and its retries are
led to the refused URL again until the entry expires. So "the 404 may be caused by
a stale or missing session_id in the stream URL" (`stream_router.py:463`) is acted
upon for the queue's own id only. `SettledStreamsPlay` and the theorem
`RefusalsForgetAll` name that condition; with both kinds of ids the model is beyond
what TLC checks for liveness in reasonable time, and no run has it.

### PreparePlay

A step is the code of `prepare_play` from one await on MA to the next; between
them queues appear, go and change, also by plays of earlier commands, which MA
runs in the background. `stage` is where an item is looked for - the query, the
current and next item of the wanted queue, the same of a discovered queue, what
a player shows as playing - and `at` the await. A missing queue (404) is looked
for once; an error of the client's class makes the command try once more without
its queue; any other exception ends it. A found item is posted in up to two
forms until MA takes one; a failed post may have been taken all the same. The
four media types are counted, the forms of a search request are not; an item is
named by the track it plays.

* `prepare_play` (`PreparePlay.cfg`) - a command answered with an error has
  started nothing, and whatever one may have started is one track in the queue
  it answers. Two queues, the wanted and another, two tracks, one
  command (nothing it leaves behind is read by a later one here). (`TypeOK`,
  `ErrorsStartNothing`, `StartedAsAnswered`.)

The model shows, and no run keeps: after a play is taken, the queue is read at
once although MA plays in the background; if it does not hold the item yet, the
queue's last item is answered (`client.py:716`), and the URI asked for is kept
under that item's id (`command_dispatch.py:149`), where "Store the original
provider URI for a synthetic queue item" (`stream_router.py:147`) has it for
made-up items only. A query plays in the queue discovered last, not the wanted
one. An item is answered although none of its forms was taken. A form that timed
out may play, and the next one then plays the same track again. In
`resolve_stream`, `cache_stream_url` is called without being imported; the
surrounding except hides the NameError.

### Configuration

`options`, `env`, `file` and `settings` give each field a value or the empty
string; two fields - the MA URL, by which the registered client is known, and
another - and two values. A start computes the effective settings and rewrites
config.json if it differs (`Start`); between starts, options and environment
change at will. `/setup/save` waits for the old client to close between saving
and registering the new one; `/config/update` saves single fields. Any write
may fail or tear the file, and a start-up then finds what survived. `saved` is
what the user was told is saved and nothing since has overridden.

* `configuration` (`Configuration.cfg`) - saved values stay in use over saves,
  failures and restarts, and the registered client is that of the settings once
  the saves under way are through. Two concurrent saves, one other page. (`TypeOK`,
  `SavedValuesStayInUse`, `ClientFollowsSettings`.)

The model shows, and no run keeps: "precedence addon > env > persisted > default"
(`config_service.py:73`) fails for a field that options.json has empty and the
environment sets - the field is labelled "environment" and keeps the empty
string (`settings.py:312`), which is the case `run.sh:86` exports the URL of a
Quick Tunnel for. Clearing a field brings its persisted value back at the
next `/config/update`. A save or the start-up repair, cut short, loses the whole
config.json. The edge command handler keeps the client of the start after
`/setup/save` has replaced it. Validation, source labels and the mode's choice of
routers are left out.

### SkillSession

One device of the legacy mode (the router is mounted only outside edge mode).
Sixteen kinds of requests share the awaits of their handlers: the command to MA
(`PostSkip`, `PostStop`), the items asked for in turn (`LookupsFor`),
auto-discovery, the play command (`Forward`). A found track is recorded after the
awaits, over whatever the session has become, and before the answer leaves
(`Finish`). The answer then is on its way until the device has it (`PlayArrives`,
`PlayFails`, `StopArrives`, `EnqueueArrives`) or it is lost (`AnswerIsLost`). The
device plays, goes on to what was enqueued, is stopped by hand (`TrackEnds`) and
tells of it in events, which arrive one by one (`PlaybackEvent`), or get lost or
overtake each other (`EventGoesAstray`). Saving may fail or tear the file; `file`
is what the next start would read from it.

MA's queues have no variable: a lookup may find a queue at any place or empty.
That allows commands followed at once, late or never, searches that play or
enqueue in MA, and everything others do to a queue.
Tokens are records of queue and item. `previous_track_token`,
`expected_next_token` and times are written and never read; the writes are steps
all the same, since each rewrites the file.

* `skill_session` (`SkillSession.cfg`) - once answers and events have arrived, the
  session has the device's track and knows whether it plays, however they
  were interleaved; a next plays the item after a place it found its queue at,
  or, if it found the queue at its end or empty, the item of one of those places.
  Two requests around each other, on an unknown device or one that plays
  a first track, two queues of two tracks, each empty or at any place at each
  lookup, two events on their way, one restart. The requests are interchangeable
  (symmetry; no liveness here). (`TypeOK`, `SessionFollowsDevice`, `NextMovesOn`.)

`SessionFollowsDevice` says nothing after an answer or an event was lost, an event
overtook another, a play failed to start or the add-on restarted (`strayed`), until a
play arrives at the device with no event outstanding. That much is needed: nothing in
the code asks the device what it does, and events carry no order that the
handlers look at. A session that is paused while the device plays on, or names a
track the device never got, because the answer came too late, is what the code
then has; TLC shows it in four states when `AnswerIsLost` leaves `strayed` alone.

The exception of `NextMovesOn` is needed. At the end of the queue a next has no next item and asks
for the current one; a "previous" that takes effect between the two questions
makes the answer an item behind the one that was playing. That a next always
lands past some earlier place or on the last item is therefore false.

The model shows, and no document denies: a next may skip two tracks when
MA is quick (it posts "next", then asks for the item after the current one; the
property holds of it, as the place it found was the skipped track's);
nothing moves MA's queue on when the device goes to an enqueued track
(`_sync_state_to_ma` has no caller), so the same track is enqueued again;
buttons do not record the queue of a track they started; and the play button
tells MA to play the queue it first asked, not the one it found a track in.

## What is proved

`HomeSessionProofs` proves, for any sets of sockets and requests, from the one
assumption that `None` is no socket and no request:

* `TypeCorrect`, `NoCallerForgotten`, `LateResponsesFindNothing`,
  `SocketInUseIsNotClosed`: the invariants of the run `home_session`; and
  `AnswersAreHonest`, on verdicts, and `SlotIsFresh`, on the wake-up slot.
* `RelayRefinement`: the safety part of `ImplementsRelay`.

The inductive invariant `IInv` is the conjunction of all six, and no part is
inductive alone: that a timer hits only a waiting caller
(`PendingIsUnanswered`) needs that timers and entries agree
(`AwaitedCommandsExpire`), that a waiting caller's command was sent
(`AnswersMatchDispatch`) needs the state of the socket (`NoStaleSocket`), and
that the slot's request is in `grace` (`SlotHoldsAWaiter`) is what makes an
attach safe. `Invariance` has one lemma per conjunct, each with one step per
action. For the refinement every action is shown to be a step of `CommandRelay`
or to stutter: the only handing over is `DispatchCommand` on a live socket, and
close, error and restart answer sets of requests at once, which is why `Answer`
takes a set.

`ConfigurationProofs` proves the type invariant and both properties of
`Configuration`, for any fields, values and concurrent saves, from: the empty
string is no value, the MA URL is a field, and "no file" is no configuration. That
saved values are in use is not inductive, since while the add-on is down only the
file has them; `OnRecord` says that the file always does.

`EdgePlaybackProofs` has two parts, which share no variable. Of `PreparePlay` it
proves the type invariant, `ErrorsStartNothing` and
`StartedAsAnswered`, for any queues and tracks, from: the bound is a number and
an outcome (`None`, `Failure`) is no answer. The properties speak of finished
commands; inductive is that up to "enqueue" nothing was started (`Quiet`), and
from then to the answer at most the found track in the effective queue
(`Starting`). Errors can be raised only where `Quiet` holds, which is why the
second try is safe. `RaisedInv`, `AnsweredInv`, `NoItemInv` and `GoesOnInv` treat
the four ways an action can end; each action has a lemma that cites them.

Of `EdgeStream` it proves, for any requests, queue ids, sessions, restarts and
retries, from: the bounds are numbers, `Nil` is no queue id and no number, and
`Elsewhere` neither:

* `StreamTypeCorrect`, a part of which is that nothing is fetched without a URL;
* `RefusalsForgetAll`: a request with the id of the item's queue leaves, when all
  its candidates fail, no session id cached at all, whatever ids the requests
  around it come with;
* `RequestsAreBounded`: a request has at most `6 * (Retries + 1)` steps left
  (`StepsLeft`), each step of its handler takes at least one away and nothing
  gives any back but a new request. That is `EveryRequestEnds` without the
  fairness that has the handler go on.

What makes these inductive is `OneQueueCached`: session ids are cached under the
item's queue only, so one invalidation under its id forgets them all.

`EdgeLinkProofs` proves, for any sockets and commands, from the one assumption
that `None` is neither: types, `RepliesReturnOnTheirSocket`, and that the link
implements `HomeSession` and with it the safety part of `CommandRelay`. The
object's own `IInv` is preserved in the link because every step of the link is a
step of the object or leaves it alone (`ObjectStep`), so its lemmas are cited,
not proved again. To that come `ConnectorInv` - the command being handled came on
the socket in use, and the loop runs - and `WireInv` - what is on a socket belongs
to commands sent on it. The two need each other: a reply gets its socket from
the connector, a command from the wire.

`WorkerPlaybackProofs` proves the type invariant, `UrlsAreRecorded`,
`FetchesAreOnRecord`, `StreamsFollowTheTunnel` and `RefusedOnlyWhenExpired`, for
any requests, streams, origins and moves, from: `None` is no record, no flag and
no origin, and there is an origin. `PlayInv` says what is written at each step of
a play request, the order being session, token, link, registration, answer, URL;
`StreamInv` that a stream goes by a URL that was out; `WatchInv` that a session
is registered before its URL is out, which is why a registration never
overwrites a fetch; `TunnelInv` that a stream that resolved after the last move has
the tunnel's address as its target. `WatchImplementsFacts` is proved here too:
the Worker's own requests, with their failures, are a second environment of the
same watch, and only its freshness invariant differs (`Recorded`).

`HomeDirectoryProofs` proves for any tables and any number of interleaved
requests the type invariant, `ReferencesResolve` and `LinksChangeByLinking`. No row
is ever deleted, so what a request found to exist still does (`Ready`) even
if it says something else by now; that is all the inductive invariant has
beside the references. `LinksStayInOneTenant` and `RowsKeepTheirOwner` are
proved of the same interleavings: a request that was not overtaken still finds
what it has checked when it writes (`ChecksHold`), and such a write keeps owners
(`OwnersStay`), whatever the others do to the rows it did not check.
Assumed of the constants: users of Alexa are users, and `None` is no value and no
row.

`PushUrlProofs` proves the type invariant, `OneAttemptAtATime`,
`SuccessIsProven`, `SentUrlPlays`, `FreshSuccessIsReused` and, of the watch,
`WatchFactsGrow` and `ImplementsFacts`, for any callbacks, sessions, probes and media attempts, from:
`None` is no callback, session, record or URL, and the bounds are numbers. A
callback past the lock is at its head, and nobody is in it twice (`LockInv`, which
is about `asyncio.Lock` handing over in order); so a running attempt owns the
cache entry, and a cached success or an imminent one has a start on record
(`AttemptInv`). That it stays there needs that memory repeats storage
(`Coherent`) and that a session that is registered has nothing on record yet,
since only a URL that is out is fetched (`SessionInv`). `DirectInv` follows the
player's handoff lock: nobody else loads a URL while it is held. For
`ImplementsFacts` every step is shown to write one stored record as the watch may
(`RecordStep`) or none; since memory is coherent, the facts are those of storage,
and loads and restarts are stutters. A registration is a step of the table only
if the session is not tracked yet (`Answered`: it has nothing stored before
its handoff is accepted).

Two more results say of a callback, without fairness, what a run cannot for more
than three of them. `LocksAreLeft`: who is in the player's lock or holds the
handoff lock is at a place in the code where it must be, so every way out of
`ma_push_url` and `handoff_playback_url` - cached answers, refusals, exceptions,
attempts used up - has left both, and nobody loses its place in the queue
(`UsersInv`, the converse of `LockInv`). `CallbacksAreBounded`: a callback takes at
most 4 * `MediaAttempts` + 19 steps of its own. `StepsLeft` adds up, for the place a
callback is at, the longest way to its answer; in a handoff that is the attempts
left, two steps each, and the whole second URL while the first is tried. Each
step of `Handle` lowers it, no other step of anybody raises it, and it stays within
its bound because no handoff begins with more than `MediaAttempts` + 2 attempts
(`Short`). Both were checked as properties of the component's run first.

`SkillSessionProofs` proves the type invariant, `SessionFollowsDevice` and
`NextMovesOn`, for any requests, queues, queue lengths, events on their way and
restarts, from: `None` is no queue and no track, a queue has a track, the
configured queue is a queue or not set, the bounds are numbers. `Coherent` says what a handler
holds at each await and an answer on its way. `Follows` is what `SessionFollowsDevice`
needs while things are on their way: the last event tells where the device is
by now, the last start among them has its track, and without a start on its way the
session has that track already, unless a play was recorded that has yet to arrive.
The two halves of "knows whether it plays" need different answers to be through:
one still to play may have the session ahead, one still to stop may have it
behind. `NextInv` follows a next through its lookups: it has both to try, or it
has found the queue at its end or empty.

Each `IInv` was first checked as an invariant of the component's run.

Only model-checked:

* liveness under fairness (`EveryRequestAnswered`, `ReceivedCommandsRun`,
  `EveryCallbackAnswered`, `OriginConverges`, `EveryRequestEnds`,
  `SettledStreamsPlay`), and with it the fairness part of `ImplementsRelay`: the
  proof system has no `ENABLED`, on which fairness rests. Of `EveryRequestEnds` and
  `EveryCallbackAnswered` the bounds are proved (`RequestsAreBounded`,
  `CallbacksAreBounded`), of the latter also that no lock is left behind
  (`LocksAreLeft`); what is left to the runs is that a step is always possible.

## Plan

Done: the relay with its abstraction, its composition with the connector; watch,
push-url with the media handoff, play requests and proxy; directory; stream
route; the device session; prepare_play and the configuration; proofs of the
safety properties of all of them.

1. An abstract device session (the device's track, moved by answers and events)
   that `SkillSession` implements while nothing goes astray; the logical queue ids of
   `EdgeStream` as a module of its own, small enough for liveness.
2. An abstract directory (each request one atomic step) that the serial
   directory implements.
3. `PreparePlay` as the handler of `EdgeLink`, and its URI mapping read by
   `EdgeStream`.

## Not modelled

The cloud backend and its connector (deprecated; its webhook refuses
play intents before the only place that fills the command queue, so the queue
is always empty), rate limiting and signatures (synchronous functions that unit
tests reach), the pages that only show, diagnostics and skill packaging
(sequential, no state of their own), and the pipe to ffmpeg with its cleanup.
