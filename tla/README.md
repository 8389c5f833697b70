# HVAC-FDD Pro: specifications and proofs

HVAC-FDD Pro collects telemetry of heating and cooling plants, scores it against
baselines and classifiers, raises alerts, writes reports and answers questions
in a chat. This directory holds TLA+ models of its core logic, the TLC
configurations that check them on small instances, and theorems about them that
TLAPS proves for every value of their constants.

    tlc -workers 2 -config IngestionRaces.cfg MCTelemetryIngestion
    tlapm TelemetryIngestionProofs.tla

`PROJECT.json` is the index: components, runs, the source lines each definition
stands for, findings, hazards, theorems, and for each property a mutant (a
definition named `Slip...`, a plausible mistake) that breaks it.

## 1. The system

Six FastAPI services with a PostgreSQL database each (no foreign key and no
transaction crosses two services), an MQTT broker, a Next.js frontend, and an
offline ML package. They talk over HTTP.

| Component | State it keeps | Operations that change it | What makes it hard | What makes it correct |
|---|---|---|---|---|
| telemetry-service, ingestion and mapping (`routers/telemetry.py`, `mqtt/subscriber.py`) | `telemetry_readings`, `metric_mappings` | ingest one, a batch, a CSV file, an MQTT message; create a mapping and backfill it | two writers, the event loop and paho's thread; lookups that are stale at the insert; QoS 1 and retries deliver twice; process restarts | a key is stored once; what was answered is stored; a call is stored whole or not at all; a metric is set once, from a mapping of the point |
| telemetry-service, devices and keys | `edge_devices`, `ingestion_keys` | register a device, issue a key | nothing | hashes are unique |
| ml-service, baselines (`routers/baselines.py`) | `asset_baselines` | fit (replaces the row after several awaits), score | fits that overlap; a refit during a score; degenerate spreads | one baseline per series |
| ml-service, scheduler (`scheduler.py`) | the position of its run | every interval: login, list, score each series, check, post | requests that fail, time out, or are served late; users act between check and post; restarts | an asset has one open alert; a deviation that lasts gets one; one bad series does not stop the others |
| notification-service, alerts (`routers/alerts.py`) | `alerts` | create, list, acknowledge, resolve | touches in any order, on any status | nothing opens again |
| notification-service, reports (`routers/reports.py`, `services/`) | none of its own: it counts `alerts` and asks its siblings | generate a report for a period | three awaits while assets, alerts and readings are added and the day ends; a sibling that does not answer counts as zero | periods neither overlap nor leave gaps; a closed period is reported the same for ever; every report ends |
| telemetry-service, reading queries (`list_readings`, `get_telemetry_volume`) and the joins ml-service makes of them | none | list, count | series fetched one after the other, each cut at 500 readings, while readings and backfills arrive | moments all series have are joined, and the newest is scored |
| ml-service, predictions (`routers/predictions.py`, `inference.py`) | `predictions`, a cache of loaded models | predict, compare classifiers | threads that load one model; a classifier that fails among several | a classifier's answer is recorded once; one that fails does not hide the others |
| asset-service (`routers/`, `core/deps.py`, `db/session.py`) | facilities, asset types with their metrics, assets; the pool of connections | create, add a metric, list | async handlers that hold a pooled connection while they await auth-service | rows are made by members; added metrics have new names; a type is stored whole; every request ends |
| auth-service (`routers/`, `core/deps.py`) | users, organizations, memberships | sign up, log in, refresh, create an organization, invite | synchronous handlers on a thread pool: check, then insert | one account per address; every organization has an administrator; nobody gets in but through one |
| copilot-service, chat (`routers/chat.py`, `history.py`, `tools/executors.py`) and its panel | conversations, messages; what the panel shows | a turn: history, tool loop, answer; a retry | two turns of a conversation overlap; a turn that fails half way; an answer that is lost | an answer follows its question; the panel continues the conversation it shows; the tool loop ends |
| copilot-service, retrieval | a vector store | index, search | text processing | |
| frontend, session (`lib/api-client.ts`, `lib/auth`) | the token pair of every tab and of the storage they share, the refresh in flight, who is signed in | request, refresh on 401, load a page, log in, log out | many requests share a refresh; logout and login during it; other tabs | what is shown and sent belongs to who is signed in; every call ends |
| frontend pages, ML training, deployment | | | rendering, numerics, configuration | |

Interactions: gateways and browsers call telemetry-service (HTTP or MQTT);
ml-service reads telemetry over HTTP, with the user's token or that of a service
account; the scheduler thread calls ml-service's own `score_baseline` and
notification-service; every service asks auth-service for the caller's
organizations; copilot-service calls the others as tools.

Two models of concurrency recur. A handler declared `async def` runs on the
event loop and is interrupted at its awaits only, so its database code, which is
synchronous, is one uninterrupted piece with respect to other async handlers of
the same process. A handler declared `def` runs on a thread of a pool and is
interrupted anywhere. Threads beside these: paho's in telemetry-service, the
scheduler's in ml-service. Every service runs as one process
(`docker-compose.yml`).

## 2. Modules

    ReadingLedger            what telemetry-service promises of its database
      ^ implemented by
    TelemetryIngestion       its handlers, threads, transactions, restarts
    AlertPipeline            baselines, scheduler and alerts, across services
    FaultAttribution         predictions, the model cache, the verdict
    OrganizationRoles        what auth-service promises the other services
      ^ implemented by
    Accounts                 its handlers, query by query, on threads
      ^ used by
    AssetCatalog             asset-service's handlers, around their await of
                             auth-service, and their pool of connections
    FacilityReport           a report, composed from three services
    SeriesJoin               how series are fetched, joined and scored
    CopilotChat              the chat handler, its memory, its panel
    BrowserSession           tokens and their refresh, in several tabs

Each component has an instance for TLC, `MC...`, and its theorems in a module
`...Proofs`; those about the two readers of what others store, `SeriesJoin` and
`FacilityReport`, are together in `ReadersProofs`, which extends both (hence the
names `SeriesInit`, `SeriesNext` and `SeriesSpec`).

### TelemetryIngestion

| Model | Code |
|---|---|
| `readings`, `mappings` | committed rows of the two tables; in `readings` the model adds the call that wrote the row |
| `Threads` | `"loop"`: the event loop, on which the HTTP handlers run; `"mqtt"`: paho's thread. One handler at a time on each: the HTTP handlers never await between their first query and their commit |
| `pc`, `call`, `todo`, `existing`, `staged`, `inserted` | local state of the handler on a thread: the items its loop has still to see, `existing_keys`, the rows added to the session, the rows flushed to PostgreSQL |
| `change`, `marked` | the mapping being created, and the rows its UPDATE matched |
| `calls`, `crashes` | history: what was sent, on what channel, what was answered |

A reading is a point (asset and external key) and a content (value and time).
The content key is a SHA-256 of both, here the pair itself, so it is injective
as the code assumes. A caller's key is never the hash of a reading
(`NamesAssumption`); it may be repeated with another content, and the runs do so.

The code's order is kept: one `SELECT` of the existing keys, then the loop over
the items with a mapping lookup each, then the flush row by row, then the commit.
`InsertRow`'s guard is PostgreSQL's: an insert into a unique index waits while
another transaction holds the key uncommitted, and fails when the key is
committed. Of two transactions that wait for each other the deadlock detector
aborts one. These, the one-handler-at-a-time rule and the restart are the
model's externals. The session has `autoflush=False`, so nothing is inserted
before the flush. The single-reading handler is a batch of one.

Authentication comes first everywhere and is left out: a rejected HTTP call
changes nothing; a rejected message is `DropMessage`, as is one that is not JSON
or holds no valid reading. `alien` marks an entry no handler expects (a CSV row
with more cells than the header, an MQTT reading that is no object), whose
exception nothing catches.

`ReadingLedger` is the abstraction: readings and mappings only, changed by two
atomic actions, `Accept` (one call's new rows, all with fresh keys) and `Map` (a
mapping, and rows of its point without a metric get it). `ImplementsLedger` says
that every step of the threads is one of these or changes neither table; the
variables have the same names, so the refinement mapping is the identity.

### AlertPipeline

| Model | Code |
|---|---|
| `level` | the latest reading of each series, or `Gap` when telemetry cannot be fetched or joined |
| `baselines`, `fits`, `fitted` | rows of `asset_baselines`; fits that computed and have yet to store |
| `alerts` | rows of `alerts`, oldest first |
| `pc`, `queue`, `held`, `score` | the scheduler's run: where it is, which series are left, the baseline it read, the deviation it found |
| `late` | POSTs that timed out at the client and that the server has yet to read |
| `budget` | how often the environment may still act |

A reading lies 0, 1 or 2 levels from the mean: no deviation, beyond `k_std`
standard deviations, beyond twice that (critical). The standard deviation is
sound, NaN (one reference row: every comparison is false) or zero (a perfect
fit: the division raises, and the run goes on); in the latter two cases the
series never alarms. `fit_baseline` is cut at its last await; the lookup, delete
and insert after it run without interruption. `score_baseline` reads the row,
awaits telemetry, and scores against the row it read. The check and the POST are
separate steps, between which users touch alerts, fit and restart.

### FaultAttribution

| Model | Code |
|---|---|
| `Kind`, `Names` | what a request is: `GET /predictions/{asset_id}`, its `/explain` or its `/attribute`, and the model names it asks for |
| `pc`, `at`, `stage` | the await or the thread's statement a request is at, the position of its loop, and whether `load_model` is called for the metrics or to score |
| `cache`, `lock` | `_model_cache` (per model a model and the metadata read with it) and `_model_cache_lock` |
| `disk` | the versions of a model's two files: `_save_model` writes one, then the other |
| `pair`, `buffer` | what `load_model` returned last; the pair whose metadata the telemetry was fetched for |
| `predictions`, `results`, `skipped`, `winner` | committed rows; `all_results`, `skipped` and the verdict of `attribute_fault` |
| `loads`, `restarts` | history |
| `overlapped` | history, per model: it was being saved while this process loaded it |

One action is what happens between two awaits of a handler, or one statement
of `load_model` on a thread of the pool. A step that fails is one of two kinds:
an `HTTPException` (`Refuse`: the attribution skips the model, the other
endpoints answer with it) or any other exception (`LoadFails`, `ScoreFails`: the
request ends with a 500). A classifier's score is a probability on a scale
`0..Certain`; its label is 1 above `EvenOdds`, which is what the forests and
boosted trees saved by `train_final_models.py` predict. A detector has no
probability. Names that do not match the pattern are refused before anything
happens and are left out, as is authentication.

### OrganizationRoles and Accounts

| Model | Code |
|---|---|
| `users`, `organizations`, `memberships` | committed rows of the three tables; `id` and `by` add the request that made the row and its caller |
| `request[n].step` | the query a handler is at: what it has found out so far and acts on later |

One action is one query: handlers are plain functions that FastAPI runs on a
pool of threads, so that between any two queries of one all others may commit.
An insert and its commit are one action, since nobody sees the row before;
`create_organization` flushes two rows and commits once. The unique index on
`email` is in the guard of `InsertUser`; `memberships` has no unique constraint,
and two invitations at once do give a user two roles.

`OrganizationRoles` is the abstraction: of every user and organization the set
of roles, changed by `Found` and `Add`. `ImplementsRoles` maps the rows to such
sets (`INSTANCE ... WITH roles <- ...`): whatever the threads interleave, the
other services see organizations founded at once with their administrator, and
members added one by one by an administrator. No code takes a role away, so a
membership that was verified stays true, which `AssetCatalog` relies on.

### AssetCatalog

| Model | Code |
|---|---|
| `roles` | auth-service, as `OrganizationRoles`: `Auth!Next` interleaves with the handlers, which see `Auth!IsMember` |
| `facilities`, `types`, `metrics`, `assets` | committed rows; `place` is the position of a metric in the request that made it |
| `job[n].step` | `begun` (before a lookup), `awaiting` (auth-service), `verified` (before the writing query), `ended` (answered), `closing` (its thread closes the session) |
| `free`, `job[n].holds`, `blocked` | the pool: a request has a connection from its first query until its session is closed; `blocked` is the request whose query found none, and the event loop stands still there |

`get_db` is a generator without `await`: its end runs on a thread, but the event
loop has to hand it over (`Leave`). A loop that stands at a query cannot, and
nobody who awaits auth-service can go on: `PoolTimeout` is the only way out.
`GetFacility` stands for all handlers that only read.

### FacilityReport

The handler is cut at its awaits: access check, list of assets, one query for
the alerts, and the counts of all assets at once (`waits`). Every window starts
and ends at midnight, so that an instant is modelled by its day: `Midnight` is the
ordinal of Python's `datetime`, by its own formulas for the days before a year
and before a month (external). `listed` is history: the day
at which the assets were listed. `InPeriod` says what a day, a week and a month
are without windows, and `Start`/`End` are compared with it. Counts by severity,
source and status are counts of the same rows and left out. Alerts are stamped
with the day of their insert; readings with any day, as callers may.

### SeriesJoin

| Model | Code |
|---|---|
| `mapped` | rows of the asset that have a metric; `Store` is an insert or a backfill, of any time |
| `Wanted` | metrics in the order of fetching, for a buffer and for a baseline |
| `Limit` | the 500 of `list_readings`; among readings of one time the cut is arbitrary |
| `request.before` | history: what was stored when the request began |

A moment is `Stable` when all metrics had it at the beginning and the cap has not
pushed it out of any since. Readings of moments that are not stable may or may
not be joined: a join can even be empty although at every moment both series
shared a reading within the cap.

### CopilotChat

| Model | Code |
|---|---|
| `conversations`, `messages` | committed rows; a message carries the turn it came from and its length in tokens |
| `turn[n].step` | `checking` (awaiting asset-service), `tool` (awaiting a tool), `answered`, `failed` |
| `turn[n].known` | what its client knows: waiting, shown, error, or gone (the panel was left) |
| `iteration`, `calls`, `tool`, `history` | locals of the tool loop |
| `client` | `conversationId`, the answers shown, the question pending; `Scripts` are callers of the API that send any id |

The call of the language model is synchronous, so that from one awaited tool to
the next the handler is one action (`AskModel`), with every way it may end:
another tool, the final answer with the commit of both messages, or failure. An
answer may be lost (`ErrorArrives` at any time) while its turn goes on; `Retry`
then sends the question again into the same conversation. Texts, sources and
citations are left out; of a message only its length matters.

### BrowserSession

| Model | Code |
|---|---|
| `storage`, `memory` | `localStorage`, and the module variables of `token-store.ts` in every tab |
| `refreshing[t]` | `refreshPromise`, with the pair whose refresh token was sent |
| `call[c]` | a call of `apiFetch`: for whom, with what token, whether it waits for the refresh or was repeated |
| `status`, `shown`, `current` | state of `AuthProvider` |
| `clock` | access tokens of an earlier generation are expired |
| `overlap` | history: in this tab somebody signed in or out while another call of it was in flight |
| `takeover` | history: somebody signed in over a session, whether or not another call was in flight; until the new list has replaced the old organizations, the tab is loaded anew, or somebody signs out |

JavaScript runs to completion, so one action is a click, a page load or the
arrival of one answer, with everything up to the next await.

## 3. Runs

| Run | Instance | Shows |
|---|---|---|
| `ingestion_races` | 1 point, 2 contents, 1 caller key; 3 calls on two threads, 1 restart; 1.6 M states | `UniqueKeys`, `AnsweredMeansStored`, `AllOrNothing`, `CountsHonest` |
| `mapping_races` | 2 points, 2 metrics; 2 calls, 2 mappings, 1 restart, fair threads; batches that share keys in both orders; 0.72 M states | `StampsFromMappings`, `StampPermanent`, `ImplementsLedger`; `CallsEnd`: every call that began ends |
| `alert_dedup` | 1 asset, 2 metrics; 2 fits, 2 changes, 1 failure, 2 touches; 0.65 M states | `OneBaselinePerSeries`, `OneOpenAlert`, `NeverReopened` |
| `alert_liveness` | 2 assets; 2 fits, 2 changes, 1 failure, 1 touch, late POSTs, fair scheduler | `DeviationIsAlarmed`: a deviation that lasts ends with an open alert; `DuplicatesAreRare` |
| `attribution` | 4 models, of which 2 classifiers, 1 detector, 1 never saved; 3 requests, 1 model saved anew, 1 restart, fair requests; 1 M states | `LoadedOnce`, `BufferFitsModel`, `VerdictIsRecorded`, `RequestsEnd` |
| `browser_session` | 2 tabs, 2 users, 3 organizations; 3 calls, tokens expire once; 0.1 M states | `QuietTabsAgree`, `AnswersForTheCaller`, `EveryCallEnds` |
| `copilot_chat` | a panel and another user's script; 3 turns, 2 tool replies, a budget of 2 tokens; 0.47 M states | `StoredInPairs`, `ShownIsContinued`, `HistoryIsWindow`, `TurnsEnd` |
| `accounts` | 3 addresses, of which 2 have accounts, 1 organization, 2 roles; 4 requests; 0.52 M states | `OneAccountPerEmail`, `AnsweredIsStored`, `OrganizationsAreRun`, `LetInByAdministrators`, `ImplementsRoles` |
| `asset_catalog` | 1 user, 2 organizations, 3 requests, 1 connection; 0.13 M states | `MadeByMembers`, `AddedNamesDiffer`, `TypesAreWhole`, `JobsEnd` |
| `facility_report` | 4 dates around the end of a year and of a leap year's February; 2 assets, 2 alerts, 1 reading; 1 M states | `ClosedPeriodsAreFinal`, `VolumeIsHonest`, `ReportEnds` |
| `series_join` | 3 metrics, 3 moments, a cap of 2; 1 M states | `StableMomentsAreJoined`, `ScoredIsNewest` |
| `metric_lookup` | 1 turn | section 5 |

The runs `ingestion_races` and `attribution` check their `TypeOK` too. In the other
modules `TypeOK` says what the variables range over; TLC finds it invariant on the same
instances.

**Why the bounds are enough.** Every race of ingestion is between the two
threads about one key, and in both runs of ingestion batches share keys in both
orders: two calls make every pair of positions meet, and the deadlock, which in
`mapping_races` the fairness of `CallsEnd` must get out of; the third call is the retry of
one that failed, raced or was cut off by the restart. A mapping race needs one
mapping in progress, a second one of the same point for remapping, and a second
point for what must not be touched. For alerts, two fits overlap on one series
or make two series deviate; two changes make a deviation appear and go (or become
a gap); two touches acknowledge and resolve one alert, in either order, or one
each. A race for a model is between two requests; the attribution and the
explanation want the same one, which is saved anew at any moment; two classifiers
on a scale of three probabilities give every order, a tie, one fault, and none;
a restart falls anywhere. What the bounds leave open is closed for the invariants
of all components by the theorems (section 4), which are independent of every
bound.

In the browser, a refresh is shared by two calls of one tab while the third
signs somebody in, out, or loads the other tab; tokens that expire once are
refused once. In the chat, the third turn sees what two earlier ones left, and
these overlap in every way; the answers of 1 and 3 tokens under a budget of 2
make windows that hold a whole turn, part of one, or nothing. Four requests of
auth-service found, invite, and race twice over one address or one membership;
three of asset-service make a type and race over the name of a metric in it, and
with one connection any two of them block the loop. The dates of the report lie
six and seven days apart and in two months, two years and a leap February; two
alerts and two assets make a report miss or count one twice. Three moments under
a cap of two make the oldest drop out of one series and not the other.

**Deadlock** is off because the systems stop when the bounds are spent. That a
waiting thread goes on is a liveness property: `CallsEnd` for the index and the
locks of PostgreSQL, `RequestsEnd` for the lock of the model cache, `JobsEnd` for
the pool of connections, `EveryCallEnds` for the shared refresh.

**Fairness.** `WF(Serve(t))`: the interpreter schedules both threads, and
PostgreSQL's deadlock detector always fires; `WF(Backfill)`, `WF(CommitMapping)`:
the handler has no await there. Arrivals, restarts and alien payloads are never
fair. `WF(Scheduler)`: APScheduler's interval job fires again and again and the
run takes its next step; its requests have time-outs. Failures and late
requests are not fair, and are bounded: a service that fails for ever gives no
alert. A login that fails ends a run before it changes anything, so that
`BeginRun` stands for the first run whose login succeeds. `WF(Serve(r))` of the
predictions: the event loop and the threads of the pool go on, and the requests
for telemetry have httpx's default time-outs; a step may always be a failing
one. Arrivals, restarts and training are not fair. The same holds for the
handlers of the other services: `WF(Works)` of the report (its clients have
time-outs), `WF` of a turn's steps and of what its client hears (the response, or
the end of the connection), and in the browser `WF(Settle(c))` and
`WF(RefreshSettles(t))`: `fetch` settles, with an answer or the browser's error.
`SF(Works(n))` of asset-service is strong: a request that waits for the loop is
disabled whenever the loop stands at another one's query, and is served among
the others when it does not; the client of auth-service and the pool have
time-outs (5 and 30 seconds).

## 4. Theorems

All are `Spec => ...`, for any sets of points, users, models, dates, any
submissions and any bounds, from the assumptions named in the modules. These say
that bounds are naturals, that sets which are parameters are well typed, and
that a name for nothing is no value: `ThreadsAssumption`, `SubmissionsAssumption`,
`NamesAssumption`, `BoundsAssumption`, `GapAssumption` (the gap is no level),
`MonitoredAssumption`, `LatenessAssumption`, `NoneAssumption`,
`ProbabilitiesAssumption`, `SessionAssumption`, `ChatAssumption`. Some say more:

| Assumption | Says | Because |
|---|---|---|
| `RequestsAssumption` | a request asks for one model, an attribution for at least one | the path parameter; an empty list is refused |
| `AccountsAssumption` | `admin` is a role; `none` is no address and no organization | the enumeration of roles; a name for nothing |
| `CatalogAssumption` | a payload is a sequence of names and may be empty; there are users, organizations and a connection | the schema's default; otherwise nothing runs |
| `ReportAssumption` | dates are dates of the calendar, of the years 2 to 9998 | every window around one must fit into `datetime` |
| `SeriesAssumption` | the cap is positive; at least one metric is wanted | `limit=500`; a baseline has features |

Every theorem on an invariant goes the same way: the types and the strengthenings
below, together the inductive invariant, hold initially; every action preserves
them, in a step or a lemma of its own; and they imply the property.

`TelemetryIngestionProofs`

| Theorem | Argument |
|---|---|
| `TypeCorrect` | `TypeInv` adds to `TypeOK` that a thread at a statement of a handler has a call (or a mapping) to work on; without it `calls[call[t]]` has no type |
| `KeysAreUnique` | `UniqueKeys` is not inductive: a commit adds rows nobody compares again. `KeyInv` adds `PendingKeysFresh` (a key held uncommitted is in no committed row and in no other transaction) and `MarkedAreUnresolved`, so that a commit of a mapping is known to change metrics and no key. The stale `SELECT` is not used: the unique index alone suffices |
| `StampsArePermanent` | by `KeyInv`, the rows a backfill commits over still have no metric |
| `StampsAreSourced` | `SourceInv` carries the property to the rows that are staged and flushed; mappings only grow |
| `AnswersAreKept` | `StoreInv`: while a call runs, each of its items is still to do, staged, flushed, or has its key in `existing` and thus in `readings` for good |
| `ListsAreComplementsOverHttp` | for `Threads = {"loop"}`: a row with no metric belongs to a point with no mapping, since lookup and commit are not interrupted by a mapping |
| `CallsAreAtomic` | `OwnerInv`: rows that are staged or flushed belong to the call of the thread that holds them, which is still running and no other thread's; the call of a committed row did not raise, and all its keys are committed. A crash, a deadlock or a lost race discards what was held, so no half of it is seen |
| `CountsAreHonest` | `CountInv`: while the loop runs, the rows the thread holds and the duplicates it met are as many as the items it has seen (`Underway`); the commit turns this into `Honest` of the rows stored. A backfill can only lower the number of rows without a metric |
| `LedgerImplemented` | refinement: `CommitBatch` maps to `Accept`, `CommitMapping` to `Map`, all other steps stutter; uses `KeyInv` and `SourceInv` |

`AlertPipelineProofs`

| Theorem | Argument |
|---|---|
| `AlertTypes` | `Holding` adds that the run holds a baseline wherever it uses one |
| `BaselineIsUnique` | `FitStore` replaces the row it found, uninterrupted |
| `OpenAlertIsUnique` | assumes `~Lateness`. `CheckStillHolds` is the strengthening: when the run is about to post, the asset has no open alert, because only the scheduler opens alerts and no touch opens one |
| `DuplicatesAreBounded` | `OpenAlertIsUnique` without its assumption. `DuplicateInv` counts the open alerts of an asset together with its POSTs on their way (`Owed`): never more than one and the requests that were lost, and at the POST not more than those lost, since the check saw no open alert. A POST that times out moves from the run to the wire, one that arrives from the wire to the table |
| `AlertsStayClosed` | no step shortens `alerts` or sets `open` |

`FaultAttributionProofs`

| Theorem | Argument |
|---|---|
| `TypesHold` | `TypeInv` adds that a loop is at one of its names, and that a thread at the metadata has read the model |
| `ModelsAreLoadedOnce` | `CacheInv`: who is loading holds the lock and its model is not cached; a model that is not cached was not loaded. Both survive a failed load, which releases the lock and caches nothing |
| `ScoredByTheModelFetchedFor` | `CacheInv` again: from the first `load_model` to the score, what the request was given is what is cached, since only a restart empties the cache and it ends every request; and a model is cached, or held by the thread that loads it, with metadata of its own version unless `overlapped`: the files agree when the model is read, and a save before the metadata are read sets it. Training touches the files only |
| `VerdictsAreRecorded` | `VerdictInv`: results are the scored rows, and the names before the loop's position are results or skipped. `WinnerIsRight`: `max()` returns a fault that no fault exceeds; that there is a greatest one comes from the least element of the distances to `Certain`, by the library's theorem on well-founded orders |

`AccountsProofs`

| Theorem | Argument |
|---|---|
| `AccountTypes` | `Filled` adds that a request has the fields its kind reads |
| `OneAccount` | the index alone: the check before the insert is stale by then and is not used |
| `OrganizationsHaveAdministrators` | both rows are committed at once, and no row is removed |
| `MembersAreLetIn` | `Informed`: what a request found in a query (its caller administers the organization, the invited account exists) still holds at the insert, since no row is changed or removed |
| `AnsweredRowsAreThere` | `Informed` again: a handler answers after its commit, or with what it found |
| `AuthKeepsItsPromise` | refinement of `OrganizationRoles`: `InsertOrganization` maps to `Found`, the insert of a membership to `Add`, whose guard is `Informed`; all other steps stutter |

`AssetCatalogProofs`

| Theorem | Argument |
|---|---|
| `CatalogTypes`, `ConnectionsAreKept` | `Pooled`: the free connections and those held by requests add up to `Connections`. The types need it: without it `free` may fall below zero |
| `RowsAreMadeByMembers` | `Informed`: a verified request's user is a member, and the row it looked up exists; memberships and rows only grow, so that both survive the awaits |
| `AddedNamesAreNew` | the comparison with the names of the type and the insert are not separated by an await. `Numbered`: a type's metrics are told from others' by the request that made it |
| `TypesAreStoredWhole` | `References` and `Numbered`: a type and its metrics are committed at once, and no later type has its number |

`BrowserSessionProofs`

| Theorem | Argument |
|---|---|
| `SessionTypes`, `RefreshesAreAwaited` | `Awaited`: a tab refreshes exactly while a call of it waits; hence one refresh is shared, and a token to retry with is always there |
| `QuietTabsShowTheirUser` | `Sound` says of a tab without `overlap` that all its calls, its pair and its refresh are of one user (`OfOneUser`); without `takeover`, for every status which calls may be in flight (`Quiet`: a tab that is signed out has none but a login with tokens); with it, that at most one sign-in is in flight, whose list finds the tokens it is for (`TakenOver`) and then makes the tab `Quiet` |
| `AnswersReachTheirCaller` | an action property: by `OfOneUser`, the token a repeated call takes from the refresh is its caller's |

`CopilotChatProofs`

| Theorem | Argument |
|---|---|
| `TurnsAreStoredWhole` | `ConvInv`: there are no more conversations than turns that began, so the next id is free; `PairInv`: the messages of a conversation alternate, each pair of one answered turn, two messages of each |
| `PanelsContinueWhatTheyShow` | `PanelInv`: a panel waits for at most one turn, which is of the conversation the panel is in, and whose messages come after all it shows. A turn whose answer was lost may still store its pair: after what is shown, so the order stays |

`ReadersProofs`

| Theorem | Argument |
|---|---|
| `SeriesTypes` | |
| `SlowFetchesJoin` | `SeriesInv`: every series holds the newest readings of some set between what was stored when the request began and what is stored now. A stable reading missing from it would have `Limit` others as new in that set, hence in what is stored now, and be out of reach |
| `ScoresAreNew` | the moment scored is the greatest of a join that has the stable ones |
| `ReportTypes` | |
| `ClosedPeriodsStand` | lemmas about the calendar first: for every date, an instant is between `Start` and `End` exactly if it is in the day, week or month of `InPeriod`. Then `ListedInv` (an asset that was not listed has alerts of later days only) and `CountInv` (what was counted of a closed period is what is there) |
| `VolumesAreStored` | `CountInv`: a count is zero, or that of an asset that was listed when telemetry answered; readings are not removed |

**Model-checked only.** `CallsEnd`, `DeviationIsAlarmed`, `RequestsEnd`,
`EveryCallEnds`, `TurnsEnd`, `JobsEnd` and `ReportEnds` are liveness under
fairness, which the prover does not reach. `HistoryIsWindow` compares a fold over
a sequence with a definition by quantifiers, which needs induction over the
sequence; for the same reason the proofs about `CopilotChat` leave the history of
a turn any value, and of its `TypeOK` they show all but that the history is a
sequence of messages. All other properties of the runs are proved.

The strengthenings are in no run of their own: TLC found each of them invariant
on the instances of section 3 before it was proved.

## 5. Where documentation and code differ

Run `metric_lookup` finds the copilot's tools unusable: `executors.py:36` asks
asset-service for the asset types without `organization_id`, a required query
parameter (`asset_types.py:84`). The answer is 422, the executor raises, and every
turn in which the model asks for telemetry or a baseline fails; `executors.py:25`
says the code mirrors ml-service's client exactly, which passes the parameter.

Seen while modelling, without a run. In telemetry-service:

- `telemetry.py:490` calls the list of mappings "The complement of GET
  /telemetry/unmapped". The MQTT thread resolves a metric (none), a mapping is
  created and backfilled, then the row is committed: mapped and unmapped. It is
  true over HTTP (`ListsAreComplementsOverHttp`).
- `subscriber.py:73`: the callback "Deliberately never raises". A JSON list, a
  reading that is no object, or a lost race for a key raises; paho's thread ends,
  the service stays up (`Receive`, `dead`).
- ADR 0005: "ingestion must never drop data". A batch that loses the race for one
  key is rolled back whole, with readings nobody else sent.
- ADR 0005: re-mapping "only affects new and still-unmapped readings".
  `.first()` without an order may return the old mapping for a new reading.
- A CSV row with more cells than the header fails the whole upload
  (`telemetry.py:252`; the docstring at 230 says one bad row never prevents the
  rest).
- A join can be empty although at every moment both series shared a reading
  among their newest 500: the cap slides between the two fetches.

In the alert pipeline and the predictions:

- `scheduler.py:64`: one alert stays open until it is resolved, "only then can a
  new one be raised". The check asks for status `open`: acknowledging is enough.
- A POST that times out at the scheduler and is served later leaves two open
  alerts (`OpenAlertIsUnique` assumes `~Lateness` for this reason;
  `DuplicatesAreRare` says how many there may be).
- The check for an open alert ignores the metric, so that the second metric of an
  asset that deviates stays silent (`scheduler.py:3` speaks of "every
  asset+metric").
- `predictions.py:196`: "One model failing to load or predict does not fail the
  whole request". Only `HTTPException` is caught: an unreadable model file, or a
  plant not in stage 2, gives a 500 after earlier predictions were committed.
- `train_final_models.py` saves a model before its metadata: a model loaded
  between the two is cached with the metadata of another version, and scores that
  version's metrics, until the next restart. `BufferFitsModel` therefore relates
  the version of the model to that of the metadata only where no save overlapped
  the load; that both loads of a request give the same pair it says always.
- `predictions.py:179` argues for comparing faults only; as the saved classifiers
  report a fault exactly above 0.5, the greatest probability of all would name the
  same fault whenever there is one, and the filter matters when there is none.

In auth-service and asset-service:

- `organizations.py:113` refuses a user who is a member already; two invitations
  at once both pass the check, and the table has no unique constraint.
- `asset_types.py:131` refuses a metric name the type has; `create_asset_type`
  does not compare the names of its payload with each other.
- The docstring of `AssetType` says types belong to an organization;
  `create_asset` accepts a type of another organization.

In the browser:

- Somebody who signs out, or in as another user, while a refresh is in flight
  finds the refreshed tokens stored when it returns: the tab shows one user and
  sends the tokens of another. `QuietTabsAgree` and `AnswersForTheCaller`
  therefore speak of tabs without such an `overlap`.
- `/login` does not redirect somebody who is signed in. `login`
  (`AuthProvider.tsx:89`) stores the tokens of the new user and then waits for the
  list: until it arrives the tab shows the old user's organizations, and for good
  if the request fails. An organization of the old list that is selected meanwhile
  stays selected. If the new tokens are refused in between and their refresh
  fails, a list that arrives afterwards makes the tab authenticated without tokens.
  This happens with no other call in flight. `QuietTabsAgree` therefore leaves
  out a tab with a `takeover`; `AnswersForTheCaller` holds there too.

## 6. Plan

Done: every module of section 2, with its run; a theorem for every safety
property of the runs but `HistoryIsWindow`; both refinements, checked and proved.

To come, in this order:

1. `BrowserSession` with `overlap` and `takeover`: what a tab may show and send
   after one, as an invariant that names the calls that were in flight.
2. An abstract catalog, rows made atomically by members, that `AssetCatalog`
   implements, after the pattern of `OrganizationRoles`.
3. Devices and ingestion keys, in a module of their own.

## 7. Not modelled

- Devices and ingestion keys: single inserts after a role check; nothing
  deactivates or revokes. `last_seen_at`, audit fields: no property depends on them.
- Token signing and rate limits: library code. Expiry is the clock of
  `BrowserSession`.
- Numbers: regression, classifiers, feature pipelines, training. A score is a
  member of a small scale.
- Text: chunking, vector search, prompts.
- Frontend pages and forms, the onboarding wizard and the CSV upload dialog among
  them: rendering over calls of `apiFetch`, which is modelled.
- Deployment, the notebooks, tests.
- Failover or loss of PostgreSQL: a commit that returned is durable.
