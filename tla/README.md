# Peril Vista: TLA+ specifications

Peril Vista (`src/`) is a property-catastrophe exposure workbench: a FastAPI
backend (`backend/app`) that serves a React single-page application
(`frontend/src`). This directory specifies its backend: the parts whose
correctness depends on the order in which things happen (shared caches,
background jobs, connections, deadlines, files that several requests rewrite)
and the calculations whose results are put together from several sources.

## 1. Inventory

The backend runs in one uvicorn process. `def` endpoints and `def` dependencies
run on a pool of worker threads, `async def` endpoints and asyncio tasks on the
event loop; both kinds share module-level state. Nothing but a few JSON files is
persistent.

| Component | State it keeps | Operations | Hard behaviour |
|---|---|---|---|
| Fact cache (`providers/fact_cache.py`) | LRU map of facts, events and errors of loads in flight, counters | `get`, `set`, `invalidate`, `get_or_load`, `stats` | single flight between threads, failing loads, invalidation and eviction during a load, 300 s wait |
| Fact loading (`providers/catalog.py`, `parallel_load.py`, `fact_load.py`, `sqlserver.py`) | provider singleton, catalogue, fallback reasons | `get_facts_for_datasets`, `warmup`, `load_many`, `_load_facts_uncached` | one of many loads failing, pool workers waiting on loads of other requests, silent fallback to mock files |
| SQL connections (`providers/connection_registry.py`) | servers, one connection and two locks per database, registry lock | `connect`, `connection`, `register`, `close_all`, `probe` | lock order, a connection replaced between `connect` and its use |
| ERT jobs (`services/jobs.py`, `api/ert_jobs.py`) | job records, asyncio tasks, registry singleton | `submit`, `cancel`, `get`, lifecycle coroutine | `cancel` runs on another thread than the task it cancels; duplicate submits |
| Admin: treaties and EDM links (`api/admin.py`, `services/treaty_metadata.py`) | two JSON files | list, update one link, bulk replace, CSV import | read-modify-write of a file without a lock, torn reads |
| Live storm bundle (`api/live.py`, `services/live_hurricane.py`) | two-minute snapshot of NHC's feed | look up, assemble the track, gather ten feeds under one deadline, respond | late and failing feeds, another request's snapshot, products of two storms or advisories |
| Model tracks, NHC products (`services/atcf_adecks.py`, `ensemble_*.py`, `nhc_*.py`, `weather_alerts.py`) | caches of downloaded files | select cycles, envelope, strikes, cones, radii, outlook, alerts | files with several cycles, missing leads, unreadable placemarks |
| Weather call budget, grid and chunk caches (`services/wind_forecast.py`, `ttl_cache.py`) | rolling minute of claims, two ordered dictionaries without a lock | claim locations, fetch chunks by a pool, cache grids | clock read before the lock, evictions between two dictionary operations, stray chunks |
| Hurricane impact and industry losses (`services/hurricane_impact.py`, `county_wind.py`, `ibtracs.py`, `industry_losses.py`, `event_loss.py`, `loss_calibration.py`, `curve_fit.py`, ...) | archive index, curve sets | county impact, industry loss, back-test, curve fit | joined tracks, one-sided radii, bad rows, money that must be in one place |
| Groups and views, pivots, exports (`services/grouping.py`, `view_resolve.py`, `calculations.py`, `api/exposures.py`, `export_excel.py`, ...) | list of groups | create a group, resolve a view, map, detail, pivot, export | double counting, datasets that fail to load, figures computed twice |
| Layers (`services/layer_calc.py`) | none | scenarios and sweeps | boundaries of layers |
| Funds (`services/portfolio_math.py`, `api/fund_analysis.py`) | the supplied catalogue | optimise, own book, rolling statistics, robustness | limits that undo each other, ties on a frontier |
| Wildfire, floods, hazard maps (`services/live_wildfire.py`, `wildfire_exposure.py`, `live_flood.py`, `nwm_inundation.py`, `hazard_overlay.py`, `api/...`) | caches of feeds, location index | bundle, exposure in polygons, grids | partial answers, cells that touch at a corner, overlapping polygons |
| ERT polling, page state (`frontend/src`) | stores and query results | select, poll, save | answers that arrive after the selection changed |
| Other feeds, data-building scripts | caches of files | fetch and parse | formats of third parties |

How they interact: a request for exposures resolves a view into dataset ids,
asks the provider for their facts, which runs `load_many` with up to 16 workers;
each worker calls the fact cache, whose loader takes a SQL connection from the
registry and may fall back to a mock file. `DELETE /api/admin/cache` invalidates
and `POST /api/admin/cache/warmup` fills the same cache. Storm, fire and flood
endpoints fetch third parties' files through caches on worker threads, join them
with the same facts, and price what lies inside. Wind and shear grids share one
budget of calls. ERT jobs (a mock lifecycle in v1) are submitted by the
single-page application, which then polls their status. The admin screens
rewrite the two JSON files of the treaty linkage.

For each component, what makes it correct:

* Fact cache: one load per dataset at a time; nobody waits for a load that will
  not end; facts never run backwards for a caller; an error reaches only
  requests of the load that failed; the LRU order is the cache.
* Fact loading: the batch drains; failed loads and mock facts are reported for
  the answer they are in, and for no other.
* SQL connections: an open connection is used by one thread at a time, never
  closed under a user, never leaked; locks are released.
* ERT jobs: one active job per EDM; a cancelled job stays cancelled and its
  coroutine is not resumed; failures are reported; coroutines end.
* Admin files: an edit changes what it names; a page shows links that were
  current; a torn file is never taken for data.
* Storm bundle: what had answered in time is served; one storm and, on refresh,
  no older advisory than the arrival's; an answer to every request.
* Weather budget and grids: at most 500 locations a minute, and no refusal
  without a reason; a refresh reads through both caches.
* Tracks and products: an envelope contains its members; the storm that is
  priced is the storm that is drawn.
* Impact and losses: no gap in the core's swath between two fixes; every
  reported dollar counted once, and scored only where there is wind and insured
  value; the fitted curve is the isotonic one.
* Views: a deal is never more than the portfolio it is part of; the sheets of an
  export agree when they were made of the same rows. Levels of geography are never added together.
* Funds: a recommended book obeys all limits at once; the frontier is the set of
  undominated books.
* Fires and floods: a location counts once however many polygons hold it; a
  footprint is its cells; what could not be read is said.

## 2. The modules

| Module | Models | Composes |
|---|---|---|
| `FactCache` | `providers/fact_cache.py` | |
| `ReadThrough` | what the cache promises its callers; no code of its own | instantiated by `FactCache` |
| `FactLoading` | `load_many`, the cached load with its fallback, the warnings read after it | cache outcomes, worker pools, the hybrid provider, requests |
| `ErtJobs` | `services/jobs.py`, `api/ert_jobs.py` | event loop and worker threads |
| `ConnectionRegistry` | `connect`, `connection`, `close_all` for one database | |
| `EdmLinkage` | the programme endpoints of `api/admin.py` and the two JSON files | |
| `LiveBundle` | `GET /api/live/storms/{id}`: lookup, `_gather`, response | the endpoint's thread, the pool, the shared snapshot, the other requests |
| `LocationBudget` | `_try_reserve_locations` | |
| `WindGrids` | grid and shear endpoints, `TtlCache`, `_bulk_cache`, chunk pool | caches, pool, deadline; the budget as granted or refused |
| `ModelTracks`, `NhcProducts` | operators: a-decks, envelope, strikes; KML products and the tracks built from them | |
| `HurricaneImpact`, `IndustryLoss` | operators: archive to county winds and values; loss files, price levels, curves, back-test, fit | |
| `Exposures`, `Portfolio`, `Polygons`, `Wildfire`, `Floods` | operators of views and figures, books of funds, locations in polygons, fires, alerts and inundation | |
| `StormApi`, `LossApi`, `FundApi`, `ExposuresApi`, `HazardApi` | the endpoints over those operators, one action each | their operators |
| `Endpoint`, `HttpErrors`, `Absent` | what the endpoint modules share: an open call and its reply, the refusals, Python's `None`, its filters and its stable sort | |
| `AnalyticsApi` | all of these endpoints | the five endpoint modules |
| `MC_*` | values and symmetry sets of the instances | |
| `*Proofs` | theorems and the lemmas they rest on: `EdmDataProofs` of `ConnectionRegistry` and `EdmLinkage`, `LiveDataProofs` of `LiveBundle` and `LocationBudget`, `CalculationProofs` the lemmas about folds, sorts, losses, fits, books of funds and convex hulls behind `AnalyticsProofs` | |

Operators whose comment begins "Mutant of" (or "A variant that") stand next to
the definition they vary. They are the plausible mistakes (a dropped guard, a
missing reset, a swapped order) against which the properties were tried: each
checked property is violated when the named definition is replaced by one.

### FactCache and ReadThrough

One action per critical section of `_lock`; what a thread does between two of
them is one of its labels.

| `get_or_load` (fact_cache.py) | Label, actions |
|---|---|
| `self.get(dataset_id)` | `get`: `GetHit`, `GetMiss` (an expired entry is deleted) |
| the section that re-checks, joins or elects | `elect`: `ElectHit`, `Join`, `Lead` |
| `loader()` outside the lock | `load`: `LoadSucceeds`, `LoadRaises` |
| `self.set`, the counters, the error | `publish`, `count`, `record`: `Publish`, `CountLoad`, `RecordError` |
| the `finally` block | `clear`, `signal`: `ClearInFlight`, `Signal` |
| `event.wait(300)` and what follows it | `waiting`, `woken`, `takeError`: `WaitTimesOut`, `GetHit`/`GetMiss`, `TakeError`, `Retry` |

`data`, `lru` and `expired` are the `OrderedDict` and its time stamps, `inFlight`
and `inFlightError` the two dictionaries of loads. Facts are represented by the
version of the dataset they were read from, which is all `ReadsThrough` needs;
`uncounted` is `_misses - _loads - _load_errors` of `stats()`, so that counters
need no bound. `Peek`, `Invalidate`, `InvalidateAll`, `Expire` and
`SourceChanges` are the other users of the cache and its environment.

`ReadThrough` says what a reader is promised: a version at least as new as any
handed out before its call began, and no newer than the source, or a failure.
The refinement maps a thread that is inside `get_or_load` to a read in progress;
everything else of the abstract state is a history variable of `FactCache`.
Note what is *not* promised: `invalidate` during a load does not prevent the
leader from publishing facts it read before the invalidation.

### FactLoading

A batch is a request's `facts_for_dataset_ids`. `Begin` submits the distinct
dataset ids of a view to a pool, `StartWorker` is a pool thread taking one,
`Hit` ... `GiveUp` are the outcomes of `get_or_load`, and in the leader
`ForgetReason`, `SqlLoads`, `FallBack`, `FileLoads`, `LoadRaises` are
`_load_facts_uncached` of the hybrid provider: it pops the dataset's fallback
reason, asks the server, and when that fails records a reason and reads the mock
file (`fallbackMock`), or raises. `NoReasons`, `BeginScan`, `EndScan` and
`ScanRaises` are `_load_batch_warnings`, which iterates the provider's shared
dictionary while other requests change it: keys that came or went may or may
not be met, and a change of size raises. Facts are represented by their origin.
Of the cache only the outcomes of a call are modelled here; that the outcomes
are right is `FactCache`'s subject. `reloaded` is a history variable.

### ErtJobs

`submit` and the lifecycle coroutine run on the event loop, uninterrupted
between awaits; `get_registry`, `cancel` and the status endpoint are `def`
handlers and run on worker threads, so each of their reads and writes of shared
state is an action. The coroutine is one action per stretch between awaits,
split where a thread can see or change the record in the middle (`WakeQueued` /
`SetRunning`, `WakeRunning` / `Succeed` or `Fail`). `task.cancel()` is
remembered and raised at the next await (`AfterSleep`). Two first requests that
both find no registry build two (`SeeNoRegistry`, `CreateRegistry`).

### ConnectionRegistry

The threads that use one database: entries and locks of different databases are
disjoint, and the registry-wide lock guards only short sections, each one
action. `connect` is `LockKey` ... `Install`, under the key lock; the health
check holds the lock of the pooled connection as well; `connection` then looks
the entry up again (`Find`, `FindNothing`) and locks what it finds (`LockUse`).
`Break` is the server dropping a connection, `CloseAll` the shutdown.

### EdmLinkage

Every endpoint reads and writes whole files. `write_text` is two actions, the
truncation of `open(..., "w")` and the write at offset 0, so that a reader
between them and two overlapping writers are represented: a text is the map it
begins with and its length, and it parses when the two agree. `import_csv` is
`async` and does not await after its body arrived, so two imports never
overlap. `Crash` kills the process at any moment; only the files survive.

### LiveBundle

One request is followed through `stage`; the other requests of the process are
what they may do to the shared snapshot (`OthersRefresh`, `OthersFetch`, which
may store an answer that was on its way for a while), and NHC is `NewAdvisory`
and `FeedToggles`.

| Code | Actions |
|---|---|
| arrival, `refresh`, JMA and invest ids (live.py:801) | `Arrive` |
| `TtlCache.get`, its `move_to_end` that may raise, the fetch (live_hurricane.py:210) | `CacheGet`, `CacheTouch`, `FetchCurrentStorms` |
| `storm_and_forecasts`: track file, motion, replay | `Resolve` |
| `_gather` (live.py:664): submit, the pool, the shared deadline, the ordered collection | `Submit`, `JobEnds`, `DeadlinePasses`, `Collect` |
| the sections of the response (live.py:947) | `Respond` |

Jobs are taken by the pool in order, so those running are the first `MaxWorkers`
that have not ended; any of them may never end. A product is its arrival and
the number of the advisory it was taken from. `timely` is a history variable:
the feeds that had answered when the deadline passed.

### LocationBudget and WindGrids

`LocationBudget` separates the reading of the clock (`ReadClock`) from the claim
under the lock (`Acquire`, `Expire` per entry, `Decide`), as the code does; the
deque is written out with one entry per location. `Lag` bounds the time between
the two. `grants` is a history variable.

In `WindGrids` every operation of an `OrderedDict` is a step: `Lookup`,
`DropExpired`, `Touch`, `Store`, `Order`, `ChunkHit`, `ChunkFetched`. A request
waits for its chunks up to a deadline that may pass at any moment
(`WaitReturns`); chunks it did not wait for go on as `strays` and still store
what they fetch. `Reserve` grants or refuses, which is all a grid sees of
`LocationBudget`.

### The endpoints that compute

These handlers hold no lock and change no state but caches of downloaded files.
Each is one action of its endpoint module: it chooses what the client asked and
what files, feeds and datasets held (`call`), and computes the answer (`reply`)
with the operators of the module it extends. `Answered` ends the call.

| Module | Actions | Code |
|---|---|---|
| `StormApi` | `ModelTracksCall`, `EnsembleRiskCall`, `ForecastsCall`, `ImpactCall`, `ShapesCall`, `ReplayCall`, `OutlookCall` | `api/live.py`, `storm_for_impact`, `storm_and_forecasts` |
| `LossApi` | `HurricanesCall`, `CountyImpactCall`, `IndustryLossCall`, `BacktestCall`, `FitCall` | `api/hurricanes.py`, `api/industry_loss.py`, `curve_fit.py` |
| `FundApi` | `OptimizeCall`, `CustomCall`, `RollingCall`, `RobustnessCall` | `api/fund_analysis.py` |
| `ExposuresApi` | `CreateGroupCall`, `MapCall`, `DetailCall`, `PivotCall`, `ExportCall`, `LayersCall`, `CatalogCall` | `api/exposures.py`, `dataset_groups.py`, `calc.py`, `exports.py`, `cedents.py` |
| `HazardApi` | `HazardMapCall`, `PolygonExposureCall`, `WildfireCall`, `FloodCall`, `BundleAlertsCall`, `InundationCall`, `InundationExposureCall` | `api/wildfire.py`, `api/flood.py`, `api/hazards.py` |

What stands for what:

* *Places.* Model tracks are points of the integer plane; impact tracks and
  counties lie on one meridian, so that a bearing is one of two sides and radii a
  pair; a fire's cells have width two, so that no location is on an edge.
* *Numbers.* Money and weights are integers, ratios integers in hundredths,
  per mille or ten-thousandths; quotients are rounded down, and properties about
  weights carry the `Slack` this costs. Logarithmic wind profiles are linear;
  square roots are integer roots; annualisation is an operator of
  the instance.
* *Files.* `None` is a file that cannot be fetched, `NotXml` one that is not
  what it claims; rows may be malformed, incomplete, unsorted or doubled.
* *Sampling.* The random books of the optimiser are arbitrary draws; what is
  modelled is their projection onto the client's limits and what is made of them.
* *Failure.* Every answer that is not a result is one of `HttpErrors`, among
  them `Raises`, an exception no handler catches. Feeds answer in part.
* *Loads.* A request for exposures loads its view, the portfolio and its
  comparison apart, and an export does so four times over (export_excel.py:100,
  105, 134, 140). `loads` is what each of these finds: per dataset its rows, or
  nothing when the load fails; a failed load is not cached, and rows may be
  reloaded between any two.
* *Caches of feeds.* What an earlier call left in a cache is what such a call
  computes, so a cached partial answer appears in `WildfireCall` (heat and
  perimeters), `FloodCall` and the two inundation calls.
* *Observed wind.* The county multipliers of `_observed_wind` are members of a
  set of evidence, in percent; they move a county's curve wind and so whether it
  is in the field.

## 3. What the runs check

Bounds are the constants of the `.cfg` files and the sets of the `MC_*` modules.
All passing runs are exhaustive for their bounds.

| Run | Instance | Distinct states | Checks |
|---|---|---|---|
| `fact_cache` | 2 threads, 2 datasets changing once, capacity 1; fair | 351,704 | `SingleFlight`, `LruIsTheCache`, `ErrorsAreCurrent`, `ReadsThrough`, `FollowersWake` |
| `fact_loading` | 2 requests, 2 datasets, pools of 1, 3 batches; fair | 588,108 | `ReasonsMatchCache`, `WarningsMatchFacts`, `BatchesEnd` |
| `ert_jobs` | 2 requests, 2 jobs, an EDM that succeeds and one that fails; symmetric | 501,389 | `OneActivePerEdm`, `StrandedOnlyByCancel`, `CancelSticks` |
| `ert_jobs_live` | 1 request, 2 jobs; fair | 16,315 | `TasksEnd`, `FailuresAreReported` |
| `connection_registry` | 3 threads, 2 connections; fair | 18,966 | `OpenConnsAreExclusive`, `NoConnectionLeaks`, `NeverClosedInUse`, `LocksAreReleased` |
| `edm_linkage` | 2 requests, 2 treaties, 1 link, kills; symmetric | 224,157 | `LostLinksAreConcurrent`, `ViewsAreCurrent` |
| `live_bundle` | pool of 2, with and without the wind map, 1 step of the outside world; fair | 363,682 | `FinishedFeedsAreServed`, `OneStormPerBundle`, `RefreshReadsThrough`, `EveryRequestIsAnswered` |
| `location_budget` | 3 threads, grids of 1 and 2, budget 3, window 3, lag 1, 5 ticks; symmetric | 649,275 | `BudgetHolds`, `RefusalsAreJustified` |
| `wind_grids` | 2 threads, 2 boxes of one chunk, caches of 1, one expiry; fair | 473,492 | `RefreshReadsThrough`, `RaisesOnlyWhenOverlapped`, `RequestsEnd` |
| `analytics_api` | every combination of the data sets below | 51,603 | `EnvelopeHoldsTheMembers`, `ImpactFollowsTheDrawnTrack`, `CoreIsSweptBetweenFixes`, `EveryLossIsAccountedFor`, `FitIsTheIsotonicOne`, `BooksObeyTheirLimits`, `FrontierIsUndominated`, `DealShareIsAShare`, `ExportTabsAgree`, `EveryLocationCountsOnce`, `FootprintsAreTheirCells`, `GapsAreTold` |
| `pivot_levels` | the same, properties of the pivot only | | `LevelsAreNeverAdded`, violated |
| `wind_grids_raise` | that of `wind_grids` | | `NeverRaises`, violated |

What they show, property by property, stands in the comment above each. Some
need several actors or several pieces of code to go wrong:

* `ReadsThrough`, `WarningsMatchFacts`, `ViewsAreCurrent` and both
  `RefreshReadsThrough` relate what a request is answered to what was true when
  it arrived, through caches and files that others change meanwhile.
* `FinishedFeedsAreServed` relates the response to the moment the deadline
  passed; a job far down the list that finished early must survive the wait for
  an earlier one.
* `BudgetHolds` is about every window of time, and the claims are not in the
  order of their time stamps. It holds with the window shortened by `Lag`, and
  `RefusalsAreJustified` with it lengthened: the code gives no more.
* `BooksObeyTheirLimits`: caps, tickets, floors, number of names and illiquid
  sleeve are imposed one after another, and each correction undoes others.
* `DealShareIsAShare` and `ExportTabsAgree` compare figures that separate code
  computes from separately loaded facts. Their premises say exactly when loads
  that differ may be compared, and each was tried without: a deal's share exceeds
  one when the portfolio's load of the programme failed or found other rows, when
  rows are in another currency than their programme's (the portfolio drops them,
  a row's own currency column wins, sql_row_map.py:264), or when a geography
  names a state to a county row without a name or with an id of its own
  (sql_row_map.py:197-219) and to a state row that the deal falls back on. The
  shares of the portfolio itself, and a deal's concentration, need none of these.
* `EveryLossIsAccountedFor`: observed, missed and unscored losses make up the
  county losses of an event; what is scored has a wind the curve answers to and
  an insured value, what is missed has no such wind, and what is a gap has the
  wind but no value, with the observed wind applied or not.
* `GapsAreTold`: a heat map of fewer windows than asked, perimeters that could
  not be read or were cut off, alerts without any feed and an inundation that was
  not reached or was cut off are said in the answer, also when it is made of what
  an earlier call left in a cache. It does not say that an answer from a cache is
  an old one, nor that fires without a position or alerts without a polygon were
  left out: the code says neither.
* `EveryLocationCountsOnce`, `FootprintsAreTheirCells`, `FitIsTheIsotonicOne` and
  `EnvelopeHoldsTheMembers` compare an algorithm with an independent definition
  of its result (ray casting per location, cells, the min-max formula, the
  half-planes of a hull).

Why these bounds are enough to be interesting:

* `MaxVersion = 1` separates facts read before a change from facts read after
  it. Two datasets with room for one make every insertion an eviction, also of
  the entry that a woken follower is about to read; two threads are a leader and
  its follower, each of which may elect itself next. The proofs below cover a
  third thread, which arrives between the leader's `clear` and `signal`, and all
  other sizes.
* A pool of one worker makes waiting hardest: a worker that follows another
  request's load blocks its whole batch. Three batches let one request load a
  dataset anew between another's load and its scan, and once more.
* Two requests and two jobs on two EDMs hold a cancel, a poll and a resubmission
  against the coroutine of the first job.
* Two connections are the one that broke and its successor; when both are used
  up `OpenFails` is what remains.
* Two treaties are the one an edit names and the one it must leave alone. Links
  are taken to be equally long in the file; the proofs use of the length only
  that it is a positive number.
* A pool of two threads for four or five jobs leaves jobs waiting behind ones
  that never end. One step of the outside world is one event between any two
  steps of the request: an eviction, an older answer, a new advisory, an outage,
  a storm that is dropped. The proofs cover any number of them, and the other
  optional feeds.
* A minute of three ticks with a lag of one separates a claim whose time stamp
  is older than its neighbour's from one that is not; five ticks are more than
  a window and a lag.
* One place in each cache makes every store of another box an eviction between
  two steps of a hit; one tick is one expiry. `RequestsEnd` and the caches do not
  tell one chunk of a grid from two.
* The data sets of `MC_AnalyticsApi` hold each case the code distinguishes: two
  cycles, short and straight and fanning tracks; placemarks doubled, out of order
  and without coordinates; archives unsorted, with one-sided radii and lines that
  do not parse; loss rows of wrong currency and unknown counties, with and
  without insured values; curves of four bands over four ratios, pinned or not;
  four funds of different kinds and lengths, with holdings, caps, tickets and
  sleeves; programmes of two cedents, years, currencies and states of loading,
  nested by state and county; cells that touch at corners and enclose holes;
  polygons with holes, slivers and too many vertices; feeds that fail, answer in
  part, or repeat what an earlier call cached. What loads find are the rows of
  the catalogue, the same without a dataset, with a failed one, with other rows
  later, and with rows in a foreign currency or without a county.

`CHECK_DEADLOCK FALSE` is said where the bound lets the system stop: of
`FactLoading` (batches), `LiveBundle` (the response is the end), `WindGrids` and
`LocationBudget` (the clock). The process's exit is a stuttering action of
`ConnectionRegistry`.

### Disagreements

`pivot_levels` shows that a pivot whose dimensions name no geography adds the
rows of every level: by peril, a country, its states and their counties count
together (exposures.py:758), where calculations.py:312 promises that the other
levels are dropped.

`wind_grids_raise` shows a grid request that is answered with a 500. Another
thread drops the expired entry of the same grid between the assignment and the
`move_to_end` of `TtlCache.set` (ttl_cache.py:37-38; `get` has the same gap at
line 33), and nothing catches the `KeyError`; the endpoint "degrades to an empty
grid on failure rather than 5xx'ing" (api/live.py:1402).
`RaisesOnlyWhenOverlapped` says that it takes such a rival.

While modelling, the following were met as well. They follow from the modelled
code, and where they touch a property, the property says so in its guard; no run
is kept for them.

* Followers of a failed load do not share its failure but load again, one after
  the other (fact_cache.py:136); an answer may hold mock facts with no warning
  when a later load popped their reason (view_resolve.py:124); a `cancel` that
  lands while the loop marks the job running is overwritten, and the record says
  running for ever (jobs.py:204); `connection` may yield a closed connection
  under the lock of its successor (connection_registry.py:226); a save undoes a
  concurrent save of another treaty (admin.py:169). `ErrorsAreCurrent`,
  `WarningsMatchFacts`, `StrandedOnlyByCancel`, `NeverClosedInUse` and
  `LostLinksAreConcurrent` bound what these can do.
* Storms: an unreachable feed is answered like a storm that is not listed
  (live.py:842); the cone may belong to a later advisory than the track, and the
  alert job turns an unavailable feed into no alerts without a note (live.py:883);
  a track file that is not XML raises; a replay of a single fix raises.
* Weather: the budget is spent on chunks that come from the cache and not on
  retries (wind_forecast.py:660); a partial grid is cached for three minutes.
* Floods: an alert polygon that encloses the requested box is dropped, so "none
  active" is shown inside a warned area (weather_alerts.py:73).
* Losses: a band pinned below its neighbours makes the fitted curve fall
  (curve_fit.py:78).
* Views: the sheets of an export come from four loads (export_excel.py:100, 105,
  134, 140), so a dataset reloaded between the map and the detail is shown with
  different figures, and nothing warns of it, although "numbers MUST match"
  (export_excel.py:9); `ExportTabsAgree` without its premise that the loads found
  no differing rows is violated by just this; a county view over several datasets loses a dataset that has only state
  rows (exposures.py:145); a pivot by county puts the states without counties in
  one row that shows the largest peril only; groups compare their currency with
  nobody's (dataset_groups.py:60); readers recompute a group as if its
  confirmation had been given (exposures.py:823); an export that is too large says
  so only after its sheet (export_excel.py:342); overlapping layers may cede more
  than the loss (layer_calc.py:127).
* Funds: an illiquid sleeve of zero means no limit (fund_analysis.py:509);
  holdings outside the funds asked for count in the capital (451); the fee of the
  fund of funds is left out when a book is scored again (857).

### Fairness

Weak fairness, per thread, coroutine, batch or request, of steps the process has
already begun: Python threads are scheduled, the event loop runs ready tasks, and
a load ends because connecting (15 s) and querying (60 s) time out
(connection_registry.py:211). Never assumed: that requests arrive, that the 300 s
wait expires, that a job is cancelled, that a lock is granted in any order.
`FactLoading` has one fairness condition per batch, weaker than one per worker;
`BatchesEnd` speaks of the time after requests have stopped arriving
(`MaxBatches`). `LiveBundle` is fair to the endpoint's own thread, its deadline and
the calls it makes itself, which have time-outs; no job of its pool need ever
end. `WindGrids` is fair to the requests, not to their chunks. `EdmLinkage`,
`LocationBudget` and the endpoints that compute have no liveness property: no
handler waits.

## 4. What is proved

TLAPS proves the following for every value of the constants that satisfies the
named assumption of the module (capacities and pools of at least one, "none" is
not a member of the sets it extends, finite sets of datasets and treaties,
natural budgets and windows). For the endpoints the assumption says what the
files and feeds hold after their loaders read them: `HazardAssumption`,
`StormAssumption`, `LossAssumption`, `FundAssumption`, `LoadAssumption` (a load
finds finitely many rows with natural values) and `ExposureAssumption`. `Annualise`, the real power of a growth, is a parameter;
`YearlyIsANumber`, that it maps positive growths and months to numbers, cannot be
enumerated by TLC and is the hypothesis of the one theorem that needs it.

| Theorem | States | Inductive invariant |
|---|---|---|
| `FactCacheProofs!TypeCorrect` | `TypeOK`, `LruIsTheCache` | `TypeInv` |
| `FactCacheProofs!SingleFlightHolds` | `SingleFlight`, `FollowersHaveALeader` | with `FlightInv` |
| `FactCacheProofs!CacheReadsThrough` | `FactCache` implements `ReadThrough` | with `VersionInv` |
| `FactCacheProofs!ErrorsStayCurrent` | `ErrorsAreCurrent` | with `ErrorInv` |
| `FactLoadingProofs!TypeCorrect`, `ReasonsAreTrue`, `WarningsAreRight` | `TypeOK`, `ReasonsMatchCache`, `WarningsMatchFacts` | `IInv` |
| `ErtJobsProofs!TypeCorrect`, `OneJobPerEdm`, `OnlyCancelStrands`, `CancellationSticks` | `TypeOK`; `OneActivePerEdm`; `StrandedOnlyByCancel`; `CancelSticks` | `TypeInv`, `JobInv` |
| `EdmDataProofs!TypeCorrect`, `Exclusive`, `NoLeaks`, `UsersKeepTheirConnection` | `TypeOK`; `OpenConnsAreExclusive`; `NoConnectionLeaks`; `NeverClosedInUse` | `PoolInv` |
| `EdmDataProofs!LinkTypeCorrect`, `UpdatesLoseLittle`, `ImportsAreShown`, `ViewsShowCurrentLinks` | `LinkTypeOK`, `LostLinksAreConcurrent`, `ImportsShowThemselves`, `ViewsAreCurrent` | `LinkInv` |
| `EdmDataProofs!SoleEditorUpdatesOneLink` | `PutsChangeOneLink`, for one editor | with `PutsAreFresh` |
| `LiveDataProofs!TypeCorrect`, `TimelyFeedsAreServed`, `BundlesAreOfOneStorm`, `RefreshIsFresh` | `TypeOK`, `FinishedFeedsAreServed`, `OneStormPerBundle`, `RefreshReadsThrough` | `IInv` |
| `LiveDataProofs!BudgetTypeCorrect`, `BudgetAlwaysHolds`, `RefusalsHaveAReason` | `BudgetTypeOK`, `BudgetHolds`, `RefusalsAreJustified` | `IInv` |
| `WindGridsProofs!TypeCorrect`, `RefreshIsFresh`, `RaisesNeedARival` | `Typed`, `RefreshReadsThrough`, `RaisesOnlyWhenOverlapped` | `IInv` |
| `AnalyticsProofs!GapsAlwaysTold` | `GapsAreTold` | the property |
| `AnalyticsProofs!LocationsAlwaysCountOnce` | `EveryLocationCountsOnce` | the property |
| `AnalyticsProofs!ImpactIsOfTheDrawnStorm` | `ImpactFollowsTheDrawnTrack` | the property |
| `AnalyticsProofs!EnvelopeAlwaysHolds` | `EnvelopeHoldsTheMembers` | the property |
| `AnalyticsProofs!LossesAlwaysAccountedFor` | `EveryLossIsAccountedFor` | the property |
| `AnalyticsProofs!FitIsAlwaysIsotonic` | `FitIsTheIsotonicOne` | the property |
| `AnalyticsProofs!FrontierIsAlwaysUndominated` | `FrontierIsUndominated`, if `YearlyIsANumber` | the property |
| `AnalyticsProofs!DealsAreParts` | `DealShareIsAShare` | the property |
| `AnalyticsProofs!TabsAlwaysAgree` | `ExportTabsAgree` | the property |

Why the invariants are stronger than the properties:

* *FactCache.* Single flight needs that `inFlight` names the leader from its
  election to `clear`, and what followers joined. The refinement needs that
  every cached version, and every version a leader holds, is at least as new as
  anything returned before the call that will answer with it began: a cached
  version is at least `returned`, and a leader's is at least the floor of every
  follower. The first lemmas say what the LRU moves do to the order.
* *FactLoading.* While a load is in flight nothing of its dataset is cached and
  only its leader loads (`FlightInv`); the reason is absent at `sql`, present at
  `file`, and fits the facts at `publish` (`PhaseInv`); whoever holds facts of a
  dataset that nobody reloaded agrees with the reasons, and nobody is at `sql`
  then (`HeldInv`). A scan meets at least the keys present at both its ends,
  which is what `HeldInv` says of `scanned`.
* *ErtJobs.* A record is active in its own registry until its coroutine or a
  cancel ends it, and a task that ended early was cancelled (`JobInv`).
* *ConnectionRegistry.* The holder of the key lock is the one thread connecting;
  a pooled lock is held by the thread that checks or uses that entry; an open
  connection that is not pooled is its opener's (`PoolInv`).
* *EdmLinkage.* What a handler holds was current since it began; a file
  that parses holds the map last written (`LinkInv`). With one editor an update
  still holds the current links when it writes (`PutsAreFresh`).
* *LiveBundle.* A refreshing request never takes an entry from the cache that
  was there before it, and what the network answers is as new as any arrival so
  far (`FreshInv`, `FetchedIsCurrent`); a collected result is its job's own, or a
  default taken after the deadline for a job that was not in time (`GatherInv`);
  a storm of the archive belongs to a retired id and has no official fixes
  (`StormInv`, `JobsInv`).
* *LocationBudget.* The deque is the end of the history of grants
  (`DequeIsRecent`), what has left it is a window old (`GoneIsOld`), and the
  history is in the order of the grants, each at most a lag after its time stamp
  (`GrantsAreOrdered`): the grants of a shortened window are then a subset of the
  deque, whose length a claim keeps within the budget.
* *WindGrids.* A refreshing request never looks at the grid cache, and every chunk
  it holds, then the grid made of them, is no older than its arrival (`Fresh`). A
  request that nothing overlapped is the only one in hand, so the entry it found
  or just stored is still there when it moves it to the end (`Alone`).

* *The endpoints that compute.* A reply is a function of its call and of the
  files, so the property is inductive as it stands and the work is in the
  algorithms.
  * *GapsAreTold.* Every way to fewer fires, perimeters, alerts or reaches that
    the property names passes one of the statements that append a note, and what
    a cache keeps still has the mark of what was cut off: a heat map is kept only
    when complete, perimeters with their note, an extent with its flag.
  * *EveryLocationCountsOnce.* A point inside by the even-odd rule lies in the
    bounding box of the ring, so the box test and the cells of the index that the
    box covers lose no location; what they find too much the ring test takes out;
    a location found by two parts is counted once because the parts are joined as
    a set. Dissolving the zones only groups the same locations.
  * *ImpactFollowsTheDrawnTrack.* Ordering by rank is a bijection from positions
    to members that keeps the order, so each lead time has one last fix, and that
    fix is drawn on the map at the same place. The first lemmas prove induction
    over the naturals and over finite sets from the existence of least elements,
    and from it that filters and sorts lose nothing.
  * *EveryLossIsAccountedFor.* A sum over a set is a fold that takes away a
    member of its own choice; that any member may be taken first (`AnyFirst`)
    makes a sum over two disjoint parts the sum of theirs (`SumOfParts`). The
    segments partition an event's losses (`SegmentsAddUp`), and the county losses
    are scored, missed, without values, or nothing (`MatchedIsAllOfIt`), where
    "nothing" is exactly zero because no loss is negative. The loader refuses a
    negative loss; the sign of index values and of an analyst's multipliers is
    not checked, so `LossAssumption` asks it of the files: with a negative
    multiplier a place could hold a loss below zero, which no part counts.
  * *EnvelopeHoldsTheMembers.* A point is `Supported` by a set when in every
    direction some point of the set is as far. Whatever is in a triangle is
    supported by its corners (`TriangleSupports`, from the linear dependence of
    three vectors of the plane), so the farthest point of a finite set, ties
    broken by a slight tilt, is in no triangle of the others: a vertex of the
    hull (`ExtremePoint`), and the hull supports the set (`HullSupports`). Support
    passes from the members at an anchor to its hull, from there to the hull of
    the hulls, and from a member to the corridor, halfway between two of whose
    points it is (`HalfWay`). Conversely a point in no triangle of a set has one
    of its points to the right of all (`Rightmost`), which gives a direction in
    which it is beyond them all (`Separation`): the ring that supports a member
    has it in a triangle. `StormAssumption` says that positions are points of the
    integer plane; two fixes at least, which the corridor needs to have a
    direction, come from the selection of the techs (`TracksAreCharted`).
  * *FitIsTheIsotonicOne.* The statement is about every sequence of integers,
    the means rounded down as the model's are. `Level` says of a stretch of values
    and its mean that every beginning of it is worth the mean at least, and every
    ending less than the mean and one; two neighbours that fall merge into a
    stretch that keeps this (`MergedLevel`). The blocks partition the values read
    so far, each with its level (`Blocked`), and rise except perhaps to the last
    (`Pooling`); merging back from the last restores the rise (`Settled`) within
    as many rounds as there are blocks. In what the blocks are spread to
    (`FlattenedAt`) a place has the mean of its block; no stretch that begins with
    the block has a smaller one (`AboveLevel`), none that ends with it a larger
    (`BelowLevel`), which makes it the largest of the smallest
    (`LargestOfSmallest`).
  * *FrontierIsUndominated.* In the order of volatility the bins rise, so the
    best point of a calmer bin comes first and a point of the sweep that rises
    above all bests before it is above every point of the calmer bins
    (`NoneIsBetter`); among the bests of the bins up to a point's own, the first
    of those that return most rises (`SomeIsAsGood`). The rest shows that there
    are points to compare: every correction of the limits turns a book of numbers
    into a book of numbers or gives it up (`Books`), because each divisor is a sum
    of positive terms where the code reaches it: the room below the caps, the
    illiquid share above the sleeve, the mass that is drawn, the capital. That is
    followed through the 20 rounds of the caps (`ProjectType`) and the 24 passes
    (`FinalType`) for any limits.
  * *DealShareIsAShare.* A programme's rows were found alike and are in its
    currency, so they are among the portfolio's (`DealFacts`), but the two fall
    back from counties to states apart: a state that has no counties in the deal
    may have some in the portfolio, which then has no row of that state and no
    share is given. Where it has one, the rows of the place in the deal are among
    the portfolio's (`DealInPortfolio`), each peril is worth no less there
    (`TivGrows`), and so is the largest (`WorthGrows`).
  * *ExportTabsAgree.* A dataset that failed for one sheet alone is warned of, and
    one found by both has the same rows, so the loads of two sheets give the same
    view (`SameView`) and the same comparison (`SamePrior`). The map and the
    detail are then computed from the same selection (`DetailAgrees`). The
    features that have a value correspond to the places of the map (`MapTotal`),
    the keys of a pivot by the level of the map correspond to those places
    (`SameKeys`), and a sum does not depend on the names of its terms
    (`SumThroughNames`).

Model-checked only:

* all liveness (`FollowersWake`, `BatchesEnd`, `TasksEnd`, `FailuresAreReported`,
  `LocksAreReleased`, `EveryRequestIsAnswered`, `RequestsEnd`): liveness under
  fairness and `ENABLED` are beyond the installed prover;
* `FootprintsAreTheirCells`: that the walked outlines, each counted by even and
  odd and the holes given to the smallest ring around them, hold the cells they
  were made from is a curve theorem about nested closed walks, well beyond what
  the steps of the code say;
* `CoreIsSweptBetweenFixes`, true of radii like those of the feed and of the
  counties of the run, not of any numbers;
* `BooksObeyTheirLimits`, whose slack for rounding fits the catalogue of the run:
  the code renormalises floating-point weights and allows 1e-6, the model divides
  integers, and how much several rounded corrections can add up to depends on the
  number of names, so for other catalogues the constant would have to grow.

`RECURSIVE` operators and the operators of the library that TLC overrides or
declares recursively (`SelectSeq`, `SortSeq`, `:>`, `@@`) say nothing to the
provers; `Absent` defines the filter and the stable sort the modules use as set
expressions. Type invariants are proved and not model-checked; the modules of
the endpoints have none beyond what their properties say.

## 5. What is not modelled

* Row mapping, SQL text, configuration, e-mail transport and logging are left out
  of the modelled components. A dataset without a programme, and the load of a
  single dataset on the request's own thread (`load_many` starts no pool for it),
  add no outcome to those of `FactLoading`.
* Floating-point formulas: wind profiles and interpolation, the beta integral of
  the deductible, the optimiser's objective and random sampling, polygon
  sampling on the sphere, colours and drawing. TLC has integers; a property of
  their values would be one of their stand-ins.
* Fetching and parsing of JMA typhoons, reconnaissance, buoys and evidence links:
  text processing. Whether they answer in time is in `LiveBundle`.
* The single-page application: its stores are setters, its queries are keyed by
  what they ask for, and its timers are React Query's. Its polling of a job that
  a restarted server no longer knows is therefore not checked (hooks.ts:132), and
  neither is the page that saves links it fetched up to 30 s earlier
  (AdminProgrammes.tsx:374), which `LostLinksAreConcurrent` counts as concurrent.
* The lazily built singletons (providers/__init__.py:13 and jobs.py:274; the
  latter is in `ErtJobs`), the iteration over a dictionary that grows
  (view_resolve.py:127, in `FactLoading` as `ScanRaises`) and the atomicity of
  `cancel` (jobs.py:183, in `ErtJobs`) have no property of their own.
* The scripts that build data files run by hand, alone.
