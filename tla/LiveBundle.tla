---------------------------- MODULE LiveBundle ----------------------------
(***************************************************************************)
(* GET /api/live/storms/{atcf_id}: the storm is looked up in NHC's feed    *)
(* through the two-minute cache, its track is assembled, and every other   *)
(* product is fetched by a pool of threads under one deadline.             *)
(*                                                                         *)
(* One request is followed; the other requests of the process appear as    *)
(* what they do to the shared cache (OthersRefresh, OthersFetch).          *)
(* Positions, colours and wire layout are left out: a product is its       *)
(* arrival and the number of the advisory it was taken from.               *)
(***************************************************************************)
EXTENDS Absent, Naturals, FiniteSets

CONSTANTS MaxWorkers,  \* threads of one gather, 8 in the code
          MaxMoves,    \* bound on the steps of the outside world
          OptionSets   \* the sets of optional feeds a request may ask for

OptionalFeeds == {"surge", "alerts", "buoys", "land", "sst", "wind"}
Ids == {"nhc", "invest", "jma", "retired"}
Tracks == {"points", "one_point"}

ASSUME BundleAssumption ==
  /\ MaxWorkers \in Nat \ {0}
  /\ MaxMoves \in Nat
  /\ OptionSets \subseteq SUBSET OptionalFeeds

VARIABLES
  feed,      \* CurrentStorms.json as NHC serves it now
  cache,     \* _STORMS_CACHE: None, or the snapshot and whether it expired
  moves,     \* steps the outside world has taken
  request,   \* the parameters of the request, and the advisory at its arrival
  stage,     \* where the request is
  found,     \* the entry of CurrentStorms.json in hand, or None
  storm,     \* what storm_and_forecasts returned, or None
  futures,   \* the submitted jobs, each with its state and its advisory
  overdue,   \* the shared deadline has passed
  timely,    \* history: the feeds that had answered when the deadline passed
  got,       \* _gather's out: the jobs collected so far
  bundle     \* the response
vars == <<feed, cache, moves, request, stage, found, storm, futures, overdue, timely, got, bundle>>
world == <<feed, cache, moves>>

(***************************************************************************)
(* The jobs of a bundle, in the order of the dict that _gather walks.      *)
(***************************************************************************)
JobOrder == [cone |-> 1, radii |-> 2, surge |-> 3, recon |-> 4, official |-> 5,
             alerts |-> 6, buoys |-> 7, land |-> 8, sst |-> 9, wind |-> 10]
Jobs == DOMAIN JobOrder
LiveOnly == {"cone", "radii", "surge", "recon"}
NhcProducts == {"cone", "radii", "surge"}

BundleJobs(live, options) ==
  {j \in Jobs : (j \in LiveOnly => live) /\ (j \in OptionalFeeds => j \in options)}
Ahead(j, jobs) == {k \in jobs : JobOrder[k] < JobOrder[j]}

Snapshot == [listed : BOOLEAN, adv : 0..MaxMoves + 1]
Statuses == {"pending", "ok", "empty", "raised"}
Default == [state |-> "default", adv |-> 0]

Init ==
  /\ feed \in [up : BOOLEAN, listed : BOOLEAN, adv : {1}]
  /\ cache = None /\ moves = 0
  /\ request = None /\ stage = "idle"
  /\ found = None /\ storm = None
  /\ futures = <<>> /\ overdue = FALSE /\ timely = {}
  /\ got = <<>> /\ bundle = None

(***************************************************************************)
(* The outside world: NHC issues an advisory, lists or drops the storm,    *)
(* cannot be reached; two minutes pass; another request refreshes (clears) *)
(* or fills the cache.                                                     *)
(***************************************************************************)
Entry(f) == [listed |-> f.listed, adv |-> f.adv]
Cached(e) == [snap |-> e, expired |-> FALSE]

Move == /\ moves < MaxMoves /\ stage # "done" /\ moves' = moves + 1
        /\ UNCHANGED <<request, stage, found, storm, futures, overdue, timely, got, bundle>>
NewAdvisory   == Move /\ feed' = [feed EXCEPT !.adv = @ + 1] /\ UNCHANGED cache
FeedToggles   == /\ Move /\ UNCHANGED cache
                 /\ \/ feed' = [feed EXCEPT !.up = ~@]
                    \/ feed' = [feed EXCEPT !.listed = ~@]
CacheExpires  == /\ Move /\ cache # None /\ UNCHANGED feed
                 /\ cache' = [cache EXCEPT !.expired = TRUE]
OthersRefresh == Move /\ cache # None /\ cache' = None /\ UNCHANGED feed
\* The answer another request stores may have been on its way for a while.
OthersFetch   == /\ Move /\ feed.up /\ UNCHANGED feed
                 /\ \E adv \in 0..feed.adv : cache' = Cached([Entry(feed) EXCEPT !.adv = adv])

(***************************************************************************)
(* Arrival. A JMA id never touches NHC; an invest id is no storm.          *)
(***************************************************************************)
NotFound == [status |-> 404]
Arrive ==
  /\ stage = "idle"
  /\ \E id \in Ids, refresh \in BOOLEAN, options \in OptionSets :
       /\ request' = [id |-> id, refresh |-> refresh, options |-> options, since |-> feed.adv]
       /\ cache' = IF refresh /\ id # "jma" THEN None ELSE cache
       /\ CASE id = "jma"    -> /\ stage' = "done"
                                /\ bundle' \in {NotFound, [status |-> 200, jma |-> TRUE]}
            [] id = "invest" -> stage' = "done" /\ bundle' = NotFound
            [] OTHER         -> stage' = "lookup" /\ UNCHANGED bundle
  /\ UNCHANGED <<feed, moves, found, storm, futures, overdue, timely, got>>

(***************************************************************************)
(* TtlCache.get reads the item, drops it when it has expired, and then     *)
(* moves it to the end: the entry another request removed in between       *)
(* raises KeyError, which _get_live_entry turns into "no such storm".      *)
(***************************************************************************)
\* Mutant of Hit: the lookup ignores refresh.
HitAnyway == cache # None
Hit == ~request.refresh /\ cache # None

CacheGet ==
  /\ stage = "lookup"
  /\ IF Hit /\ ~cache.expired
     THEN found' = cache.snap /\ stage' = "touch" /\ UNCHANGED cache
     ELSE /\ cache' = IF Hit THEN None ELSE cache
          /\ stage' = "fetch" /\ UNCHANGED found
  /\ UNCHANGED <<feed, moves, request, storm, futures, overdue, timely, got, bundle>>

CacheTouch ==
  /\ stage = "touch"
  /\ found' = IF cache = None THEN None ELSE found
  /\ stage' = "resolve"
  /\ UNCHANGED <<world, request, storm, futures, overdue, timely, got, bundle>>

\* What one call of the network returns to the thread that makes it, and stores.
FetchedEntry == IF feed.up THEN Entry(feed) ELSE None
Stored == IF feed.up THEN Cached(Entry(feed)) ELSE cache

FetchCurrentStorms ==
  /\ stage = "fetch"
  /\ found' = FetchedEntry /\ cache' = Stored
  /\ stage' = "resolve"
  /\ UNCHANGED <<feed, moves, request, storm, futures, overdue, timely, got, bundle>>

(***************************************************************************)
(* storm_and_forecasts. The forecast is NHC's track file; when that gives  *)
(* no fix, points along the motion vector; without motion, the one current *)
(* fix. A storm that is not in the feed is taken from IBTrACS. A track     *)
(* file that is reached but is not XML raises out of the endpoint.         *)
(***************************************************************************)
ForecastPoints(file) == IF file = "still" THEN "one_point" ELSE "points"

LiveStorm(e, file) == [live |-> TRUE, adv |-> e.adv, track |-> ForecastPoints(file)]
ReplayStorm == [live |-> FALSE, adv |-> 0, track |-> "points"]

Resolve ==
  /\ stage = "resolve"
  /\ \E file \in {"fixes", "motion", "still", "not_xml"} :
       IF found # None /\ found.listed /\ request.id = "nhc"
       THEN IF file = "not_xml"
            THEN bundle' = [status |-> 500] /\ stage' = "done" /\ UNCHANGED storm
            ELSE storm' = LiveStorm(found, file) /\ stage' = "submit" /\ UNCHANGED bundle
       ELSE IF request.id = "retired"
            THEN storm' = ReplayStorm /\ stage' = "submit" /\ UNCHANGED bundle
            ELSE bundle' = NotFound /\ stage' = "done" /\ UNCHANGED storm
  /\ UNCHANGED <<world, request, found, futures, overdue, timely, got>>

(***************************************************************************)
(* _gather submits the jobs together. The pool's threads take them in that *)
(* order, so the first MaxWorkers jobs that have not ended are running.    *)
(***************************************************************************)
Submitted == BundleJobs(storm.live, request.options)
Finished(j) == futures[j].state # "pending"
Unfinished == {j \in Submitted : ~Finished(j)}
Running == {j \in Unfinished : Cardinality(Ahead(j, Unfinished)) < MaxWorkers}

Submit ==
  /\ stage = "submit" /\ stage' = "gather"
  /\ futures' = [j \in Submitted |-> [state |-> "pending", adv |-> 0]]
  /\ UNCHANGED <<world, request, found, storm, overdue, timely, got, bundle>>

(***************************************************************************)
(* The jobs. An NHC product looks the storm up again, so it may belong to  *)
(* a later advisory than the track; the official fixes of a replay storm   *)
(* are empty without a call. A job may also never end. What a job does     *)
(* after the response is no more than another request can do to the cache. *)
(***************************************************************************)
FreshHit == Hit /\ ~cache.expired
Again == IF FreshHit THEN cache.snap ELSE FetchedEntry
AgainStored == IF FreshHit THEN cache ELSE Stored

Outcomes(j) ==
  IF \/ j \in NhcProducts /\ (Again = None \/ ~Again.listed)
     \/ j = "official" /\ ~storm.live
  THEN {"empty"}
  ELSE IF j \in {"alerts", "radii"} THEN {"ok", "empty"} ELSE {"ok", "raised"}

JobEnds(j) ==
  /\ stage = "gather" /\ j \in Running
  /\ \E outcome \in Outcomes(j) :
       futures' = [futures EXCEPT ![j] =
         [state |-> outcome,
          adv |-> IF j \in NhcProducts /\ outcome = "ok" THEN Again.adv ELSE 0]]
  /\ cache' = IF j \in NhcProducts THEN AgainStored ELSE cache
  /\ UNCHANGED <<feed, moves, request, stage, found, storm, overdue, timely, got, bundle>>

DeadlinePasses ==
  /\ stage = "gather" /\ ~overdue /\ overdue' = TRUE
  /\ timely' = {j \in DOMAIN futures : futures[j].state = "ok"}
  /\ UNCHANGED <<world, request, stage, found, storm, futures, got, bundle>>

(***************************************************************************)
(* _gather takes the jobs in order: a finished one gives its result or,    *)
(* when it raised, its default; for another one it waits until it ends or  *)
(* the deadline passes. From then on nothing waits: the rest of the loop   *)
(* is one step.                                                            *)
(***************************************************************************)
Taken(j) == IF futures[j].state = "raised" THEN Default ELSE futures[j]
\* Mutant of CollectOrDefault: past the deadline even an answer is dropped.
CollectInTime(j) == IF Finished(j) /\ ~overdue THEN Taken(j) ELSE Default
CollectOrDefault(j) == IF Finished(j) THEN Taken(j) ELSE Default
\* Mutant of MayCollect: the collector waits for every job.
CollectWhenFinished(j) == Finished(j)
MayCollect(j) == Finished(j) \/ overdue
IsNextJob(j) == j \in Submitted \ DOMAIN got /\ Ahead(j, Submitted) \subseteq DOMAIN got

Collect ==
  /\ stage = "gather"
  /\ \E next \in Jobs :
       /\ IsNextJob(next) /\ MayCollect(next)
       /\ got' = [j \in IF overdue THEN Submitted ELSE DOMAIN got \cup {next} |->
                    IF j \in DOMAIN got THEN got[j] ELSE CollectOrDefault(j)]
  /\ UNCHANGED <<world, request, stage, found, storm, futures, overdue, timely, bundle>>

(***************************************************************************)
(* The sections of the response.                                           *)
(***************************************************************************)
Arrived(j) == j \in DOMAIN got /\ got[j].state = "ok"

\* NHC's cone, else circles of the mean track error: none for a single fix.
SyntheticCone == IF storm.track = "points" THEN "synthetic" ELSE "none"
ForecastCone ==
  IF ~storm.live THEN "none" ELSE IF Arrived("cone") THEN "official" ELSE SyntheticCone

\* NHC's swath, else rings from the official radii, else from the measured
\* radii of IBTrACS (looked up for a replay storm only) or from Rmax.
ParametricRings(stormId) ==
  IF Arrived("official") THEN "official_radii"
  ELSE IF stormId # "" THEN "ibtracs" ELSE "rmax"
\* Mutant of ConeStormId: live storms are looked up in IBTrACS too.
ConeStormIdAlways == request.id
ConeStormId == IF storm.live THEN "" ELSE request.id
WindRings == IF storm.live /\ Arrived("radii") THEN "nhc_swath" ELSE ParametricRings(ConeStormId)

Recon == storm.live /\ Arrived("recon")

\* The stations' field, gridded again with the hunters' samples when there are some.
WindMap ==
  IF "wind" \notin request.options THEN {}
  ELSE (IF Arrived("wind") THEN {"stations"} ELSE {}) \cup (IF Recon THEN {"recon"} ELSE {})

Respond ==
  /\ stage = "gather" /\ DOMAIN got = Submitted
  /\ bundle' = [status |-> 200, jma |-> FALSE, live |-> storm.live,
                adv |-> storm.adv, cone |-> ForecastCone, rings |-> WindRings,
                coneAdv |-> IF ForecastCone = "official" THEN got["cone"].adv ELSE storm.adv,
                surge |-> storm.live /\ Arrived("surge"), recon |-> Recon,
                feeds |-> {j \in {"alerts", "buoys", "land", "sst"} : Arrived(j)},
                windMap |-> WindMap]
  /\ stage' = "done"
  /\ UNCHANGED <<world, request, found, storm, futures, overdue, timely, got>>

Steps == \/ Arrive \/ CacheGet \/ CacheTouch \/ FetchCurrentStorms \/ Resolve
         \/ Submit \/ DeadlinePasses \/ Collect \/ Respond
World == NewAdvisory \/ FeedToggles \/ CacheExpires \/ OthersRefresh \/ OthersFetch
Next == Steps \/ World \/ \E j \in Jobs : JobEnds(j)

Spec == Init /\ [][Next]_vars

\* The endpoint's own thread, the clock and the calls with a time-out make
\* progress; no job of the pool is assumed to end.
FairSpec == Spec /\ WF_vars(Steps)

(***************************************************************************)
(* Properties                                                              *)
(***************************************************************************)
Served == bundle # None /\ bundle.status = 200 /\ request.id # "jma"

\* The stages, the jobs and the sections are what the code can make of them.
TypeOK ==
  /\ feed \in [up : BOOLEAN, listed : BOOLEAN, adv : 0..MaxMoves + 1]
  /\ cache \in {None} \cup [snap : Snapshot, expired : BOOLEAN]
  /\ moves \in 0..MaxMoves
  /\ stage \in {"idle", "lookup", "touch", "fetch", "resolve", "submit", "gather", "done"}
  /\ found \in {None} \cup Snapshot
  /\ \A j \in DOMAIN futures : futures[j] \in [state : Statuses, adv : 0..MaxMoves + 1]
  /\ DOMAIN got \cup timely \subseteq Jobs
  /\ bundle # None => stage = "done"

\* A feed that had answered when the deadline passed is in the response: a job
\* the collector was still waiting for, or one far down the list that finished
\* early, does not cost it (the comment at api/live.py:672).
FinishedFeedsAreServed ==
  Served =>
    /\ "cone" \in timely => bundle.cone = "official"
    /\ "radii" \in timely => bundle.rings = "nhc_swath"
    /\ "official" \in timely => bundle.rings \in {"nhc_swath", "official_radii"}
    /\ "surge" \in timely => bundle.surge
    /\ "recon" \in timely => bundle.recon
    /\ "wind" \in timely => "stations" \in bundle.windMap
    /\ timely \cap {"alerts", "buoys", "land", "sst"} \subseteq bundle.feeds

\* A replay storm carries nothing of today's missions and products, a live one
\* nothing of IBTrACS, and a live forecast of several points always has a cone,
\* whichever of the feeds failed.
OneStormPerBundle ==
  Served =>
    /\ ~bundle.live => /\ bundle.cone = "none" /\ bundle.rings = "ibtracs"
                       /\ ~bundle.surge /\ ~bundle.recon /\ "recon" \notin bundle.windMap
    /\ bundle.live  => /\ bundle.rings # "ibtracs"
                       /\ storm.track = "points" => bundle.cone # "none"

\* refresh=true: the track and the cone are of an advisory that was current at
\* the arrival of the request or later, whatever other requests store meanwhile.
RefreshReadsThrough ==
  Served /\ bundle.live /\ request.refresh =>
    bundle.adv >= request.since /\ bundle.coneAdv >= request.since

\* Every request is answered, even when jobs of its pool never end.
EveryRequestIsAnswered == (stage = "lookup") ~> (stage = "done")
=============================================================================
