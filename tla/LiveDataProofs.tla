--------------------------- MODULE LiveDataProofs ---------------------------
(***************************************************************************)
(* Theorems of the two components that serve live data under a limit: the  *)
(* storm's bundle, gathered by a pool of threads under one deadline, and   *)
(* the minute budget of the weather service.                               *)
(***************************************************************************)
EXTENDS LiveBundle, LocationBudget, FiniteSetTheorems, TLAPS

(***************************************************************************)
(* LiveBundle.                                                             *)
(*                                                                         *)
(* What a bundle says belongs together, for every number of threads of the *)
(* pool, every set of optional feeds and however often the outside world   *)
(* moves. The argument follows the request: what it holds is as new as its *)
(* arrival when it refreshes (FreshInv), a collected answer is the job's   *)
(* own unless the deadline passed before the job ended (GatherInv), and a  *)
(* storm of the archive has no official forecast (StormInv).               *)
(***************************************************************************)
Request == [id : Ids, refresh : BOOLEAN, options : SUBSET OptionalFeeds, since : Nat]
Storm == [live : BOOLEAN, adv : Nat, track : Tracks]

\* The world's advisories are counted by its moves.
WorldInv == feed.adv <= moves + 1

\* A request that has arrived is well formed, and its arrival is past.
RequestInv == stage # "idle" => request \in Request /\ request.since <= feed.adv

\* With refresh, the entry in hand comes from the network.
FreshInv ==
  stage # "idle" /\ request.refresh =>
    /\ stage # "touch"
    /\ stage = "resolve" /\ found # None => found.adv >= request.since

\* Only a retired storm is taken from the archive.
StormInv ==
  stage \in {"submit", "gather"} =>
    /\ storm \in Storm
    /\ ~storm.live => request.id = "retired"
    /\ storm.live /\ request.refresh => storm.adv >= request.since

\* The jobs of the pool.
JobsInv ==
  stage = "gather" =>
    /\ DOMAIN futures = Submitted
    /\ ~storm.live /\ "official" \in DOMAIN futures => futures["official"].state # "ok"
    /\ request.refresh =>
         \A j \in DOMAIN futures \cap NhcProducts :
           futures[j].state = "ok" => futures[j].adv >= request.since

\* What has been collected, and what had answered at the deadline.
GatherInv ==
  /\ stage \notin {"gather", "done"} => DOMAIN got = {} /\ timely = {} /\ ~overdue
  /\ stage = "gather" =>
       /\ DOMAIN got \subseteq DOMAIN futures
       /\ \A j \in timely : overdue /\ j \in DOMAIN futures /\ futures[j].state = "ok"
       /\ \A j \in DOMAIN got :
            \/ Finished(j) /\ got[j] = Taken(j)
            \/ overdue /\ j \notin timely /\ got[j] = Default

Promises == FinishedFeedsAreServed /\ OneStormPerBundle /\ RefreshReadsThrough

IInv == /\ TypeOK /\ WorldInv /\ RequestInv /\ FreshInv /\ StormInv
        /\ JobsInv /\ GatherInv /\ Promises

LEMMA InitHolds == Init => IInv
<1> SUFFICES ASSUME Init PROVE IInv
  OBVIOUS
<1> USE BundleAssumption DEF Init
<1>1. TypeOK
  BY DEF TypeOK, Snapshot, Jobs
<1>2. Promises
  BY DEF Promises, Served, FinishedFeedsAreServed, OneStormPerBundle, RefreshReadsThrough
<1>3. QED
  BY <1>1, <1>2 DEF IInv, WorldInv, RequestInv, FreshInv, StormInv, JobsInv, GatherInv

\* Before the answer there is nothing to promise, and after it nothing moves.
LEMMA PromisesStay ==
  ASSUME IInv, bundle' = None \/ UNCHANGED <<request, storm, timely, bundle>>
  PROVE  Promises'
<1>1. CASE bundle' = None
  BY <1>1 DEF Promises, Served, FinishedFeedsAreServed, OneStormPerBundle, RefreshReadsThrough
<1>2. CASE UNCHANGED <<request, storm, timely, bundle>>
  BY <1>2 DEF IInv, Promises, Served, FinishedFeedsAreServed, OneStormPerBundle, RefreshReadsThrough
<1>3. QED
  BY <1>1, <1>2

\* A refusal or another agency's storm promises nothing.
LEMMA RefusalsPromiseNothing ==
  ASSUME \/ bundle' = NotFound \/ bundle' = [status |-> 500]
         \/ request'.id = "jma"
  PROVE  Promises'
BY DEF Promises, Served, FinishedFeedsAreServed, OneStormPerBundle, RefreshReadsThrough, NotFound

\* An entry of the network is as new as any arrival so far.
LEMMA FetchedIsCurrent ==
  ASSUME IInv
  PROVE  /\ FetchedEntry \in {None} \cup Snapshot
         /\ stage # "idle" /\ FetchedEntry # None => FetchedEntry.adv >= request.since
         /\ Stored \in {None} \cup [snap : Snapshot, expired : BOOLEAN]
         /\ feed.adv \in 0..MaxMoves + 1
<1> USE BundleAssumption DEF IInv
<1>1. /\ feed \in [up : BOOLEAN, listed : BOOLEAN, adv : 0..MaxMoves + 1]
      /\ cache \in {None} \cup [snap : Snapshot, expired : BOOLEAN]
  BY DEF TypeOK
<1>2. Entry(feed) \in Snapshot /\ Entry(feed).adv = feed.adv
  BY <1>1 DEF Entry, Snapshot
<1>3. Cached(Entry(feed)) \in [snap : Snapshot, expired : BOOLEAN]
  BY <1>2 DEF Cached
<1>4. stage # "idle" => feed.adv >= request.since
  BY <1>1 DEF RequestInv, Request
<1>5. QED
  BY <1>1, <1>2, <1>3, <1>4 DEF FetchedEntry, Stored

LEMMA MovesKeep ==
  ASSUME IInv, World
  PROVE  IInv'
<1> USE BundleAssumption
<1>m. Move
  BY DEF World, NewAdvisory, FeedToggles, CacheExpires, OthersRefresh, OthersFetch
<1>t. TypeOK /\ WorldInv
  BY DEF IInv
<1>1. /\ feed' \in [up : BOOLEAN, listed : BOOLEAN, adv : 0..MaxMoves + 1]
      /\ feed'.adv >= feed.adv /\ feed'.adv <= moves' + 1
  <2>1. /\ feed \in [up : BOOLEAN, listed : BOOLEAN, adv : 0..MaxMoves + 1]
        /\ moves \in Nat /\ moves < MaxMoves /\ moves' = moves + 1 /\ feed.adv <= moves + 1
    BY <1>m, <1>t DEF Move, TypeOK, WorldInv
  <2>2. CASE NewAdvisory
    <3>1. feed' = [feed EXCEPT !.adv = feed.adv + 1]
      BY <2>2 DEF NewAdvisory
    <3>2. feed.adv \in Nat /\ feed.adv + 1 \in 0..MaxMoves + 1 /\ feed.adv + 1 <= moves' + 1
      BY <2>1
    <3>3. feed' \in [up : BOOLEAN, listed : BOOLEAN, adv : 0..MaxMoves + 1] /\ feed'.adv = feed.adv + 1
      BY <2>1, <3>1, <3>2
    <3>4. QED
      BY <3>2, <3>3
  <2>3. CASE FeedToggles
    <3>1. feed' = [feed EXCEPT !.up = ~feed.up] \/ feed' = [feed EXCEPT !.listed = ~feed.listed]
      BY <2>3 DEF FeedToggles
    <3>2. feed'.adv = feed.adv /\ feed' \in [up : BOOLEAN, listed : BOOLEAN, adv : 0..MaxMoves + 1]
      <4>1. (~feed.up) \in BOOLEAN /\ (~feed.listed) \in BOOLEAN
        OBVIOUS
      <4>2. QED
        BY <2>1, <3>1, <4>1
    <3>3. QED
      BY <2>1, <3>2
  <2>4. CASE feed' = feed
    BY <2>1, <2>4
  <2>5. QED
    BY <2>2, <2>3, <2>4 DEF World, CacheExpires, OthersRefresh, OthersFetch
<1>2. cache' \in {None} \cup [snap : Snapshot, expired : BOOLEAN]
  <2>1. CASE OthersFetch
    <3>1. PICK adv \in 0..feed.adv : cache' = Cached([Entry(feed) EXCEPT !.adv = adv])
      BY <2>1 DEF OthersFetch
    <3>2. [Entry(feed) EXCEPT !.adv = adv] \in Snapshot
      BY <1>t DEF TypeOK, Entry, Snapshot
    <3>3. QED
      BY <3>1, <3>2 DEF Cached
  <2>2. CASE ~OthersFetch
    BY <2>2, <1>t DEF World, NewAdvisory, FeedToggles, CacheExpires, OthersRefresh, TypeOK
  <2>3. QED
    BY <2>1, <2>2
<1>3. TypeOK'
  BY <1>m, <1>t, <1>1, <1>2 DEF Move, TypeOK
<1>4. RequestInv'
  BY <1>m, <1>t, <1>1 DEF Move, TypeOK, IInv, RequestInv, Request
<1>5. (FreshInv /\ StormInv)'
  BY <1>m DEF Move, IInv, FreshInv, StormInv
<1>6. (JobsInv /\ GatherInv)'
  BY <1>m DEF Move, IInv, JobsInv, GatherInv, Submitted, Finished, Taken
<1>7. Promises'
  BY <1>m, PromisesStay DEF Move
<1>8. QED
  BY <1>1, <1>3, <1>4, <1>5, <1>6, <1>7 DEF IInv, WorldInv

LEMMA LookupKeeps ==
  ASSUME IInv, Arrive \/ CacheGet \/ CacheTouch \/ FetchCurrentStorms
  PROVE  IInv'
<1> USE BundleAssumption
<1>t. TypeOK /\ FetchedEntry \in {None} \cup Snapshot /\ feed.adv \in Nat
      /\ Stored \in {None} \cup [snap : Snapshot, expired : BOOLEAN]
      /\ (stage # "idle" /\ FetchedEntry # None => FetchedEntry.adv >= request.since)
  BY FetchedIsCurrent DEF IInv
<1>1. CASE Arrive
  <2>1. PICK id \in Ids, refresh \in BOOLEAN, options \in OptionSets :
          /\ request' = [id |-> id, refresh |-> refresh, options |-> options, since |-> feed.adv]
          /\ cache' = IF refresh /\ id # "jma" THEN None ELSE cache
          /\ CASE id = "jma"    -> /\ stage' = "done"
                                   /\ bundle' \in {NotFound, [status |-> 200, jma |-> TRUE]}
               [] id = "invest" -> stage' = "done" /\ bundle' = NotFound
               [] OTHER         -> stage' = "lookup" /\ UNCHANGED bundle
    BY <1>1 DEF Arrive
  <2>2. request' \in Request /\ request'.since = feed.adv
    BY <1>t, <2>1 DEF Request
  <2>3. \/ id = "jma" /\ stage' = "done" /\ request'.id = "jma"
        \/ stage' = "done" /\ bundle' = NotFound
        \/ stage' = "lookup" /\ UNCHANGED bundle
    BY <2>1
  <2>4. stage = "idle" /\ UNCHANGED <<feed, moves, found, storm, futures, overdue, timely, got>>
    BY <1>1 DEF Arrive
  <2>5. TypeOK'
    BY <1>t, <2>1, <2>3, <2>4 DEF TypeOK
  <2>6. (WorldInv /\ RequestInv)'
    BY <1>t, <2>2, <2>4 DEF IInv, WorldInv, RequestInv
  <2>7. (FreshInv /\ StormInv /\ JobsInv)'
    BY <2>3 DEF FreshInv, StormInv, JobsInv
  <2>8. GatherInv'
    BY <2>3, <2>4 DEF IInv, GatherInv
  <2>9. Promises'
    <3>1. CASE UNCHANGED bundle
      BY <1>t, <2>4, <3>1 DEF TypeOK, Promises, Served, FinishedFeedsAreServed, OneStormPerBundle, RefreshReadsThrough
    <3>2. QED
      BY <2>3, <3>1, RefusalsPromiseNothing
  <2>10. QED
    BY <2>5, <2>6, <2>7, <2>8, <2>9 DEF IInv
<1>2. CASE CacheGet
  <2>1. TypeOK'
    <3>1. cache # None => cache.snap \in Snapshot
      BY <1>t DEF TypeOK
    <3>2. QED
      BY <1>2, <1>t, <3>1 DEF CacheGet, Hit, TypeOK
  <2>2. Promises'
    BY <1>2, PromisesStay DEF CacheGet
  <2>3. (WorldInv /\ RequestInv)'
    BY <1>2 DEF CacheGet, IInv, WorldInv, RequestInv
  <2>4. (FreshInv /\ StormInv /\ JobsInv /\ GatherInv)'
    BY <1>2 DEF CacheGet, Hit, IInv, FreshInv, StormInv, JobsInv, GatherInv
  <2>5. QED
    BY <2>1, <2>2, <2>3, <2>4 DEF IInv
<1>3. CASE CacheTouch
  <2>1. TypeOK' /\ (WorldInv /\ RequestInv)'
    BY <1>3, <1>t DEF CacheTouch, world, IInv, TypeOK, WorldInv, RequestInv
  <2>2. Promises'
    BY <1>3, PromisesStay DEF CacheTouch
  <2>3. (FreshInv /\ StormInv /\ JobsInv /\ GatherInv)'
    BY <1>3 DEF CacheTouch, IInv, FreshInv, StormInv, JobsInv, GatherInv
  <2>4. QED
    BY <2>1, <2>2, <2>3 DEF IInv
<1>4. CASE FetchCurrentStorms
  <2>1. TypeOK' /\ (WorldInv /\ RequestInv)'
    BY <1>4, <1>t DEF FetchCurrentStorms, IInv, TypeOK, WorldInv, RequestInv
  <2>2. Promises'
    BY <1>4, PromisesStay DEF FetchCurrentStorms
  <2>3. (FreshInv /\ StormInv /\ JobsInv /\ GatherInv)'
    BY <1>4, <1>t DEF FetchCurrentStorms, IInv, FreshInv, StormInv, JobsInv, GatherInv
  <2>4. QED
    BY <2>1, <2>2, <2>3 DEF IInv
<1>5. QED
  BY <1>1, <1>2, <1>3, <1>4

LEMMA ResolveKeeps ==
  ASSUME IInv, Resolve
  PROVE  IInv'
<1>t. TypeOK /\ request \in Request
  BY DEF IInv, RequestInv, Resolve
<1>1. /\ stage = "resolve" /\ UNCHANGED <<feed, cache, moves, request, found, futures, overdue, timely, got>>
      /\ \/ stage' = "done" /\ bundle' \in {NotFound, [status |-> 500]}
         \/ /\ stage' = "submit" /\ UNCHANGED bundle
            /\ \/ found # None /\ \E file \in {"fixes", "motion", "still"} : storm' = LiveStorm(found, file)
               \/ request.id = "retired" /\ storm' = ReplayStorm
  BY DEF Resolve, world
<1>2. TypeOK'
  BY <1>t, <1>1 DEF TypeOK
<1>3. StormInv'
  <2>1. CASE found # None /\ \E file \in {"fixes", "motion", "still"} : storm' = LiveStorm(found, file)
    <3>1. found.adv \in Nat
      BY <1>t, <2>1, BundleAssumption DEF TypeOK, Snapshot
    <3>2. storm' \in Storm /\ storm'.live /\ storm'.adv = found.adv
      BY <2>1, <3>1 DEF LiveStorm, ForecastPoints, Storm, Tracks
    <3>3. request.refresh => found.adv >= request.since
      BY <1>1, <2>1 DEF IInv, FreshInv
    <3>4. QED
      BY <1>1, <3>2, <3>3 DEF StormInv
  <2>2. CASE request.id = "retired" /\ storm' = ReplayStorm
    BY <1>1, <2>2 DEF StormInv, ReplayStorm, Storm, Tracks
  <2>3. CASE stage' = "done"
    BY <2>3 DEF StormInv
  <2>4. QED
    BY <1>1, <2>1, <2>2, <2>3
<1>4. (WorldInv /\ RequestInv /\ FreshInv /\ JobsInv /\ GatherInv)'
  BY <1>1 DEF IInv, WorldInv, RequestInv, FreshInv, JobsInv, GatherInv
<1>5. Promises'
  <2>1. CASE stage' = "done"
    BY <1>1, <2>1, RefusalsPromiseNothing
  <2>2. CASE stage' = "submit"
    BY <1>t, <1>1, <2>2 DEF TypeOK, Promises, Served, FinishedFeedsAreServed, OneStormPerBundle, RefreshReadsThrough
  <2>3. QED
    BY <1>1, <2>1, <2>2
<1>6. QED
  BY <1>2, <1>3, <1>4, <1>5 DEF IInv

LEMMA SubmitKeeps ==
  ASSUME IInv, Submit
  PROVE  IInv'
<1>1. /\ stage = "submit" /\ stage' = "gather"
      /\ UNCHANGED <<feed, cache, moves, request, found, storm, overdue, timely, got, bundle>>
      /\ futures' = [j \in Submitted |-> [state |-> "pending", adv |-> 0]]
      /\ Submitted' = Submitted
  BY DEF Submit, world, Submitted
<1>2. TypeOK'
  <2>1. [state |-> "pending", adv |-> 0] \in [state : Statuses, adv : 0..MaxMoves + 1]
    BY BundleAssumption DEF Statuses
  <2>2. QED
    BY <1>1, <2>1 DEF IInv, TypeOK
<1>3. JobsInv'
  BY <1>1 DEF JobsInv
<1>4. GatherInv'
  BY <1>1 DEF IInv, GatherInv
<1>5. (WorldInv /\ RequestInv /\ FreshInv /\ StormInv)'
  BY <1>1 DEF IInv, WorldInv, RequestInv, FreshInv, StormInv
<1>6. Promises'
  BY <1>1, PromisesStay
<1>7. QED
  BY <1>2, <1>3, <1>4, <1>5, <1>6 DEF IInv

LEMMA JobKeeps ==
  ASSUME IInv, NEW j \in Jobs, JobEnds(j)
  PROVE  IInv'
<1>1. /\ stage = "gather" /\ j \in Submitted /\ ~Finished(j)
      /\ UNCHANGED <<feed, moves, request, stage, found, storm, overdue, timely, got, bundle>>
  BY DEF JobEnds, Running, Unfinished
<1>2. PICK outcome \in Outcomes(j) :
        futures' = [futures EXCEPT ![j] =
          [state |-> outcome,
           adv |-> IF j \in NhcProducts /\ outcome = "ok" THEN Again.adv ELSE 0]]
  BY DEF JobEnds
<1>t. /\ TypeOK /\ FetchedEntry \in {None} \cup Snapshot /\ feed.adv \in Nat
      /\ Stored \in {None} \cup [snap : Snapshot, expired : BOOLEAN]
      /\ FetchedEntry # None => FetchedEntry.adv >= request.since
      /\ DOMAIN futures = Submitted
      /\ \A k \in DOMAIN futures : futures[k] \in [state : Statuses, adv : 0..MaxMoves + 1]
  BY <1>1, FetchedIsCurrent DEF IInv, JobsInv, TypeOK
<1>3. Again \in {None} \cup Snapshot /\ AgainStored \in {None} \cup [snap : Snapshot, expired : BOOLEAN]
  <2>1. cache # None => cache.snap \in Snapshot /\ cache \in [snap : Snapshot, expired : BOOLEAN]
    BY <1>t DEF TypeOK
  <2>2. QED
    BY <1>t, <2>1 DEF Again, AgainStored, FreshHit, Hit
<1>4. /\ outcome \in {"ok", "empty", "raised"}
      /\ outcome = "ok" /\ j \in NhcProducts => Again \in Snapshot
      /\ j = "official" /\ ~storm.live => outcome = "empty"
  BY <1>2, <1>3 DEF Outcomes
<1>a. request.refresh /\ outcome = "ok" /\ j \in NhcProducts => Again.adv >= request.since
  <2>1. SUFFICES ASSUME request.refresh, outcome = "ok", j \in NhcProducts
                 PROVE  Again.adv >= request.since
    OBVIOUS
  <2>2. Outcomes(j) # {"empty"}
    BY <1>2, <2>1
  <2>3. Again # None
    BY <2>1, <2>2 DEF Outcomes
  <2>4. Again = FetchedEntry
    BY <2>1 DEF Again, FreshHit, Hit
  <2>5. QED
    BY <1>t, <2>3, <2>4
<1>5. /\ DOMAIN futures' = Submitted /\ Submitted' = Submitted
      /\ \A k \in Submitted : k # j => futures'[k] = futures[k]
      /\ futures'[j].state = outcome
      /\ futures'[j] \in [state : Statuses, adv : 0..MaxMoves + 1]
      /\ j \in NhcProducts /\ outcome = "ok" => futures'[j].adv = Again.adv
  <2>1. Again.adv \in 0..MaxMoves + 1 \/ ~(j \in NhcProducts /\ outcome = "ok")
    BY <1>4 DEF Snapshot
  <2>2. 0 \in 0..MaxMoves + 1
    BY BundleAssumption
  <2>3. [state |-> outcome, adv |-> IF j \in NhcProducts /\ outcome = "ok" THEN Again.adv ELSE 0]
          \in [state : Statuses, adv : 0..MaxMoves + 1]
    BY <1>4, <2>1, <2>2 DEF Statuses
  <2>4. QED
    BY <1>1, <1>2, <1>t, <2>3 DEF Submitted
<1>6. TypeOK'
  <2>1. cache' \in {None} \cup [snap : Snapshot, expired : BOOLEAN]
    BY <1>3, <1>t DEF JobEnds, TypeOK
  <2>2. \A k \in DOMAIN futures' : futures'[k] \in [state : Statuses, adv : 0..MaxMoves + 1]
    BY <1>5, <1>t
  <2>3. QED
    BY <1>1, <1>t, <2>1, <2>2 DEF TypeOK
<1>7. JobsInv'
  <2>1. JobsInv
    BY DEF IInv
  <2>2. ~storm.live /\ "official" \in Submitted => futures'["official"].state # "ok"
    BY <1>1, <1>4, <1>5, <1>t, <2>1 DEF JobsInv
  <2>3. request.refresh => \A k \in Submitted \cap NhcProducts :
                             futures'[k].state = "ok" => futures'[k].adv >= request.since
    BY <1>1, <1>a, <1>5, <1>t, <2>1 DEF JobsInv
  <2>4. QED
    BY <1>1, <1>5, <2>2, <2>3 DEF JobsInv
<1>8. GatherInv'
  <2>1. /\ DOMAIN got \subseteq Submitted
        /\ \A k \in timely : overdue /\ k \in Submitted /\ futures[k].state = "ok"
        /\ \A k \in DOMAIN got : \/ Finished(k) /\ got[k] = Taken(k)
                                 \/ overdue /\ k \notin timely /\ got[k] = Default
    BY <1>1, <1>t DEF IInv, GatherInv
  <2>2. \A k \in Submitted : Finished(k) => k # j /\ futures'[k] = futures[k]
    BY <1>1, <1>5
  <2>3. \A k \in Submitted : Finished(k) => Finished(k)' /\ Taken(k)' = Taken(k)
    BY <2>2 DEF Finished, Taken, Default
  <2>4. \A k \in timely : futures'[k].state = "ok"
    BY <2>1, <2>2 DEF Finished
  <2>5. \A k \in DOMAIN got : \/ Finished(k)' /\ got[k] = Taken(k)'
                              \/ overdue /\ k \notin timely /\ got[k] = Default
    BY <2>1, <2>3
  <2>6. \A k \in DOMAIN got' : \/ Finished(k)' /\ got'[k] = Taken(k)'
                               \/ overdue' /\ k \notin timely' /\ got'[k] = Default'
    BY <1>1, <2>5 DEF Default
  <2>7. QED
    BY <1>1, <1>5, <2>1, <2>4, <2>6 DEF GatherInv
<1>9. (WorldInv /\ RequestInv /\ FreshInv /\ StormInv)'
  BY <1>1 DEF IInv, WorldInv, RequestInv, FreshInv, StormInv
<1>10. Promises'
  BY <1>1, PromisesStay
<1>11. QED
  BY <1>6, <1>7, <1>8, <1>9, <1>10 DEF IInv

LEMMA DeadlineKeeps ==
  ASSUME IInv, DeadlinePasses
  PROVE  IInv'
<1>1. /\ stage = "gather" /\ ~overdue /\ overdue'
      /\ timely' = {j \in DOMAIN futures : futures[j].state = "ok"}
      /\ UNCHANGED <<feed, cache, moves, request, stage, found, storm, futures, got, bundle>>
  BY DEF DeadlinePasses, world
<1>2. bundle = None
  BY <1>1 DEF IInv, TypeOK
<1>3. Submitted \subseteq Jobs /\ DOMAIN futures = Submitted
  BY <1>1 DEF IInv, JobsInv, Submitted, BundleJobs
<1>4. TypeOK'
  BY <1>1, <1>3 DEF IInv, TypeOK
<1>5. GatherInv'
  <2>1. \A k \in DOMAIN got : Finished(k) /\ got[k] = Taken(k)
    BY <1>1 DEF IInv, GatherInv
  <2>2. \A k \in DOMAIN got' : Finished(k)' /\ got'[k] = Taken(k)'
    BY <1>1, <2>1 DEF Finished, Taken
  <2>3. QED
    BY <1>1, <2>2 DEF IInv, GatherInv
<1>6. (WorldInv /\ RequestInv /\ FreshInv /\ StormInv /\ JobsInv)'
  BY <1>1 DEF IInv, WorldInv, RequestInv, FreshInv, StormInv, JobsInv, Submitted
<1>7. Promises'
  BY <1>1, <1>2, PromisesStay
<1>8. QED
  BY <1>4, <1>5, <1>6, <1>7 DEF IInv

LEMMA CollectKeeps ==
  ASSUME IInv, Collect
  PROVE  IInv'
<1>1. /\ stage = "gather"
      /\ UNCHANGED <<feed, cache, moves, request, stage, found, storm, futures, overdue, timely, bundle>>
  BY DEF Collect, world
<1>2. PICK next \in Jobs :
        /\ next \in Submitted /\ MayCollect(next)
        /\ got' = [j \in IF overdue THEN Submitted ELSE DOMAIN got \cup {next} |->
                     IF j \in DOMAIN got THEN got[j] ELSE CollectOrDefault(j)]
  BY DEF Collect, IsNextJob
<1>3. /\ DOMAIN futures = Submitted /\ Submitted \subseteq Jobs /\ DOMAIN got \subseteq Submitted
      /\ \A k \in timely : overdue /\ k \in Submitted /\ futures[k].state = "ok"
      /\ \A k \in DOMAIN got : \/ Finished(k) /\ got[k] = Taken(k)
                               \/ overdue /\ k \notin timely /\ got[k] = Default
  BY <1>1 DEF IInv, JobsInv, GatherInv, Submitted, BundleJobs
<1>4. DOMAIN got' \subseteq Submitted
  BY <1>2, <1>3
<1>5. \A k \in DOMAIN got' : \/ Finished(k) /\ got'[k] = Taken(k)
                             \/ overdue /\ k \notin timely /\ got'[k] = Default
  <2> SUFFICES ASSUME NEW k \in DOMAIN got'
               PROVE  \/ Finished(k) /\ got'[k] = Taken(k)
                      \/ overdue /\ k \notin timely /\ got'[k] = Default
    OBVIOUS
  <2>1. CASE k \in DOMAIN got
    BY <1>2, <1>3, <2>1
  <2>2. CASE k \notin DOMAIN got
    <3>1. got'[k] = CollectOrDefault(k) /\ (overdue \/ k = next)
      BY <1>2, <2>2
    <3>2. Finished(k) \/ overdue
      BY <1>2, <3>1 DEF MayCollect
    <3>3. k \in timely => Finished(k)
      BY <1>3 DEF Finished
    <3>4. QED
      BY <3>1, <3>2, <3>3 DEF CollectOrDefault
  <2>3. QED
    BY <2>1, <2>2
<1>6. GatherInv'
  <2>1. \A k \in DOMAIN got' : \/ Finished(k)' /\ got'[k] = Taken(k)'
                               \/ overdue' /\ k \notin timely' /\ got'[k] = Default'
    BY <1>1, <1>5 DEF Finished, Taken, Default
  <2>2. QED
    BY <1>1, <1>3, <1>4, <2>1 DEF GatherInv
<1>7. TypeOK'
  BY <1>1, <1>3, <1>4 DEF IInv, TypeOK
<1>8. (WorldInv /\ RequestInv /\ FreshInv /\ StormInv /\ JobsInv)'
  BY <1>1 DEF IInv, WorldInv, RequestInv, FreshInv, StormInv, JobsInv, Submitted
<1>9. Promises'
  BY <1>1, PromisesStay
<1>10. QED
  BY <1>6, <1>7, <1>8, <1>9 DEF IInv

\* What had answered at the deadline, and is submitted, has arrived.
LEMMA TimelyHasArrived ==
  ASSUME IInv, stage = "gather", DOMAIN got = Submitted, NEW j \in timely
  PROVE  Arrived(j)
<1>1. j \in Submitted /\ futures[j].state = "ok" /\ got[j] = Taken(j)
  BY DEF IInv, GatherInv, JobsInv
<1>2. QED
  BY <1>1 DEF Arrived, Taken

LEMMA RespondKeeps ==
  ASSUME IInv, Respond
  PROVE  IInv'
<1>1. /\ stage = "gather" /\ stage' = "done" /\ DOMAIN got = Submitted
      /\ UNCHANGED <<feed, cache, moves, request, found, storm, futures, overdue, timely, got>>
      /\ bundle' = [status |-> 200, jma |-> FALSE, live |-> storm.live,
                    adv |-> storm.adv, cone |-> ForecastCone, rings |-> WindRings,
                    coneAdv |-> IF ForecastCone = "official" THEN got["cone"].adv ELSE storm.adv,
                    surge |-> storm.live /\ Arrived("surge"), recon |-> Recon,
                    feeds |-> {j \in {"alerts", "buoys", "land", "sst"} : Arrived(j)},
                    windMap |-> WindMap]
  BY DEF Respond, world
<1>2. \A j \in timely : Arrived(j)
  BY <1>1, TimelyHasArrived
<1>3. \A j \in timely : j \in Submitted
  BY <1>1 DEF IInv, GatherInv, JobsInv
<1>4. /\ \A j \in LiveOnly : j \in Submitted => storm.live
      /\ "wind" \in Submitted => "wind" \in request.options
  BY DEF Submitted, BundleJobs, OptionalFeeds
<1>5. /\ storm \in Storm /\ request \in Request
      /\ ~storm.live => request.id = "retired"
      /\ storm.live /\ request.refresh => storm.adv >= request.since
  BY <1>1 DEF IInv, StormInv, RequestInv
<1>6. \A j \in DOMAIN got : got[j].state = "ok" => futures[j].state = "ok" /\ got[j] = futures[j]
  BY <1>1 DEF IInv, GatherInv, Taken, Default
<1>7. FinishedFeedsAreServed'
  <2>1. /\ "cone" \in timely => ForecastCone = "official"
        /\ "radii" \in timely => WindRings = "nhc_swath"
        /\ "official" \in timely => WindRings \in {"nhc_swath", "official_radii"}
        /\ "surge" \in timely => storm.live /\ Arrived("surge")
        /\ "recon" \in timely => Recon
        /\ "wind" \in timely => "stations" \in WindMap
    BY <1>2, <1>3, <1>4 DEF LiveOnly, ForecastCone, WindRings, ParametricRings, Recon, WindMap
  <2>2. timely \cap {"alerts", "buoys", "land", "sst"} \subseteq {j \in {"alerts", "buoys", "land", "sst"} : Arrived(j)}
    BY <1>2
  <2>3. QED
    BY <1>1, <2>1, <2>2 DEF FinishedFeedsAreServed
<1>8. OneStormPerBundle'
  <2>1. ~storm.live => ~Arrived("official")
    BY <1>1, <1>6 DEF Arrived, IInv, JobsInv
  <2>2. ~storm.live => ForecastCone = "none" /\ WindRings = "ibtracs" /\ ~Recon /\ "recon" \notin WindMap
    BY <1>5, <2>1 DEF ForecastCone, WindRings, ParametricRings, ConeStormId, Recon, WindMap
  <2>3. storm.live => WindRings # "ibtracs" /\ (storm.track = "points" => ForecastCone # "none")
    BY DEF WindRings, ParametricRings, ConeStormId, ForecastCone, SyntheticCone
  <2>4. QED
    BY <1>1, <2>2, <2>3 DEF OneStormPerBundle
<1>9. RefreshReadsThrough'
  <2>1. ForecastCone = "official" => storm.live /\ Arrived("cone")
    BY DEF ForecastCone, SyntheticCone
  <2>2. request.refresh /\ Arrived("cone") => got["cone"].adv >= request.since
    BY <1>1, <1>6 DEF Arrived, IInv, JobsInv, NhcProducts
  <2>3. QED
    BY <1>1, <1>5, <2>1, <2>2 DEF RefreshReadsThrough
<1>10. TypeOK'
  BY <1>1 DEF IInv, TypeOK
<1>11. (WorldInv /\ RequestInv /\ FreshInv /\ StormInv /\ JobsInv /\ GatherInv)'
  BY <1>1 DEF IInv, WorldInv, RequestInv, FreshInv, StormInv, JobsInv, GatherInv
<1>12. QED
  BY <1>7, <1>8, <1>9, <1>10, <1>11 DEF IInv, Promises

LEMMA StepHolds == IInv /\ [Next]_vars => IInv'
<1> SUFFICES ASSUME IInv, [Next]_vars PROVE IInv'
  OBVIOUS
<1>1. CASE UNCHANGED vars
  <2>1. TypeOK' /\ WorldInv' /\ RequestInv' /\ FreshInv' /\ StormInv'
    BY <1>1 DEF vars, IInv, TypeOK, WorldInv, RequestInv, FreshInv, StormInv
  <2>2. (JobsInv /\ GatherInv)'
    BY <1>1 DEF vars, IInv, JobsInv, GatherInv, Submitted, Finished, Taken
  <2>3. Promises'
    BY <1>1, PromisesStay DEF vars
  <2>4. QED
    BY <2>1, <2>2, <2>3 DEF IInv
<1>2. CASE Steps
  BY <1>2, LookupKeeps, ResolveKeeps, SubmitKeeps, DeadlineKeeps, CollectKeeps, RespondKeeps DEF Steps
<1>3. CASE World
  BY <1>3, MovesKeep
<1>4. CASE \E j \in Jobs : JobEnds(j)
  BY <1>4, JobKeeps
<1>5. QED
  BY <1>1, <1>2, <1>3, <1>4 DEF Next

LEMMA InvHolds == Spec => []IInv
<1>1. QED
  BY InitHolds, StepHolds, PTL DEF Spec

\* Every variable of a request, its pool and the shared snapshot keeps its type.
THEOREM TypeCorrect == Spec => []TypeOK
<1>1. IInv => TypeOK
  BY DEF IInv
<1>2. QED
  BY <1>1, InvHolds, PTL

\* A feed that had answered when the deadline passed is in the response,
\* wherever the collector was and however few threads the pool has.
THEOREM TimelyFeedsAreServed == Spec => []FinishedFeedsAreServed
<1>1. IInv => FinishedFeedsAreServed
  BY DEF IInv, Promises
<1>2. QED
  BY <1>1, InvHolds, PTL

\* A bundle never mixes a live storm with one of the archive.
THEOREM BundlesAreOfOneStorm == Spec => []OneStormPerBundle
<1>1. IInv => OneStormPerBundle
  BY DEF IInv, Promises
<1>2. QED
  BY <1>1, InvHolds, PTL

\* A refreshed bundle is as new as its request, whatever other requests store.
THEOREM RefreshIsFresh == Spec => []RefreshReadsThrough
<1>1. IInv => RefreshReadsThrough
  BY DEF IInv, Promises
<1>2. QED
  BY <1>1, InvHolds, PTL

(***************************************************************************)
(* LocationBudget.                                                         *)
(*                                                                         *)
(* The minute budget holds and refusals are justified, for every budget,   *)
(* window, number of threads and grid size. The deque is the end of the    *)
(* history of grants: what has left it is a window old by some thread's    *)
(* clock reading, hence by the clock, and what is in it may be late, but   *)
(* by the lag of a claim at most.                                          *)
(***************************************************************************)
Gone == Len(grants) - Len(events)

\* The deque is the end of the history.
DequeIsRecent ==
  /\ Len(events) <= Len(grants)
  /\ \A i \in 1..Len(events) : events[i] = grants[Gone + i].mark

\* What has left the deque is at least a window old.
GoneIsOld == \A i \in 1..Gone : grants[i].mark + Window <= clock

\* A location is granted at most Lag ticks after its time stamp, and the
\* history is in the order of the grants.
GrantsAreOrdered ==
  /\ \A i \in 1..Len(grants) : /\ grants[i].mark <= grants[i].at
                               /\ grants[i].at <= grants[i].mark + Lag
                               /\ grants[i].at <= clock
  /\ \A i, j \in 1..Len(grants) : i <= j => grants[i].at <= grants[j].at

\* A claim under way is for a location or more, and read the clock at most Lag
\* ticks ago.
ClaimsAreShort ==
  \A t \in Threads : phase[t] # "idle" =>
    mark[t] <= clock /\ clock <= mark[t] + Lag /\ wants[t] # 0

BudgetIInv == /\ BudgetTypeOK /\ DequeIsRecent /\ GoneIsOld /\ GrantsAreOrdered /\ ClaimsAreShort
        /\ Len(events) <= Budget

LEMMA TailShifts ==
  ASSUME NEW S, NEW s \in Seq(S), s # <<>>
  PROVE  /\ Tail(s) \in Seq(S) /\ Len(Tail(s)) = Len(s) - 1
         /\ \A i \in 1..(Len(s) - 1) : Tail(s)[i] = s[i + 1]
OBVIOUS

Grant == [mark : Nat, at : Nat]

LEMMA StampsAppend ==
  ASSUME NEW s \in Seq(Nat), NEW n \in Nat, NEW x \in Nat
  PROVE  /\ s \o Times(n, x) \in Seq(Nat)
         /\ Len(s \o Times(n, x)) = Len(s) + n
         /\ \A i \in 1..Len(s) : (s \o Times(n, x))[i] = s[i]
         /\ \A i \in (Len(s) + 1)..(Len(s) + n) : (s \o Times(n, x))[i] = x
<1>1. Times(n, x) \in Seq(Nat) /\ Len(Times(n, x)) = n /\ \A i \in 1..n : Times(n, x)[i] = x
  BY DEF Times
<1> HIDE DEF Times
<1>2. QED
  BY <1>1

LEMMA GrantsAppend ==
  ASSUME NEW s \in Seq(Grant), NEW n \in Nat, NEW x \in Grant
  PROVE  /\ s \o Times(n, x) \in Seq(Grant)
         /\ Len(s \o Times(n, x)) = Len(s) + n
         /\ \A i \in 1..Len(s) : (s \o Times(n, x))[i] = s[i]
         /\ \A i \in (Len(s) + 1)..(Len(s) + n) : (s \o Times(n, x))[i] = x
<1>1. Times(n, x) \in Seq(Grant) /\ Len(Times(n, x)) = n /\ \A i \in 1..n : Times(n, x)[i] = x
  BY DEF Times, Grant
<1> HIDE DEF Times
<1>2. QED
  BY <1>1

LEMMA TypeFacts ==
  ASSUME BudgetTypeOK
  PROVE  /\ clock \in Nat /\ Len(events) \in Nat /\ Len(grants) \in Nat
         /\ DOMAIN grants = 1..Len(grants)
         /\ \A i \in 1..Len(events) : events[i] \in Nat
         /\ \A i \in 1..Len(grants) : grants[i].mark \in Nat /\ grants[i].at \in Nat
<1>1. clock \in Nat /\ events \in Seq(Nat) /\ grants \in Seq([mark : Nat, at : Nat])
  BY DEF BudgetTypeOK
<1>2. Len(events) \in Nat /\ \A i \in 1..Len(events) : events[i] \in Nat
  BY <1>1
<1>3. grants \in Seq(Grant)
  BY <1>1 DEF Grant
<1>4. /\ Len(grants) \in Nat /\ DOMAIN grants = 1..Len(grants)
      /\ \A i \in 1..Len(grants) : grants[i] \in Grant
  BY <1>3
<1>5. QED
  BY <1>1, <1>2, <1>4 DEF Grant

LEMMA LateAreTheDeque ==
  ASSUME BudgetIInv
  PROVE  /\ Gone \in Nat /\ Gone + Len(events) = Len(grants)
         /\ IsFiniteSet((Gone + 1)..Len(grants))
         /\ Cardinality((Gone + 1)..Len(grants)) = Len(events)
         /\ IsFiniteSet(1..Len(grants))
<1>1. Gone \in Nat /\ Gone + Len(events) = Len(grants) /\ Len(events) \in Nat /\ Len(grants) \in Nat
  BY TypeFacts DEF BudgetIInv, DequeIsRecent, Gone
<1> HIDE DEF Gone
<1>2. Gone + 1 \in Int /\ Len(grants) \in Int /\ 1 \in Int
  BY <1>1
<1>3. /\ IsFiniteSet((Gone + 1)..Len(grants)) /\ IsFiniteSet(1..Len(grants))
      /\ Cardinality((Gone + 1)..Len(grants)) =
           IF Gone + 1 > Len(grants) THEN 0 ELSE Len(grants) - (Gone + 1) + 1
  BY <1>2, FS_Interval
<1>4. QED
  BY <1>1, <1>3

LEMMA BudgetInitHolds == BudgetInit => BudgetIInv
<1> SUFFICES ASSUME BudgetInit PROVE BudgetIInv
  OBVIOUS
<1> USE BudgetAssumption DEF BudgetInit
<1>1. BudgetTypeOK
  BY DEF BudgetTypeOK, Phases
<1>2. QED
  BY <1>1 DEF BudgetIInv, DequeIsRecent, GoneIsOld, GrantsAreOrdered, ClaimsAreShort, Gone

LEMMA BudgetStepHolds == BudgetIInv /\ [BudgetNext]_budgetVars => BudgetIInv'
<1> SUFFICES ASSUME BudgetIInv, [BudgetNext]_budgetVars PROVE BudgetIInv'
  OBVIOUS
<1> USE BudgetAssumption
<1>t. BudgetTypeOK
  BY DEF BudgetIInv
<1>1. CASE UNCHANGED budgetVars
  BY <1>1 DEF budgetVars, BudgetIInv, BudgetTypeOK, DequeIsRecent, GoneIsOld, GrantsAreOrdered, ClaimsAreShort, Gone
<1>2. CASE Tick
  <2>1. BudgetTypeOK'
    BY <1>t, <1>2 DEF Tick, BudgetTypeOK
  <2>2. (DequeIsRecent /\ GoneIsOld /\ GrantsAreOrdered)'
    <3>1. Len(grants') = Len(grants) /\ Gone' = Gone /\ clock' = clock + 1
      BY <1>2 DEF Tick, Gone
    <3>2. \A i \in 1..Gone : i \in 1..Len(grants)
      BY <1>t, TypeFacts DEF BudgetIInv, DequeIsRecent, Gone
    <3>3. DequeIsRecent'
      BY <1>2, <3>1 DEF Tick, BudgetIInv, DequeIsRecent
    <3>4. (GoneIsOld /\ GrantsAreOrdered)'
      BY <1>t, <1>2, <3>1, <3>2, TypeFacts DEF Tick, BudgetIInv, GoneIsOld, GrantsAreOrdered
    <3>5. QED
      BY <3>3, <3>4
  <2>3. ClaimsAreShort'
    BY <1>t, <1>2 DEF Tick, BudgetTypeOK, BudgetIInv, ClaimsAreShort
  <2>4. QED
    BY <1>2, <2>1, <2>2, <2>3 DEF Tick, BudgetIInv
<1>3. ASSUME NEW t \in Threads, ReadClock(t) PROVE BudgetIInv'
  <2>1. BudgetTypeOK'
    BY <1>t, <1>3 DEF ReadClock, BudgetTypeOK, Phases
  <2>2. (DequeIsRecent /\ GoneIsOld /\ GrantsAreOrdered)'
    BY <1>t, <1>3 DEF ReadClock, BudgetTypeOK, BudgetIInv, DequeIsRecent, GoneIsOld, GrantsAreOrdered, Gone
  <2>3. ClaimsAreShort'
    BY <1>t, <1>3 DEF ReadClock, BudgetTypeOK, BudgetIInv, ClaimsAreShort
  <2>4. QED
    BY <1>3, <2>1, <2>2, <2>3 DEF ReadClock, BudgetIInv
<1>4. ASSUME NEW t \in Threads, Acquire(t) PROVE BudgetIInv'
  <2>1. BudgetTypeOK'
    BY <1>t, <1>4 DEF Acquire, MayLock, BudgetTypeOK, Phases
  <2>2. (DequeIsRecent /\ GoneIsOld /\ GrantsAreOrdered)'
    BY <1>t, <1>4 DEF Acquire, BudgetTypeOK, BudgetIInv, DequeIsRecent, GoneIsOld, GrantsAreOrdered, Gone
  <2>3. ClaimsAreShort'
    BY <1>t, <1>4 DEF Acquire, BudgetTypeOK, BudgetIInv, ClaimsAreShort
  <2>4. QED
    BY <1>4, <2>1, <2>2, <2>3 DEF Acquire, BudgetIInv
<1>5. ASSUME NEW t \in Threads, Expire(t) PROVE BudgetIInv'
  <2>0. /\ Tail(events) \in Seq(Nat) /\ Len(Tail(events)) = Len(events) - 1
        /\ \A i \in 1..(Len(events) - 1) : Tail(events)[i] = events[i + 1]
        /\ Len(events) \in Nat \ {0} /\ Len(grants) \in Nat
    BY <1>t, <1>5, TailShifts DEF Expire, FrontIsOld, BudgetTypeOK
  <2>1. BudgetTypeOK'
    BY <1>t, <1>5, <2>0 DEF Expire, BudgetTypeOK
  <2>2. Gone' = Gone + 1 /\ Gone \in Nat
    BY <1>t, <1>5, <2>0 DEF Expire, Gone, BudgetIInv, DequeIsRecent, BudgetTypeOK
  <2>3. DequeIsRecent'
    <3>1. Len(events') <= Len(grants')
      BY <1>5, <2>0 DEF Expire, BudgetIInv, DequeIsRecent
    <3>2. ASSUME NEW i \in 1..Len(events') PROVE events'[i] = grants'[Gone' + i].mark
      <4>1. i \in 1..(Len(events) - 1) /\ i + 1 \in 1..Len(events) /\ Gone' + i = Gone + (i + 1)
        BY <1>5, <2>0, <2>2 DEF Expire
      <4>2. QED
        BY <1>5, <2>0, <4>1 DEF Expire, BudgetIInv, DequeIsRecent
    <3>3. QED
      BY <3>1, <3>2 DEF DequeIsRecent
  <2>4. GoneIsOld'
    <3>1. grants[Gone + 1].mark = events[1] /\ events[1] \in Nat
      <4>1. 1 \in 1..Len(events)
        BY <2>0
      <4>2. events[1] = grants[Gone + 1].mark
        BY <4>1 DEF BudgetIInv, DequeIsRecent
      <4>3. events[1] \in Nat
        BY <1>t, <4>1, TypeFacts
      <4>4. QED
        BY <4>2, <4>3
    <3>2. events[1] + Window <= mark[t] /\ mark[t] <= clock /\ mark[t] \in Nat /\ clock \in Nat
      <4>1. mark[t] \in Nat /\ clock \in Nat
        BY <1>t DEF BudgetTypeOK
      <4>2. mark[t] - events[1] >= Window /\ phase[t] # "idle"
        BY <1>5 DEF Expire, FrontIsOld, Old
      <4>3. mark[t] <= clock
        BY <4>2 DEF BudgetIInv, ClaimsAreShort
      <4>4. QED
        BY <3>1, <4>1, <4>2, <4>3
    <3>3. \A i \in 1..(Gone + 1) : grants[i].mark + Window <= clock
      BY <2>2, <3>1, <3>2 DEF BudgetIInv, GoneIsOld
    <3>4. QED
      BY <1>5, <2>2, <3>3 DEF Expire, GoneIsOld
  <2>5. (GrantsAreOrdered /\ ClaimsAreShort)'
    BY <1>5 DEF Expire, BudgetIInv, GrantsAreOrdered, ClaimsAreShort
  <2>6. QED
    BY <1>5, <2>0, <2>1, <2>3, <2>4, <2>5 DEF Expire, BudgetIInv
<1>6. ASSUME NEW t \in Threads, Decide(t) PROVE BudgetIInv'
  <2>1. ClaimsAreShort' /\ clock' = clock
    BY <1>t, <1>6 DEF Decide, BudgetTypeOK, BudgetIInv, ClaimsAreShort
  <2>2. CASE ~Fits(t)
    <3>1. BudgetTypeOK'
      BY <1>t, <1>6, <2>2 DEF Decide, BudgetTypeOK, Phases
    <3>2. (DequeIsRecent /\ GoneIsOld /\ GrantsAreOrdered)' /\ Len(events') <= Budget
      BY <1>6, <2>2 DEF Decide, BudgetIInv, DequeIsRecent, GoneIsOld, GrantsAreOrdered, Gone
    <3>3. QED
      BY <2>1, <3>1, <3>2 DEF BudgetIInv
  <2>3. CASE Fits(t)
    <3> DEFINE n == wants[t]
               g == [mark |-> mark[t], at |-> clock]
    <3>1. /\ n \in Nat /\ mark[t] \in Nat /\ g \in [mark : Nat, at : Nat]
          /\ events \in Seq(Nat) /\ grants \in Seq([mark : Nat, at : Nat])
          /\ Len(events) \in Nat /\ Len(grants) \in Nat /\ clock \in Nat
          /\ Len(events) <= Len(grants) /\ Gone \in Nat
      BY <1>t DEF BudgetTypeOK, BudgetIInv, DequeIsRecent, Gone
    <3>2. /\ events' = events \o Times(n, mark[t])
          /\ grants' = grants \o Times(n, g)
      BY <1>6, <2>3 DEF Decide
    <3> HIDE DEF n, g
    <3>3. /\ events' \in Seq(Nat) /\ Len(events') = Len(events) + n
          /\ \A i \in 1..Len(events) : events'[i] = events[i]
          /\ \A i \in (Len(events) + 1)..(Len(events) + n) : events'[i] = mark[t]
      <4>1. events \in Seq(Nat) /\ n \in Nat /\ mark[t] \in Nat
        BY <3>1
      <4>2. /\ events \o Times(n, mark[t]) \in Seq(Nat)
            /\ Len(events \o Times(n, mark[t])) = Len(events) + n
            /\ \A i \in 1..Len(events) : (events \o Times(n, mark[t]))[i] = events[i]
            /\ \A i \in (Len(events) + 1)..(Len(events) + n) : (events \o Times(n, mark[t]))[i] = mark[t]
        BY <4>1, StampsAppend
      <4>3. QED
        BY <3>2, <4>1, <4>2
    <3>4. /\ grants' \in Seq([mark : Nat, at : Nat]) /\ Len(grants') = Len(grants) + n
          /\ \A i \in 1..Len(grants) : grants'[i] = grants[i]
          /\ \A i \in (Len(grants) + 1)..(Len(grants) + n) : grants'[i] = g
      <4>1. g \in Grant /\ grants \in Seq(Grant) /\ n \in Nat
        BY <3>1 DEF Grant
      <4>3. /\ grants \o Times(n, g) \in Seq(Grant)
            /\ Len(grants \o Times(n, g)) = Len(grants) + n
            /\ \A i \in 1..Len(grants) : (grants \o Times(n, g))[i] = grants[i]
            /\ \A i \in (Len(grants) + 1)..(Len(grants) + n) : (grants \o Times(n, g))[i] = g
        BY <4>1, GrantsAppend
      <4>4. QED
        BY <3>2, <4>3 DEF Grant
    <3>5. BudgetTypeOK'
      BY <1>t, <1>6, <3>3, <3>4 DEF Decide, BudgetTypeOK, Phases
    <3>6. Gone' = Gone
      BY <3>1, <3>3, <3>4 DEF Gone
    <3>7. g.mark = mark[t] /\ g.at = clock
      BY DEF g
    <3>8. DequeIsRecent'
      <4>1. \A i \in 1..Len(events) : Gone + i \in 1..Len(grants) /\ events[i] = grants[Gone + i].mark
        <5>1. /\ Len(events) \in Nat /\ Len(grants) \in Nat /\ Len(events) <= Len(grants)
              /\ \A i \in 1..Len(events) : events[i] = grants[Gone + i].mark
          BY <3>1 DEF BudgetIInv, DequeIsRecent
        <5>2. QED
          BY <5>1 DEF Gone
      <4>2. \A i \in (Len(events) + 1)..(Len(events) + n) : Gone + i \in (Len(grants) + 1)..(Len(grants) + n)
        BY <3>1 DEF Gone
      <4>3. \A i \in 1..Len(events') : events'[i] = grants'[Gone + i].mark
        <5>1. ASSUME NEW i \in 1..Len(events) PROVE events'[i] = grants'[Gone + i].mark
          BY <3>3, <3>4, <4>1
        <5>2. ASSUME NEW i \in (Len(events) + 1)..(Len(events) + n) PROVE events'[i] = grants'[Gone + i].mark
          BY <3>3, <3>4, <3>7, <4>2
        <5>3. \A i \in 1..Len(events') : i \in 1..Len(events) \/ i \in (Len(events) + 1)..(Len(events) + n)
          BY <3>1, <3>3
        <5>4. QED
          BY <5>1, <5>2, <5>3
      <4>4. QED
        BY <3>1, <3>3, <3>4, <3>6, <4>3 DEF DequeIsRecent
    <3>9. GoneIsOld'
      <4>1. \A i \in 1..Gone : i \in 1..Len(grants)
        BY <3>1 DEF Gone
      <4>2. QED
        BY <2>1, <3>4, <3>6, <4>1 DEF BudgetIInv, GoneIsOld
    <3>10. GrantsAreOrdered'
      <4>1. mark[t] <= clock /\ clock <= mark[t] + Lag
        BY <1>6 DEF Decide, BudgetIInv, ClaimsAreShort
      <4>2. \A i \in 1..Len(grants') : i \in 1..Len(grants) \/ i \in (Len(grants) + 1)..(Len(grants) + n)
        BY <3>1, <3>4
      <4>3. \A i \in 1..Len(grants') : /\ grants'[i].mark <= grants'[i].at
                                       /\ grants'[i].at <= grants'[i].mark + Lag
                                       /\ grants'[i].at <= clock
        <5>1. ASSUME NEW i \in 1..Len(grants) PROVE /\ grants'[i].mark <= grants'[i].at
                                                   /\ grants'[i].at <= grants'[i].mark + Lag
                                                   /\ grants'[i].at <= clock
          BY <3>4 DEF BudgetIInv, GrantsAreOrdered
        <5>2. ASSUME NEW i \in (Len(grants) + 1)..(Len(grants) + n)
              PROVE  /\ grants'[i].mark <= grants'[i].at
                     /\ grants'[i].at <= grants'[i].mark + Lag
                     /\ grants'[i].at <= clock
          <6>1. clock <= clock
            BY <3>1
          <6>2. QED
            BY <3>4, <3>7, <4>1, <6>1
        <5>3. QED
          BY <4>2, <5>1, <5>2
      <4>4. \A i, j \in 1..Len(grants') : i <= j => grants'[i].at <= grants'[j].at
        <5> SUFFICES ASSUME NEW i \in 1..Len(grants'), NEW j \in 1..Len(grants'), i <= j
                     PROVE  grants'[i].at <= grants'[j].at
          OBVIOUS
        <5>1. CASE j \in 1..Len(grants)
          <6>1. i \in 1..Len(grants)
            BY <3>1, <3>4, <5>1
          <6>2. QED
            BY <3>4, <5>1, <6>1 DEF BudgetIInv, GrantsAreOrdered
        <5>2. CASE j \in (Len(grants) + 1)..(Len(grants) + n)
          <6>1. grants'[j].at = clock
            BY <3>4, <3>7, <5>2
          <6>2. QED
            BY <4>3, <6>1
        <5>3. QED
          BY <4>2, <5>1, <5>2
      <4>5. QED
        BY <2>1, <4>3, <4>4 DEF GrantsAreOrdered
    <3>11. Len(events') <= Budget
      BY <2>3, <3>1, <3>3 DEF Fits, n
    <3>12. QED
      BY <2>1, <3>5, <3>8, <3>9, <3>10, <3>11 DEF BudgetIInv
  <2>4. QED
    BY <2>2, <2>3
<1>7. QED
  BY <1>1, <1>2, <1>3, <1>4, <1>5, <1>6 DEF BudgetNext

LEMMA BudgetInvHolds == BudgetSpec => []BudgetIInv
<1>1. QED
  BY BudgetInitHolds, BudgetStepHolds, PTL DEF BudgetSpec

\* The lock is one thread's and every variable keeps its type.
THEOREM BudgetTypeCorrect == BudgetSpec => []BudgetTypeOK
<1>1. BudgetIInv => BudgetTypeOK
  BY DEF BudgetIInv
<1>2. QED
  BY <1>1, BudgetInvHolds, PTL

LEMMA InvGivesBudget == BudgetIInv => BudgetHolds
<1> SUFFICES ASSUME BudgetIInv PROVE Cardinality(GrantedWithin(Window - Lag)) <= Budget
  BY DEF BudgetHolds
<1> USE BudgetAssumption
<1> DEFINE late == (Gone + 1)..Len(grants)
<1>1. BudgetTypeOK
  BY DEF BudgetIInv
<1>2. GrantedWithin(Window - Lag) \subseteq late
  <2>1. ASSUME NEW i \in 1..Gone PROVE ~(clock - grants[i].at < Window - Lag)
    <3>1. i \in 1..Len(grants)
      BY <1>1, TypeFacts, LateAreTheDeque
    <3>2. /\ clock \in Nat /\ grants[i].mark \in Nat /\ grants[i].at \in Nat
          /\ grants[i].mark + Window <= clock /\ grants[i].at <= grants[i].mark + Lag
      BY <1>1, <3>1, TypeFacts DEF BudgetIInv, GoneIsOld, GrantsAreOrdered
    <3>3. QED
      BY <3>2
  <2>2. \A i \in 1..Len(grants) : i \in 1..Gone \/ i \in late
    BY <1>1, TypeFacts, LateAreTheDeque
  <2>3. QED
    BY <1>1, <2>1, <2>2, TypeFacts DEF GrantedWithin
<1> HIDE DEF late
<1>3. IsFiniteSet(late) /\ Cardinality(late) = Len(events)
  BY LateAreTheDeque DEF late
<1>4. /\ Cardinality(GrantedWithin(Window - Lag)) <= Cardinality(late)
      /\ IsFiniteSet(GrantedWithin(Window - Lag))
  BY <1>2, <1>3, FS_Subset
<1>5. Cardinality(GrantedWithin(Window - Lag)) \in Nat
  BY <1>4, FS_CardinalityType
<1>6. Len(events) <= Budget /\ Len(events) \in Nat
  BY <1>1, TypeFacts DEF BudgetIInv
<1>7. QED
  BY <1>3, <1>4, <1>5, <1>6

\* No minute, less the time a claim may take, sees more than the budget.
THEOREM BudgetAlwaysHolds == BudgetSpec => []BudgetHolds
<1>1. QED
  BY BudgetInvHolds, InvGivesBudget, PTL

LEMMA RefusalIsJustified ==
  ASSUME BudgetIInv, NEW t \in Threads, phase[t] = "expiring", ~FrontIsOld(t), ~Fits(t)
  PROVE  Cardinality(GrantedWithin(Window + Lag)) + wants[t] > Budget
<1> USE BudgetAssumption
<1> DEFINE late == (Gone + 1)..Len(grants)
<1>1. BudgetTypeOK /\ mark[t] \in Nat /\ wants[t] \in Nat
  BY DEF BudgetIInv, BudgetTypeOK
<1>2. late \subseteq GrantedWithin(Window + Lag)
  <2> SUFFICES ASSUME NEW i \in late PROVE i \in DOMAIN grants /\ clock - grants[i].at < Window + Lag
    BY DEF GrantedWithin
  <2>1. /\ i \in 1..Len(grants) /\ Gone + 1 \in 1..Len(grants) /\ Gone + 1 <= i
        /\ 1 \in 1..Len(events)
    BY <1>1, TypeFacts, LateAreTheDeque
  <2>2. events # <<>>
    BY <2>1
  <2>3. mark[t] - grants[Gone + 1].mark < Window
    <3>1. events[1] = grants[Gone + 1].mark
      BY <2>1 DEF BudgetIInv, DequeIsRecent
    <3>2. events[1] \in Nat
      BY <1>1, <2>1, TypeFacts
    <3>3. QED
      BY <1>1, <2>2, <3>1, <3>2 DEF FrontIsOld, Old
  <2>4. /\ clock \in Nat /\ grants[i].at \in Nat
        /\ grants[Gone + 1].at \in Nat /\ grants[Gone + 1].mark \in Nat
    BY <1>1, <2>1, TypeFacts
  <2>5. grants[Gone + 1].mark <= grants[Gone + 1].at /\ grants[Gone + 1].at <= grants[i].at
    BY <2>1 DEF BudgetIInv, GrantsAreOrdered
  <2>6. clock <= mark[t] + Lag
    BY DEF BudgetIInv, ClaimsAreShort
  <2>7. clock - grants[i].at < Window + Lag
    <3> DEFINE a == grants[Gone + 1].mark
               b == grants[Gone + 1].at
               c == grants[i].at
               m == mark[t]
    <3>1. /\ clock \in Nat /\ a \in Nat /\ b \in Nat /\ c \in Nat /\ m \in Nat
          /\ m - a < Window /\ a <= b /\ b <= c /\ clock <= m + Lag
      BY <1>1, <2>3, <2>4, <2>5, <2>6
    <3> HIDE DEF a, b, c, m
    <3>2. clock - c < Window + Lag
      BY <3>1
    <3>3. QED
      BY <3>2 DEF c
  <2>8. QED
    BY <1>1, <2>1, <2>7, TypeFacts
<1> HIDE DEF late
<1>3. Cardinality(late) = Len(events) /\ IsFiniteSet(1..Len(grants)) /\ Len(events) \in Nat
  BY <1>1, LateAreTheDeque, TypeFacts DEF late
<1>4. GrantedWithin(Window + Lag) \subseteq 1..Len(grants)
  BY <1>1, TypeFacts DEF GrantedWithin
<1>5. IsFiniteSet(GrantedWithin(Window + Lag))
  BY <1>3, <1>4, FS_Subset
<1>6. Cardinality(late) <= Cardinality(GrantedWithin(Window + Lag))
  BY <1>2, <1>5, FS_Subset
<1>7. Cardinality(GrantedWithin(Window + Lag)) \in Nat
  BY <1>5, FS_CardinalityType
<1>8. QED
  BY <1>1, <1>3, <1>6, <1>7 DEF Fits

LEMMA RefusingStep ==
  ASSUME BudgetIInv, [BudgetNext]_budgetVars, NEW t \in Threads,
         phase[t] = "expiring", phase'[t] = "idle", grants' = grants
  PROVE  ~FrontIsOld(t) /\ ~Fits(t)
<1> USE BudgetAssumption
<1>t. BudgetTypeOK
  BY DEF BudgetIInv
<1>1. ASSUME NEW u \in Threads, ReadClock(u) \/ Acquire(u) \/ Expire(u) PROVE FALSE
  BY <1>t, <1>1 DEF ReadClock, Acquire, Expire, BudgetTypeOK
<1>2. ASSUME NEW u \in Threads, Decide(u) PROVE ~FrontIsOld(t) /\ ~Fits(t)
  <2>1. u = t
    BY <1>t, <1>2 DEF Decide, BudgetTypeOK
  <2>2. CASE Fits(t)
    <3> DEFINE g == [mark |-> mark[t], at |-> clock]
    <3>1. grants' = grants \o Times(wants[t], g)
      BY <1>2, <2>1, <2>2 DEF Decide
    <3>2. wants[t] \in Nat /\ g \in Grant /\ grants \in Seq(Grant) /\ Len(grants) \in Nat
      BY <1>t DEF BudgetTypeOK, Grant
    <3> HIDE DEF g
    <3>3. /\ grants \o Times(wants[t], g) \in Seq(Grant)
          /\ Len(grants \o Times(wants[t], g)) = Len(grants) + wants[t]
          /\ \A i \in 1..Len(grants) : (grants \o Times(wants[t], g))[i] = grants[i]
          /\ \A i \in (Len(grants) + 1)..(Len(grants) + wants[t]) : (grants \o Times(wants[t], g))[i] = g
      BY <3>2, GrantsAppend
    <3>4. wants[t] # 0
      BY DEF BudgetIInv, ClaimsAreShort
    <3>5. QED
      BY <3>1, <3>2, <3>3, <3>4
  <2>3. CASE ~Fits(t)
    BY <1>2, <2>1, <2>3 DEF Decide
  <2>4. QED
    BY <2>2, <2>3
<1>3. CASE Tick \/ UNCHANGED budgetVars
  BY <1>3 DEF Tick, budgetVars
<1>4. QED
  BY <1>1, <1>2, <1>3 DEF BudgetNext

\* A grid is refused only when the grants of the last minute, and of the time a
\* claim may take, leave no room for it.
THEOREM RefusalsHaveAReason == BudgetSpec => RefusalsAreJustified
<1>1. ASSUME BudgetIInv, [BudgetNext]_budgetVars
      PROVE  \A t \in Threads :
               phase[t] = "expiring" /\ phase'[t] = "idle" /\ grants' = grants =>
                 Cardinality(GrantedWithin(Window + Lag)) + wants[t] > Budget
  BY <1>1, RefusingStep, RefusalIsJustified
<1>2. QED
  BY <1>1, BudgetInvHolds, PTL DEF BudgetSpec, RefusalsAreJustified
=============================================================================
