------------------------------ MODULE FactCache ------------------------------
(***************************************************************************)
(* backend/app/providers/fact_cache.py: the process-wide LRU + TTL cache   *)
(* of dataset facts with single-flight get_or_load, called concurrently by *)
(* request threads and by the workers of load_many.  One step per critical *)
(* section of the cache's lock; the loader runs outside the lock.          *)
(*                                                                         *)
(* Facts are abstracted to the version of the dataset they were read from. *)
(* The variables floor, returned and sawFailure are history variables.     *)
(***************************************************************************)
EXTENDS Integers, Sequences, FiniteSets, SequencesExt

CONSTANTS Callers,      (* threads calling get_or_load                     *)
          Keys,         (* dataset ids                                     *)
          MaxDatasets,  (* max_datasets, the LRU capacity                  *)
          MaxVersion,   (* bound: how often one dataset may change         *)
          None          (* "no entry", "no thread"                         *)

ASSUME Assumptions ==
  /\ MaxDatasets \in Nat \ {0}    \* max(1, max_datasets)
  /\ MaxVersion \in Nat
  /\ Keys # {}
  /\ None \notin Nat \cup Callers

VARIABLES
  data,           (* data[k]: version held in _data, or None               *)
  lru,            (* the keys of _data, least recently used first          *)
  expired,        (* keys whose entry is older than the TTL                *)
  inFlight,       (* inFlight[k]: leader owning _in_flight[k]'s event      *)
  inFlightError,  (* keys with an entry in _in_flight_errors               *)
  uncounted,      (* _misses - _loads - _load_errors                       *)
  pc,             (* where each thread is inside get_or_load               *)
  key,            (* the dataset the thread asked for                      *)
  loaded,         (* leader: the version its loader returned, or None      *)
  joined,         (* the leader whose event the call last waited for       *)
  answer,         (* how the thread's last call ended                      *)
  source,         (* version of each dataset at its SQL server             *)
  returned,       (* newest version any call returned                      *)
  floor,          (* returned[key[c]] when c's call began                  *)
  sawFailure      (* some failing load of key[c] overlapped c's call       *)

cacheVars  == <<data, lru, expired>>
flightVars == <<inFlight, inFlightError, uncounted>>
callVars   == <<pc, key, loaded, joined>>
ghostVars  == <<source, returned, floor, sawFailure>>
vars == <<cacheVars, flightVars, callVars, answer, ghostVars>>

RT == INSTANCE ReadThrough WITH reading <- [c \in Callers |-> pc[c] # "idle"]

-----------------------------------------------------------------------------
(* Helpers on the cache's contents.                                        *)

Cached(k) == data[k] # None
IsFresh(k) == Cached(k) /\ k \notin expired

MoveToEnd(k) == lru' = Append(RemoveFirst(lru, k), k)

(* Mutant of Overfull: the eviction loop tolerates one entry too many.     *)
OverfullLate(order) == Len(order) > MaxDatasets + 1
Overfull(order) == Len(order) > MaxDatasets

(* set(): the entry is re-inserted at the recent end with a new loaded_at; *)
(* one insertion overfills the cache by at most one entry, so the eviction *)
(* loop runs at most once.                                                 *)
Set(k, v) ==
  LET order == Append(RemoveFirst(lru, k), k)
      evict == Overfull(order)
      full  == [data EXCEPT ![k] = v]
  IN  /\ lru' = IF evict THEN Tail(order) ELSE order
      /\ data' = IF evict THEN [full EXCEPT ![Head(order)] = None] ELSE full
      /\ expired' = expired \ (IF evict THEN {k, Head(order)} ELSE {k})

Delete(k) ==
  /\ data' = [data EXCEPT ![k] = None]
  /\ lru' = RemoveFirst(lru, k)
  /\ expired' = expired \ {k}

(* Mutant of ForgetError: the error is read with get() instead of pop().   *)
KeepError(k) == UNCHANGED inFlightError

ForgetError(k) == inFlightError' = inFlightError \ {k}

(* Mutant of NobodyLoads: a thread elects itself without looking.          *)
NobodyLoadsUnchecked(k) == TRUE
NobodyLoads(k) == inFlight[k] = None

Unregister(k) == inFlight' = [inFlight EXCEPT ![k] = None]

CountOutcome == uncounted' = uncounted - 1

(* A call ends: it raises, or returns v to its caller.                     *)
Raise(c, outcome) ==
  /\ pc' = [pc EXCEPT ![c] = "idle"]
  /\ answer' = [answer EXCEPT ![c] = outcome]
  /\ UNCHANGED returned

Return(c, v) ==
  /\ pc' = [pc EXCEPT ![c] = "idle"]
  /\ answer' = [answer EXCEPT ![c] = RT!Value(v)]
  /\ returned' = [returned EXCEPT ![key[c]] = RT!Newer(@, v)]

Goto(c, label) == pc' = [pc EXCEPT ![c] = label]

(* A leader whose loader raised and whose event is still registered.       *)
FailedLeader(c) == pc[c] = "clear" /\ loaded[c] = None

-----------------------------------------------------------------------------
Init ==
  /\ data = [k \in Keys |-> None]
  /\ lru = <<>>
  /\ expired = {}
  /\ inFlight = [k \in Keys |-> None]
  /\ inFlightError = {}
  /\ uncounted = 0
  /\ pc = [c \in Callers |-> "idle"]
  /\ key = [c \in Callers |-> CHOOSE k \in Keys : TRUE]
  /\ loaded = [c \in Callers |-> None]
  /\ joined = [c \in Callers |-> None]
  /\ answer = [c \in Callers |-> RT!NoAnswer]
  /\ source = [k \in Keys |-> 0]
  /\ returned = [k \in Keys |-> 0]
  /\ floor = [c \in Callers |-> 0]
  /\ sawFailure = [c \in Callers |-> FALSE]

(* A thread calls get_or_load(k).                                          *)
Call(c, k) ==
  /\ pc[c] = "idle"
  /\ Goto(c, "get")
  /\ key' = [key EXCEPT ![c] = k]
  /\ answer' = [answer EXCEPT ![c] = RT!NoAnswer]
  /\ floor' = [floor EXCEPT ![c] = returned[k]]
  /\ sawFailure' = [sawFailure EXCEPT ![c] =
                      inFlight[k] # None /\ FailedLeader(inFlight[k])]
  /\ joined' = [joined EXCEPT ![c] = None]
  /\ UNCHANGED <<cacheVars, flightVars, loaded, source, returned>>

(* get(): first thing a call does, and what a woken follower does.         *)
GetHit(c) ==
  /\ pc[c] \in {"get", "woken"}
  /\ IsFresh(key[c])
  /\ MoveToEnd(key[c])
  /\ Return(c, data[key[c]])
  /\ UNCHANGED <<data, expired, flightVars, key, loaded, joined, source, floor, sawFailure>>

GetMiss(c) ==
  /\ pc[c] \in {"get", "woken"}
  /\ ~IsFresh(key[c])
  /\ IF Cached(key[c]) THEN Delete(key[c]) ELSE UNCHANGED cacheVars
  /\ Goto(c, IF pc[c] = "get" THEN "elect" ELSE "takeError")
  /\ UNCHANGED <<flightVars, key, loaded, joined, answer, ghostVars>>

(* The critical section that re-checks the cache, joins the load in flight *)
(* or makes the thread its leader.                                         *)
ElectHit(c) ==
  /\ pc[c] = "elect"
  /\ IsFresh(key[c])
  /\ MoveToEnd(key[c])
  /\ Return(c, data[key[c]])
  /\ UNCHANGED <<data, expired, flightVars, key, loaded, joined, source, floor, sawFailure>>

Join(c) ==
  /\ pc[c] = "elect"
  /\ ~IsFresh(key[c])
  /\ ~NobodyLoads(key[c])
  /\ joined' = [joined EXCEPT ![c] = inFlight[key[c]]]
  /\ Goto(c, "waiting")
  /\ UNCHANGED <<cacheVars, flightVars, key, loaded, answer, ghostVars>>

Lead(c) ==
  /\ pc[c] = "elect"
  /\ ~IsFresh(key[c])
  /\ NobodyLoads(key[c])
  /\ inFlight' = [inFlight EXCEPT ![key[c]] = c]
  /\ ForgetError(key[c])
  /\ uncounted' = uncounted + 1
  /\ loaded' = [loaded EXCEPT ![c] = None]
  /\ Goto(c, "load")
  /\ UNCHANGED <<cacheVars, key, joined, answer, ghostVars>>

-----------------------------------------------------------------------------
(* The leader's path: loader(), set(), bookkeeping, and the finally block. *)

LoadSucceeds(c) ==
  /\ pc[c] = "load"
  /\ loaded' = [loaded EXCEPT ![c] = source[key[c]]]
  /\ Goto(c, "publish")
  /\ UNCHANGED <<cacheVars, flightVars, key, joined, answer, ghostVars>>

LoadRaises(c) ==
  /\ pc[c] = "load"
  /\ Goto(c, "record")
  /\ UNCHANGED <<cacheVars, flightVars, key, loaded, joined, answer, ghostVars>>

Publish(c) ==
  /\ pc[c] = "publish"
  /\ Set(key[c], loaded[c])
  /\ Goto(c, "count")
  /\ UNCHANGED <<flightVars, key, loaded, joined, answer, ghostVars>>

CountLoad(c) ==
  /\ pc[c] = "count"
  /\ CountOutcome
  /\ ForgetError(key[c])
  /\ Goto(c, "clear")
  /\ UNCHANGED <<cacheVars, inFlight, key, loaded, joined, answer, ghostVars>>

RecordError(c) ==
  /\ pc[c] = "record"
  /\ CountOutcome
  /\ inFlightError' = inFlightError \cup {key[c]}
  /\ sawFailure' = [d \in Callers |->
                      sawFailure[d] \/ (pc[d] # "idle" /\ key[d] = key[c])]
  /\ Goto(c, "clear")
  /\ UNCHANGED <<cacheVars, inFlight, key, loaded, joined, answer, source, returned, floor>>

ClearInFlight(c) ==
  /\ pc[c] = "clear"
  /\ Unregister(key[c])
  /\ Goto(c, "signal")
  /\ UNCHANGED <<cacheVars, inFlightError, uncounted, key, loaded, joined, answer, ghostVars>>

(* event.set() wakes every follower of this load; the leader's call ends.  *)
(* Mutant of WokenBy: the event is set only after a successful load.       *)
WaitersOf(c) == {d \in Callers : pc[d] = "waiting" /\ joined[d] = c}
WokenBySuccess(c) == IF loaded[c] = None THEN {} ELSE WaitersOf(c)
WokenBy(c) == WaitersOf(c)

Outcome(c) == IF loaded[c] = None THEN RT!Error ELSE RT!Value(loaded[c])

Signal(c) ==
  /\ pc[c] = "signal"
  /\ pc' = [d \in Callers |-> IF d = c THEN "idle"
                              ELSE IF d \in WokenBy(c) THEN "woken"
                              ELSE pc[d]]
  /\ loaded' = [loaded EXCEPT ![c] = None]
  /\ answer' = [answer EXCEPT ![c] = Outcome(c)]
  /\ returned' = IF loaded[c] = None THEN returned
                 ELSE [returned EXCEPT ![key[c]] = RT!Newer(@, loaded[c])]
  /\ UNCHANGED <<cacheVars, flightVars, key, joined, source, floor, sawFailure>>

-----------------------------------------------------------------------------
(* The follower's path.                                                    *)

WaitTimesOut(c) ==
  /\ pc[c] = "waiting"
  /\ Raise(c, RT!Timeout)
  /\ UNCHANGED <<cacheVars, flightVars, key, loaded, joined, source, floor, sawFailure>>

TakeError(c) ==
  /\ pc[c] = "takeError"
  /\ key[c] \in inFlightError
  /\ ForgetError(key[c])
  /\ Raise(c, RT!Error)
  /\ UNCHANGED <<cacheVars, inFlight, uncounted, key, loaded, joined, source, floor, sawFailure>>

(* Neither a value nor an error: get_or_load calls itself again.           *)
Retry(c) ==
  /\ pc[c] = "takeError"
  /\ key[c] \notin inFlightError
  /\ Goto(c, "get")
  /\ UNCHANGED <<cacheVars, flightVars, key, loaded, joined, answer, ghostVars>>

-----------------------------------------------------------------------------
(* The cache's other users, and its environment.                           *)

(* get() by a reader that does not load: get_geometry_availability.        *)
Peek(k) ==
  /\ Cached(k)
  /\ IF IsFresh(k) THEN MoveToEnd(k) /\ UNCHANGED <<data, expired>> ELSE Delete(k)
  /\ UNCHANGED <<flightVars, callVars, answer, ghostVars>>

Invalidate(k) ==
  /\ Cached(k)
  /\ Delete(k)
  /\ UNCHANGED <<flightVars, callVars, answer, ghostVars>>

InvalidateAll ==
  /\ lru # <<>>
  /\ data' = [k \in Keys |-> None]
  /\ lru' = <<>>
  /\ expired' = {}
  /\ UNCHANGED <<flightVars, callVars, answer, ghostVars>>

(* The entry for k passes its time to live.                                *)
Expire(k) ==
  /\ IsFresh(k)
  /\ expired' = expired \cup {k}
  /\ UNCHANGED <<data, lru, flightVars, callVars, answer, ghostVars>>

(* An ERT re-run replaces the dataset at its SQL server.                   *)
SourceChanges(k) ==
  /\ source[k] < MaxVersion
  /\ source' = [source EXCEPT ![k] = @ + 1]
  /\ UNCHANGED <<cacheVars, flightVars, callVars, answer, returned, floor, sawFailure>>

-----------------------------------------------------------------------------
LeaderStep(c) ==
  \/ LoadSucceeds(c) \/ LoadRaises(c) \/ Publish(c) \/ CountLoad(c)
  \/ RecordError(c) \/ ClearInFlight(c) \/ Signal(c)

FollowerStep(c) == GetHit(c) \/ GetMiss(c) \/ TakeError(c) \/ Retry(c)

ElectStep(c) == ElectHit(c) \/ Join(c) \/ Lead(c)

Next ==
  \/ \E c \in Callers :
       \/ \E k \in Keys : Call(c, k)
       \/ LeaderStep(c) \/ FollowerStep(c) \/ ElectStep(c) \/ WaitTimesOut(c)
  \/ \E k \in Keys :
       Peek(k) \/ Invalidate(k) \/ Expire(k) \/ SourceChanges(k)
  \/ InvalidateAll

Spec == Init /\ [][Next]_vars

(* Threads are scheduled, and a loader ends: the SQL drivers' connect and  *)
(* query timeouts bound it.  Nothing is assumed of new calls, of the       *)
(* 300 s timeout, or of the environment.                                   *)
Fairness ==
  \A c \in Callers :
    WF_vars(LeaderStep(c)) /\ WF_vars(FollowerStep(c)) /\ WF_vars(ElectStep(c))

FairSpec == Spec /\ Fairness

-----------------------------------------------------------------------------
Labels == {"idle", "get", "elect", "load", "publish", "count", "record",
           "clear", "signal", "waiting", "woken", "takeError"}

Answers == [kind : {"none", "value", "error", "timeout"}, version : 0 .. MaxVersion]

CacheTypeOK ==
  /\ data \in [Keys -> 0 .. MaxVersion \cup {None}]
  /\ lru \in Seq(Keys)
  /\ expired \in SUBSET Keys

CallTypeOK ==
  /\ inFlight \in [Keys -> Callers \cup {None}]
  /\ inFlightError \in SUBSET Keys
  /\ uncounted \in Int
  /\ pc \in [Callers -> Labels]
  /\ key \in [Callers -> Keys]
  /\ loaded \in [Callers -> 0 .. MaxVersion \cup {None}]
  /\ joined \in [Callers -> Callers \cup {None}]
  /\ answer \in [Callers -> Answers]
  /\ source \in [Keys -> 0 .. MaxVersion]
  /\ returned \in [Keys -> 0 .. MaxVersion]
  /\ floor \in [Callers -> 0 .. MaxVersion]
  /\ sawFailure \in [Callers -> BOOLEAN]

TypeOK == CacheTypeOK /\ CallTypeOK

(* c is between its election and the removal of its event.                 *)
Leading(c) == pc[c] \in {"load", "publish", "count", "record", "clear"}

(* Single flight: two threads never load the same dataset at once, and the *)
(* thread that loads is the one whose event newcomers join.                *)
SingleFlight ==
  \A c \in Callers : Leading(c) => inFlight[key[c]] = c

(* No follower waits for an event that nobody is going to set: its leader  *)
(* still has the finally block in front of it.                             *)
FollowersHaveALeader ==
  \A c \in Callers : pc[c] = "waiting" =>
    /\ joined[c] \in Callers
    /\ Leading(joined[c]) \/ pc[joined[c]] = "signal"
    /\ key[joined[c]] = key[c]

(* The LRU order lists the cached keys, each once, within the capacity.    *)
LruIsTheCache ==
  /\ Len(lru) <= MaxDatasets
  /\ IsInjective(lru)
  /\ ToSet(lru) = {k \in Keys : Cached(k)}
  /\ expired \subseteq ToSet(lru)

(* A call raises a load error only if some load of its own dataset failed  *)
(* while the call was in progress: an error left behind by an earlier load *)
(* never reaches a later request.                                          *)
ErrorsAreCurrent ==
  \A c \in Callers : answer[c].kind = "error" => sawFailure[c]

(* Versions never run backwards across calls that follow one another: the  *)
(* cache implements the read-through specification.                        *)
ReadsThrough == RT!Spec

(* No follower sleeps through the end of its load.                         *)
FollowersWake == \A c \in Callers : pc[c] = "waiting" ~> pc[c] # "waiting"
==============================================================================
