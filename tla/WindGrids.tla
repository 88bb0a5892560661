----------------------------- MODULE WindGrids -----------------------------
(***************************************************************************)
(* GET /api/live/wind-model-grid and /wind-shear-grid: a grid of model     *)
(* wind is served from a three-minute cache, or its locations are claimed  *)
(* against the minute budget (LocationBudget: granted or refused) and its  *)
(* chunks are fetched by two threads through a cache of chunks that never  *)
(* expires. Requests run on worker threads, and neither cache has a lock.  *)
(*                                                                         *)
(* A grid is the set of its chunks, each with the time it was fetched at;  *)
(* cells, hours and values are left out.                                   *)
(***************************************************************************)
EXTENDS Integers, Sequences

CONSTANTS Threads,
          Boxes,     \* box -> the number of chunks of its grid
          GridMax,   \* entries of the grid cache
          BulkMax,   \* entries of the chunk cache
          MaxNow,    \* bound: length of a behaviour
          None

ASSUME WindGridsAssumption ==
  /\ {GridMax, BulkMax} \subseteq Nat \ {0} /\ MaxNow \in Nat
  /\ \A b \in DOMAIN Boxes : Boxes[b] \in 1..2

VARIABLES
  now,     \* the clock, at the resolution of a grid's life
  cached,  \* _GRID_CACHE (or _SHEAR_CACHE), oldest entry first
  bulk,    \* _bulk_cache, oldest entry first
  calls,   \* the request of each thread, or None
  strays   \* chunks whose request did not wait for them
vars == <<now, cached, bulk, calls, strays>>

Init ==
  /\ now = 0 /\ cached = <<>> /\ bulk = <<>>
  /\ calls = [t \in Threads |-> None] /\ strays = {}

(***************************************************************************)
(* An OrderedDict: assigning to a key leaves it where it is, move_to_end   *)
(* raises KeyError when the key is gone.                                   *)
(***************************************************************************)
Has(d, key) == \E i \in DOMAIN d : d[i].key = key
Place(d, key) == CHOOSE i \in DOMAIN d : d[i].key = key
Get(d, key) == d[Place(d, key)]
Pop(d, key) == IF Has(d, key) THEN SubSeq(d, 1, Place(d, key) - 1) \o SubSeq(d, Place(d, key) + 1, Len(d)) ELSE d
MoveToEnd(d, key) == Append(Pop(d, key), Get(d, key))
Assign(d, e) == IF Has(d, e.key) THEN [i \in DOMAIN d |-> IF d[i].key = e.key THEN e ELSE d[i]]
                ELSE Append(d, e)
Trim(d, most) == IF Len(d) > most THEN SubSeq(d, Len(d) - most + 1, Len(d)) ELSE d

(***************************************************************************)
(* A request. "overlapped" remembers whether another one was in hand at    *)
(* the same time, "since" when a request with refresh=true arrived.        *)
(***************************************************************************)
InHand(t) == calls[t] # None /\ calls[t].stage # "done"
At(t, stage) == calls[t] # None /\ calls[t].stage = stage
Goes(t, stage) == calls' = [calls EXCEPT ![t].stage = stage]
Holds(t, stage, item) == calls' = [calls EXCEPT ![t] = [@ EXCEPT !.stage = stage, !.item = item, !.jobs = <<>>]]
Replies(t, reply) ==
  calls' = [calls EXCEPT ![t] = [stage |-> "done", refresh |-> calls[t].refresh,
                                 since |-> calls[t].since, reply |-> reply]]
Grid(grid, limited) == [status |-> 200, grid |-> grid, limited |-> limited]
Error(t) == [status |-> 500, overlapped |-> calls[t].overlapped]

Call(t) ==
  /\ calls[t] = None
  /\ \E box \in DOMAIN Boxes, refresh \in BOOLEAN :
       LET rivals == {u \in Threads \ {t} : InHand(u)}
           new == [stage |-> IF refresh THEN "reserve" ELSE "lookup", box |-> box, refresh |-> refresh,
                   since |-> IF refresh THEN now ELSE 0, item |-> <<>>, jobs |-> <<>>,
                   overlapped |-> rivals # {}]
       IN calls' = [u \in Threads |-> IF u = t THEN new
                                      ELSE IF u \in rivals THEN [calls[u] EXCEPT !.overlapped = TRUE]
                                      ELSE calls[u]]
  /\ UNCHANGED <<now, cached, bulk, strays>>

\* The client has its answer.
Leave(t) ==
  /\ At(t, "done")
  /\ calls' = [calls EXCEPT ![t] = None]
  /\ UNCHANGED <<now, cached, bulk, strays>>

(***************************************************************************)
(* TtlCache.get: the entry is read, and then dropped when it has expired   *)
(* or moved to the end.                                                    *)
(***************************************************************************)
Lookup(t) ==
  /\ At(t, "lookup")
  /\ \/ ~Has(cached, calls[t].box) /\ Goes(t, "reserve")
     \/ /\ Has(cached, calls[t].box)
        /\ LET e == Get(cached, calls[t].box)
           IN IF now > e.at THEN Goes(t, "drop") ELSE Holds(t, "touch", e.grid)
  /\ UNCHANGED <<now, cached, bulk, strays>>

\* Mutant of AfterDrop: no return after the expired entry is dropped.
FallsThrough == "touch"
AfterDrop == "reserve"
DropExpired(t) ==
  /\ At(t, "drop")
  /\ cached' = Pop(cached, calls[t].box)
  /\ Goes(t, AfterDrop)
  /\ UNCHANGED <<now, bulk, strays>>

Touch(t) ==
  /\ At(t, "touch")
  /\ IF Has(cached, calls[t].box)
     THEN cached' = MoveToEnd(cached, calls[t].box) /\ Replies(t, Grid(calls[t].item, FALSE))
     ELSE Replies(t, Error(t)) /\ UNCHANGED cached
  /\ UNCHANGED <<now, bulk, strays>>

\* _try_reserve_locations grants the locations or refuses them.
Reserve(t) ==
  /\ At(t, "reserve")
  /\ \/ LET open == [i \in 1..Boxes[calls[t].box] |-> [state |-> "open", at |-> 0]]
        IN calls' = [calls EXCEPT ![t] = [@ EXCEPT !.stage = "wait", !.jobs = open]]
     \/ Replies(t, Grid(<<>>, TRUE))
  /\ UNCHANGED <<now, cached, bulk, strays>>

(***************************************************************************)
(* _fetch_bulk_chunk on a thread of the pool (two threads, and a grid has  *)
(* at most two chunks). A chunk without a single real wind is not cached.  *)
(* The KeyError of a move_to_end that another thread's eviction came       *)
(* before leaves the chunk out like any failure.                           *)
(***************************************************************************)
Key(t, i) == <<calls[t].box, i>>
Stored(key, at) == Trim(Assign(bulk, [key |-> key, at |-> at]), BulkMax)

\* Mutant of MayHit: a refresh reads the chunk cache.
MayAlwaysHit(t, key) == Has(bulk, key)
MayHit(t, key) == ~calls[t].refresh /\ Has(bulk, key)

ChunkEnds(t, i, state, at) ==
  /\ calls[t].jobs[i].state = "open"
  /\ calls' = [calls EXCEPT ![t].jobs[i] = [state |-> state, at |-> at]]
  /\ UNCHANGED <<now, cached, strays>>

ChunkHit(t, i) ==
  /\ MayHit(t, Key(t, i))
  /\ ChunkEnds(t, i, "ok", Get(bulk, Key(t, i)).at)
  /\ bulk' = MoveToEnd(bulk, Key(t, i))

\* Open-Meteo answers, refuses, fails past the last retry, or has no wind for
\* the chunk.
ChunkFetched(t, i) ==
  /\ ~MayHit(t, Key(t, i))
  /\ \/ ChunkEnds(t, i, "ok", now) /\ bulk' = Stored(Key(t, i), now)
     \/ \E state \in {"failed", "limited"} : ChunkEnds(t, i, state, 0) /\ UNCHANGED bulk

\* A chunk the request no longer waits for: its thread goes on.
StrayEnds(key) ==
  /\ key \in strays /\ strays' = strays \ {key}
  /\ bulk' \in {bulk, Stored(key, now)}
  /\ UNCHANGED <<now, cached, calls>>

(***************************************************************************)
(* wait() returns when every chunk has ended or the deadline has passed,   *)
(* which may be at any moment. A grid that is calm everywhere is served    *)
(* but not cached.                                                         *)
(***************************************************************************)
\* Mutant of MayReturn: no deadline.
MayReturnComplete(t) == \A i \in DOMAIN calls[t].jobs : calls[t].jobs[i].state # "open"
MayReturn(t) == TRUE

WaitReturns(t) ==
  /\ At(t, "wait") /\ MayReturn(t)
  /\ LET jobs == calls[t].jobs
         Are(state) == {i \in DOMAIN jobs : jobs[i].state = state}
         grid == [i \in Are("ok") |-> jobs[i].at]
     IN /\ strays' = strays \cup {Key(t, i) : i \in Are("open")}
        /\ \/ Are("ok") # {} /\ Holds(t, "store", grid)
           \/ Replies(t, Grid(grid, Are("limited") # {}))
  /\ UNCHANGED <<now, cached, bulk>>

\* TtlCache.set: the assignment, then move_to_end and the evictions.
Store(t) ==
  /\ At(t, "store")
  /\ cached' = Assign(cached, [key |-> calls[t].box, at |-> now, grid |-> calls[t].item])
  /\ Goes(t, "order")
  /\ UNCHANGED <<now, bulk, strays>>

Order(t) ==
  /\ At(t, "order")
  /\ IF Has(cached, calls[t].box)
     THEN /\ cached' = Trim(MoveToEnd(cached, calls[t].box), GridMax)
          /\ Replies(t, Grid(calls[t].item, FALSE))
     ELSE Replies(t, Error(t)) /\ UNCHANGED cached
  /\ UNCHANGED <<now, bulk, strays>>

\* Three minutes pass.
Tick == now < MaxNow /\ now' = now + 1 /\ UNCHANGED <<cached, bulk, calls, strays>>

Request(t) == \/ Lookup(t) \/ DropExpired(t) \/ Touch(t) \/ Reserve(t)
              \/ WaitReturns(t) \/ Store(t) \/ Order(t)
Fetch(t) == At(t, "wait") /\ \E i \in DOMAIN calls[t].jobs : ChunkHit(t, i) \/ ChunkFetched(t, i)
Next == \/ Tick \/ \E key \in strays : StrayEnds(key)
        \/ \E t \in Threads : Call(t) \/ Request(t) \/ Fetch(t) \/ Leave(t)

\* A request's thread makes progress; no chunk need ever end.
Spec == Init /\ [][Next]_vars /\ \A t \in Threads : WF_vars(Request(t))

(***************************************************************************)
(* Properties                                                              *)
(***************************************************************************)
\* "refresh skips the cache read": every chunk of the answer was fetched after
\* the request arrived, though both caches may hold an older one.
RefreshReadsThrough ==
  \A t \in Threads :
    At(t, "done") /\ calls[t].refresh /\ calls[t].reply.status = 200 =>
      \A i \in DOMAIN calls[t].reply.grid : calls[t].reply.grid[i] >= calls[t].since

\* A request raises only when another one was in hand at the same time: what it
\* was about to move to the end of a cache is only ever dropped by a rival.
RaisesOnlyWhenOverlapped ==
  \A t \in Threads : At(t, "done") /\ calls[t].reply.status = 500 => calls[t].reply.overlapped

\* "Degrades to an empty grid on failure rather than 5xx'ing."
NeverRaises == \A t \in Threads : At(t, "done") => calls[t].reply.status # 500

\* Every request is answered, even when its chunks never are.
RequestsEnd == \A t \in Threads : At(t, "wait") ~> At(t, "done")
=============================================================================
