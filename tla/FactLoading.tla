------------------------------ MODULE FactLoading ------------------------------
(***************************************************************************)
(* How a request gets the facts of its datasets: facts_for_dataset_ids     *)
(* runs one worker of load_many's pool per dataset, each worker goes       *)
(* through the fact cache, the one that leads the load asks the SQL server *)
(* and may fall back to the mock file, and when the pool has drained the   *)
(* request reads the provider's last_fallback_reasons to warn about mock   *)
(* facts.  Batches are in flight at the same time; the cache and the       *)
(* reasons are shared.                                                     *)
(*                                                                         *)
(* Facts are abstracted to where they came from.  Of the cache only the    *)
(* outcomes of a call are modelled; FactCache has its critical sections.   *)
(* The variable reloaded is a history variable.                            *)
(***************************************************************************)
EXTENDS Integers, Sequences, FiniteSets, SequencesExt

CONSTANTS Batches,     (* requests, each loading one batch at a time       *)
          Datasets,    (* dataset ids                                      *)
          MaxWorkers,  (* max_workers of a batch's pool                    *)
          MaxBatches,  (* bound: batches ever begun                        *)
          None         (* "nobody"                                         *)

ASSUME Assumptions ==
  /\ MaxWorkers \in Nat \ {0}     \* max(1, max_workers)
  /\ MaxBatches \in Nat
  /\ None \notin Batches
  /\ IsFiniteSet(Datasets)

VARIABLES
  fallbackMock,  (* hybrid_fallback_on_sql_error, fixed at start-up        *)
  cache,         (* cache[d]: origin of the cached facts, or "none"        *)
  leader,        (* leader[d]: the batch whose worker loads d, or None     *)
  loadError,     (* datasets whose last load left an error to share        *)
  reasons,       (* the keys of last_fallback_reasons                      *)
  stage,         (* "idle", "loading", or "scanning" the reasons           *)
  queue,         (* datasets the pool has not started, in order            *)
  step,          (* step[b][d]: where the worker for d is                  *)
  got,           (* got[b][d]: origin of the facts by_id holds for d       *)
  scanned,       (* the reasons when the scan began                        *)
  answer,        (* warnings of the batch, or that the request failed      *)
  begun,         (* batches begun so far                                   *)
  reloaded       (* datasets loaded anew since the batch got their facts   *)

sharedVars == <<fallbackMock, cache, leader, loadError, reasons>>
batchVars  == <<stage, queue, step, got, scanned, answer>>
ghostVars  == <<begun, reloaded>>
vars == <<sharedVars, batchVars, ghostVars>>

Origins  == {"sql", "mock"}
Outcomes == Origins \cup {"none", "failed"}
Running  == {"get", "waiting", "woken", "forget", "sql", "file", "publish", "finish"}
Labels   == Running \cup {"out", "queued", "done"}

(* What a request learns: which loads failed and which facts are mock.     *)
Reply(kind, failed, mock) == [kind |-> kind, failed |-> failed, mock |-> mock]
NoReply == Reply("none", {}, {})

Asked(b) == {d \in Datasets : step[b][d] # "out"}

(* load_many drops empty and repeated ids and keeps the order.             *)
Orders == {s \in UNION {[1 .. n -> Datasets] : n \in 1 .. Cardinality(Datasets)} :
             IsInjective(s)}

At(b, d, label) == step[b][d] = label
Goto(b, d, label) == step' = [step EXCEPT ![b][d] = label]

(* The worker for d ends with these facts, or with an error recorded.      *)
End(b, d, outcome) ==
  /\ Goto(b, d, "done")
  /\ got' = [got EXCEPT ![b][d] = outcome]

-----------------------------------------------------------------------------
Init ==
  /\ fallbackMock \in BOOLEAN
  /\ cache = [d \in Datasets |-> "none"]
  /\ leader = [d \in Datasets |-> None]
  /\ loadError = {}
  /\ reasons = {}
  /\ stage = [b \in Batches |-> "idle"]
  /\ queue = [b \in Batches |-> <<>>]
  /\ step = [b \in Batches |-> [d \in Datasets |-> "out"]]
  /\ got = [b \in Batches |-> [d \in Datasets |-> "none"]]
  /\ scanned = [b \in Batches |-> {}]
  /\ answer = [b \in Batches |-> NoReply]
  /\ begun = 0
  /\ reloaded = [b \in Batches |-> {}]

(* A request resolves its view to these datasets and submits them all.     *)
Begin(b, order) ==
  /\ stage[b] = "idle"
  /\ begun < MaxBatches
  /\ begun' = begun + 1
  /\ stage' = [stage EXCEPT ![b] = "loading"]
  /\ queue' = [queue EXCEPT ![b] = order]
  /\ step' = [step EXCEPT ![b] =
                [d \in Datasets |-> IF d \in ToSet(order) THEN "queued" ELSE "out"]]
  /\ got' = [got EXCEPT ![b] = [d \in Datasets |-> "none"]]
  /\ answer' = [answer EXCEPT ![b] = NoReply]
  /\ reloaded' = [reloaded EXCEPT ![b] = {}]
  /\ UNCHANGED <<sharedVars, scanned>>

(* Mutant of Busy: a load that failed keeps its worker.                    *)
BusyAfterFailure(b) == {d \in Datasets : step[b][d] \in Running \/ got[b][d] = "failed"}
Busy(b) == {d \in Datasets : step[b][d] \in Running}

(* A free worker of the batch's pool takes the next dataset.               *)
StartWorker(b) ==
  /\ queue[b] # <<>>
  /\ Cardinality(Busy(b)) < MaxWorkers
  /\ Goto(b, Head(queue[b]), "get")
  /\ queue' = [queue EXCEPT ![b] = Tail(@)]
  /\ UNCHANGED <<sharedVars, stage, got, scanned, answer, ghostVars>>

-----------------------------------------------------------------------------
(* get_or_load as a worker sees it.                                        *)

Hit(b, d) ==
  /\ step[b][d] \in {"get", "woken"}
  /\ cache[d] # "none"
  /\ End(b, d, cache[d])
  /\ UNCHANGED <<sharedVars, stage, queue, scanned, answer, ghostVars>>

Join(b, d) ==
  /\ At(b, d, "get")
  /\ cache[d] = "none"
  /\ leader[d] # None
  /\ Goto(b, d, "waiting")
  /\ UNCHANGED <<sharedVars, stage, queue, got, scanned, answer, ghostVars>>

(* Mutant of NobodyLoads: the election does not look at _in_flight.        *)
NobodyLoadsUnchecked(d) == TRUE
NobodyLoads(d) == leader[d] = None

Lead(b, d) ==
  /\ At(b, d, "get")
  /\ cache[d] = "none"
  /\ NobodyLoads(d)
  /\ leader' = [leader EXCEPT ![d] = b]
  /\ loadError' = loadError \ {d}
  /\ Goto(b, d, "forget")
  /\ UNCHANGED <<fallbackMock, cache, reasons, stage, queue, got, scanned, answer, ghostVars>>

(* A follower of a failed load: the first to wake takes the error, the     *)
(* others start over.                                                      *)
ShareError(b, d) ==
  /\ At(b, d, "woken")
  /\ cache[d] = "none"
  /\ d \in loadError
  /\ loadError' = loadError \ {d}
  /\ End(b, d, "failed")
  /\ UNCHANGED <<fallbackMock, cache, leader, reasons, stage, queue, scanned, answer, ghostVars>>

StartOver(b, d) ==
  /\ At(b, d, "woken")
  /\ cache[d] = "none"
  /\ d \notin loadError
  /\ Goto(b, d, "get")
  /\ UNCHANGED <<sharedVars, stage, queue, got, scanned, answer, ghostVars>>

(* event.wait gives up after 300 s: the load counts as failed.             *)
GiveUp(b, d) ==
  /\ At(b, d, "waiting")
  /\ End(b, d, "failed")
  /\ UNCHANGED <<sharedVars, stage, queue, scanned, answer, ghostVars>>

-----------------------------------------------------------------------------
(* _load_facts_uncached, in the leader.                                    *)

(* Mutant of Forget: a reason is kept until the next fallback replaces it. *)
ForgetNothing(d) == UNCHANGED reasons
Forget(d) == reasons' = reasons \ {d}

ForgetReason(b, d) ==
  /\ At(b, d, "forget")
  /\ Forget(d)
  /\ reloaded' = [c \in Batches |->
                    IF stage[c] # "idle" /\ got[c][d] \in Origins
                    THEN reloaded[c] \cup {d} ELSE reloaded[c]]
  /\ Goto(b, d, "sql")
  /\ UNCHANGED <<fallbackMock, cache, leader, loadError, stage, queue, got, scanned, answer, begun>>

SqlLoads(b, d) ==
  /\ At(b, d, "sql")
  /\ got' = [got EXCEPT ![b][d] = "sql"]
  /\ Goto(b, d, "publish")
  /\ UNCHANGED <<sharedVars, stage, queue, scanned, answer, ghostVars>>

(* The server is not registered, or the query raised: a reason is left and *)
(* the mock file read.                                                     *)
FallBack(b, d) ==
  /\ At(b, d, "sql")
  /\ fallbackMock
  /\ reasons' = reasons \cup {d}
  /\ Goto(b, d, "file")
  /\ UNCHANGED <<fallbackMock, cache, leader, loadError, stage, queue, got, scanned, answer, ghostVars>>

FileLoads(b, d) ==
  /\ At(b, d, "file")
  /\ got' = [got EXCEPT ![b][d] = "mock"]
  /\ Goto(b, d, "publish")
  /\ UNCHANGED <<sharedVars, stage, queue, scanned, answer, ghostVars>>

AfterRaise == "finish"

(* The query without fallback, or the file, raises.                        *)
LoadRaises(b, d) ==
  /\ \/ At(b, d, "sql") /\ ~fallbackMock
     \/ At(b, d, "file")
  /\ got' = [got EXCEPT ![b][d] = "failed"]
  /\ loadError' = loadError \cup {d}
  /\ Goto(b, d, AfterRaise)
  /\ UNCHANGED <<fallbackMock, cache, leader, reasons, stage, queue, scanned, answer, ghostVars>>

Publish(b, d) ==
  /\ At(b, d, "publish")
  /\ cache' = [cache EXCEPT ![d] = got[b][d]]
  /\ loadError' = loadError \ {d}
  /\ Goto(b, d, "finish")
  /\ UNCHANGED <<fallbackMock, leader, reasons, stage, queue, got, scanned, answer, ghostVars>>

(* The finally block: unregister the load and wake its followers.          *)
Finish(b, d) ==
  /\ At(b, d, "finish")
  /\ leader' = [leader EXCEPT ![d] = None]
  /\ step' = [c \in Batches |->
                [step[c] EXCEPT ![d] = IF c = b THEN "done"
                                       ELSE IF @ = "waiting" THEN "woken" ELSE @]]
  /\ UNCHANGED <<fallbackMock, cache, loadError, reasons, stage, queue, got, scanned, answer, ghostVars>>

-----------------------------------------------------------------------------
(* _load_batch_warnings: the failures of the batch, and a scan of the      *)
(* provider's reasons, one bytecode loop that other threads interleave.    *)

Failed(b) == {d \in Datasets : got[b][d] = "failed"}

(* Mutant of Relevant: reasons of datasets outside the batch count too.    *)
RelevantToAnyone(b, found) == found
Relevant(b, found) == found \cap Asked(b)

Answer(b, reply) ==
  /\ stage' = [stage EXCEPT ![b] = "idle"]
  /\ answer' = [answer EXCEPT ![b] = reply]
  /\ scanned' = [scanned EXCEPT ![b] = {}]
  /\ UNCHANGED <<sharedVars, queue, step, got, ghostVars>>

Drained(b) == stage[b] = "loading" /\ \A d \in Asked(b) : At(b, d, "done")

NoReasons(b) ==
  /\ Drained(b)
  /\ reasons = {}
  /\ Answer(b, Reply("warned", Failed(b), {}))

BeginScan(b) ==
  /\ Drained(b)
  /\ reasons # {}
  /\ stage' = [stage EXCEPT ![b] = "scanning"]
  /\ scanned' = [scanned EXCEPT ![b] = reasons]
  /\ UNCHANGED <<sharedVars, queue, step, got, answer, ghostVars>>

(* Keys that came or went during the scan may or may not be met.           *)
EndScan(b) ==
  /\ stage[b] = "scanning"
  /\ Cardinality(reasons) = Cardinality(scanned[b])
  /\ \E met \in SUBSET (reasons \cup scanned[b]) :
       /\ reasons \cap scanned[b] \subseteq met
       /\ Answer(b, Reply("warned", Failed(b), Relevant(b, met)))

(* "dictionary changed size during iteration": the request answers 500.    *)
ScanRaises(b) ==
  /\ stage[b] = "scanning"
  /\ Cardinality(reasons) # Cardinality(scanned[b])
  /\ Answer(b, Reply("error", {}, {}))

-----------------------------------------------------------------------------
(* An entry expires, is evicted, or is invalidated by an administrator.    *)
Drop(d) ==
  /\ cache[d] # "none"
  /\ cache' = [cache EXCEPT ![d] = "none"]
  /\ UNCHANGED <<fallbackMock, leader, loadError, reasons, batchVars, ghostVars>>

WorkerStep(b, d) ==
  \/ Hit(b, d) \/ Join(b, d) \/ Lead(b, d) \/ ShareError(b, d) \/ StartOver(b, d)
  \/ ForgetReason(b, d) \/ SqlLoads(b, d) \/ FallBack(b, d) \/ FileLoads(b, d)
  \/ LoadRaises(b, d) \/ Publish(b, d) \/ Finish(b, d)

RequestStep(b) ==
  StartWorker(b) \/ NoReasons(b) \/ BeginScan(b) \/ EndScan(b) \/ ScanRaises(b)

Next ==
  \/ \E b \in Batches :
       \/ \E order \in Orders : Begin(b, order)
       \/ RequestStep(b)
       \/ \E d \in Datasets : WorkerStep(b, d) \/ GiveUp(b, d)
  \/ \E d \in Datasets : Drop(d)

Spec == Init /\ [][Next]_vars

(* Some thread of a request that can run does run, and every load ends     *)
(* (the SQL drivers time out).  Nothing is assumed of new requests, of the *)
(* 300 s wait, or of Drop.                                                 *)
BatchStep(b) == RequestStep(b) \/ \E d \in Datasets : WorkerStep(b, d)

Fairness == \A b \in Batches : WF_vars(BatchStep(b))

FairSpec == Spec /\ Fairness

-----------------------------------------------------------------------------
TypeOK ==
  /\ fallbackMock \in BOOLEAN
  /\ cache \in [Datasets -> Origins \cup {"none"}]
  /\ leader \in [Datasets -> Batches \cup {None}]
  /\ loadError \in SUBSET Datasets
  /\ reasons \in SUBSET Datasets
  /\ stage \in [Batches -> {"idle", "loading", "scanning"}]
  /\ queue \in [Batches -> Seq(Datasets)]
  /\ step \in [Batches -> [Datasets -> Labels]]
  /\ got \in [Batches -> [Datasets -> Outcomes]]
  /\ scanned \in [Batches -> SUBSET Datasets]
  /\ answer \in [Batches -> [kind : {"none", "warned", "error"},
                             failed : SUBSET Datasets, mock : SUBSET Datasets]]
  /\ begun \in 0 .. MaxBatches
  /\ reloaded \in [Batches -> SUBSET Datasets]

(* While facts of a dataset are cached, last_fallback_reasons says whether *)
(* they are mock: no interleaving of loads, failures, evictions and        *)
(* reloads leaves cached mock facts without their reason, or a reason over *)
(* cached SQL facts.                                                       *)
ReasonsMatchCache ==
  \A d \in Datasets : cache[d] # "none" => (cache[d] = "mock" <=> d \in reasons)

(* The warnings of an answer are right for the facts in it, dataset by     *)
(* dataset, unless a later load of the dataset began before the answer:    *)
(* mock facts are named, SQL facts and datasets of other requests are not, *)
(* and what has no facts is reported as failed.                            *)
WarningsMatchFacts ==
  \A b \in Batches : answer[b].kind = "warned" =>
    \A d \in Datasets \ reloaded[b] :
      /\ got[b][d] = "mock" => d \in answer[b].mock
      /\ d \in answer[b].mock => got[b][d] \in {"mock", "failed"}
      /\ d \in answer[b].failed <=> d \in Asked(b) /\ got[b][d] \notin Origins

(* Once requests stop arriving every batch drains and its request is       *)
(* answered: workers that wait for loads of other batches, in pools of     *)
(* bounded size, never wait for each other in a circle.                    *)
BatchesEnd == <>[](\A b \in Batches : stage[b] = "idle")
==============================================================================
