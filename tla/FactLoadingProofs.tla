-------------------------- MODULE FactLoadingProofs --------------------------
(***************************************************************************)
(* Proofs about FactLoading: for any number of requests, datasets and      *)
(* workers, the recorded reasons tell the truth about the cached facts,    *)
(* and an answer's warnings about the facts in it.                         *)
(***************************************************************************)
EXTENDS FactLoading, TLAPS, FiniteSetTheorems, SequenceTheorems

(* What waits in a pool's queue has not been started, and is there once.   *)
QueueInv ==
  \A b \in Batches :
    /\ IsInjective(queue[b])
    /\ \A d \in Datasets : d \in ToSet(queue[b]) => At(b, d, "queued")

(* Between batches nothing is left to do, and only then is there an answer. *)
StageInv ==
  \A b \in Batches :
    /\ stage[b] # "loading" => \A d \in Datasets : step[b][d] \in {"out", "done"}
    /\ stage[b] # "idle" => answer[b].kind = "none"

(* Facts are in hand from the end of the load, or of the worker, on.       *)
GotInv ==
  \A b \in Batches, d \in Datasets :
    /\ step[b][d] \notin {"publish", "finish", "done"} => got[b][d] = "none"
    /\ At(b, d, "publish") => got[b][d] \in Origins
    /\ step[b][d] \in {"finish", "done"} => got[b][d] # "none"

(* Single flight, and nothing is cached while a load is in flight.         *)
Loading == {"forget", "sql", "file", "publish"}

FlightInv ==
  \A b \in Batches, d \in Datasets :
    /\ step[b][d] \in Loading \cup {"finish"} => leader[d] = b
    /\ step[b][d] \in Loading => cache[d] = "none"

(* The reason of the dataset, as the load proceeds.                        *)
PhaseInv ==
  \A b \in Batches, d \in Datasets :
    /\ At(b, d, "sql") => d \notin reasons
    /\ At(b, d, "file") => d \in reasons
    /\ At(b, d, "publish") => (got[b][d] = "mock" <=> d \in reasons)

(* b holds facts of d and no later load of d has begun.                    *)
Holds(b, d) == stage[b] # "idle" /\ got[b][d] \in Origins /\ d \notin reloaded[b]

(* While a load has no facts yet, whoever holds older ones is marked.      *)
HeldInv ==
  \A b \in Batches, d \in Datasets :
    Holds(b, d) =>
      /\ got[b][d] = "mock" <=> d \in reasons
      /\ stage[b] = "scanning" => (got[b][d] = "mock" <=> d \in scanned[b])
      /\ \A c \in Batches : ~At(c, d, "sql")

IInv ==
  /\ TypeOK /\ QueueInv /\ StageInv /\ GotInv /\ FlightInv /\ PhaseInv
  /\ ReasonsMatchCache /\ HeldInv /\ WarningsMatchFacts

-----------------------------------------------------------------------------
(* What the nested EXCEPTs of the actions mean, entry by entry: b's worker *)
(* for d moves to label l, others stand still or are woken, and b's facts  *)
(* of d become v.                                                          *)
Steps(b, d, l) ==
  /\ step' \in [Batches -> [Datasets -> Labels]]
  /\ step'[b][d] = l
  /\ \A c \in Batches, e \in Datasets : c # b \/ e # d =>
       \/ step'[c][e] = step[c][e]
       \/ step[c][e] = "waiting" /\ step'[c][e] = "woken"

Gets(b, d, v) ==
  /\ got' \in [Batches -> [Datasets -> Outcomes]]
  /\ got'[b][d] = v
  /\ \A c \in Batches, e \in Datasets : c # b \/ e # d => got'[c][e] = got[c][e]

LEMMA GotoSteps ==
  ASSUME TypeOK, NEW b \in Batches, NEW d \in Datasets, NEW l \in Labels, Goto(b, d, l)
  PROVE  Steps(b, d, l)
BY DEF TypeOK, Goto, Steps

LEMMA ExceptGets ==
  ASSUME TypeOK, NEW b \in Batches, NEW d \in Datasets, NEW v \in Outcomes,
         got' = [got EXCEPT ![b][d] = v]
  PROVE  Gets(b, d, v)
BY DEF TypeOK, Gets

LEMMA SameGets ==
  ASSUME TypeOK, NEW b \in Batches, NEW d \in Datasets, got' = got
  PROVE  got[b][d] \in Outcomes /\ Gets(b, d, got[b][d])
BY DEF TypeOK, Gets

LEMMA Vocabulary ==
  /\ Running = {"get", "waiting", "woken", "forget", "sql", "file", "publish", "finish"}
  /\ Labels = Running \cup {"out", "queued", "done"}
  /\ Origins = {"sql", "mock"} /\ Outcomes = {"sql", "mock", "none", "failed"}
BY DEF Running, Labels, Origins, Outcomes

(* A running worker belongs to a batch that is loading, and is not queued. *)
LEMMA RunningIsLoading ==
  ASSUME IInv, NEW b \in Batches, NEW d \in Datasets, step[b][d] \in Running
  PROVE  stage[b] = "loading" /\ d \notin ToSet(queue[b])
BY DEF IInv, StageInv, QueueInv, At, Running

(* What a worker's step does not disturb, as long as it ends with facts    *)
(* that fit its label.                                                     *)
Fits(l, v) ==
  /\ l \notin {"publish", "finish", "done"} => v = "none"
  /\ l = "publish" => v \in Origins
  /\ l \in {"finish", "done"} => v # "none"

LEMMA WorkerKeeps ==
  ASSUME IInv, NEW b \in Batches, NEW d \in Datasets,
         NEW l \in Running \cup {"done"}, NEW v \in Outcomes,
         step[b][d] \in Running, Steps(b, d, l), Gets(b, d, v), Fits(l, v),
         UNCHANGED <<stage, queue, answer>>,
         \A c \in Batches : stage[c] = "idle" => reloaded'[c] = reloaded[c]
  PROVE  QueueInv' /\ StageInv' /\ GotInv' /\ WarningsMatchFacts'
<1>1. stage[b] = "loading" /\ d \notin ToSet(queue[b])
  BY RunningIsLoading
<1>2. QueueInv'
  BY <1>1 DEF IInv, QueueInv, At, Steps
<1>3. StageInv'
  BY <1>1 DEF IInv, StageInv, Steps
<1>4. GotInv'
  BY DEF IInv, GotInv, At, Steps, Gets, Fits
<1>5. WarningsMatchFacts'
  <2> SUFFICES ASSUME NEW c \in Batches, answer[c].kind = "warned",
                      NEW e \in Datasets, e \notin reloaded'[c]
               PROVE  /\ got'[c][e] = "mock" => e \in answer[c].mock
                      /\ e \in answer[c].mock => got'[c][e] \in {"mock", "failed"}
                      /\ e \in answer[c].failed <=> step'[c][e] # "out" /\ got'[c][e] \notin Origins
    BY DEF WarningsMatchFacts, Asked
  <2>1. stage[c] = "idle"
    BY DEF IInv, StageInv
  <2>2. c # b /\ e \notin reloaded[c]
    BY <1>1, <2>1
  <2>3. step[c][e] # "waiting"
    BY <2>1 DEF IInv, StageInv
  <2>4. step'[c][e] = step[c][e] /\ got'[c][e] = got[c][e]
    BY <2>2, <2>3 DEF Steps, Gets
  <2>. QED
    BY <2>2, <2>4 DEF IInv, WarningsMatchFacts, Asked
<1>. QED
  BY <1>2, <1>3, <1>4, <1>5

(* Steps that neither elect, publish nor finish keep single flight.        *)
LEMMA FlightKept ==
  ASSUME FlightInv, NEW b \in Batches, NEW d \in Datasets, NEW l,
         Steps(b, d, l), UNCHANGED <<cache, leader>>,
         l \in Loading \cup {"finish"} => step[b][d] \in Loading
  PROVE  FlightInv'
BY DEF FlightInv, Loading, Steps

(* Only one worker loads d.                                                *)
LEMMA OneLoads ==
  ASSUME FlightInv, NEW b \in Batches, NEW c \in Batches, NEW d \in Datasets,
         step[b][d] \in Loading \cup {"finish"}, step[c][d] \in Loading \cup {"finish"}
  PROVE  b = c
BY DEF FlightInv

(* Steps that leave the reasons alone and start no load keep the phases.   *)
LEMMA PhaseKept ==
  ASSUME PhaseInv, NEW b \in Batches, NEW d \in Datasets, NEW l, NEW v,
         Steps(b, d, l), Gets(b, d, v), reasons' = reasons, l \notin {"sql", "file", "publish"}
  PROVE  PhaseInv'
BY DEF PhaseInv, At, Steps, Gets

(* So do steps that give b no new facts, for the facts held.               *)
LEMMA HeldKept ==
  ASSUME HeldInv, NEW b \in Batches, NEW d \in Datasets, NEW l, NEW v,
         Steps(b, d, l), Gets(b, d, v), UNCHANGED <<stage, reasons, scanned, reloaded>>,
         l # "sql", v \in Origins => v = got[b][d]
  PROVE  HeldInv'
<1> SUFFICES ASSUME NEW c \in Batches, NEW e \in Datasets, Holds(c, e)'
             PROVE  /\ got'[c][e] = "mock" <=> e \in reasons
                    /\ stage[c] = "scanning" => (got'[c][e] = "mock" <=> e \in scanned[c])
                    /\ \A f \in Batches : step'[f][e] # "sql"
  BY DEF HeldInv, At
<1>1. got'[c][e] = got[c][e]
  BY DEF Holds, Gets
<1>2. Holds(c, e)
  BY <1>1 DEF Holds
<1>3. \A f \in Batches : step'[f][e] # "sql"
  BY <1>2 DEF HeldInv, At, Steps
<1>. QED
  BY <1>1, <1>2, <1>3 DEF HeldInv

(* A step of a worker keeps the types if it keeps those of shared state.   *)
LEMMA TypeKept ==
  ASSUME TypeOK, NEW b \in Batches, NEW d \in Datasets, NEW l, NEW v,
         Steps(b, d, l), Gets(b, d, v),
         UNCHANGED <<fallbackMock, stage, queue, scanned, answer, begun>>,
         cache' \in [Datasets -> Origins \cup {"none"}],
         leader' \in [Datasets -> Batches \cup {None}],
         loadError' \in SUBSET Datasets, reasons' \in SUBSET Datasets,
         reloaded' \in [Batches -> SUBSET Datasets]
  PROVE  TypeOK'
BY DEF TypeOK, Steps, Gets

(* A step that gives b no new facts and touches no shared state but the    *)
(* errors keeps all of IInv.                                               *)
LEMMA QuietStep ==
  ASSUME IInv, NEW b \in Batches, NEW d \in Datasets,
         NEW l \in Running \cup {"done"}, NEW v \in Outcomes,
         step[b][d] \in Running, Steps(b, d, l), Gets(b, d, v), Fits(l, v),
         l \notin Loading, l = "finish" => step[b][d] \in Loading,
         v \in Origins => v = got[b][d],
         UNCHANGED <<fallbackMock, cache, leader, reasons, stage, queue, scanned, answer>>,
         UNCHANGED ghostVars, loadError' \in SUBSET Datasets
  PROVE  IInv'
<1>. UNCHANGED <<begun, reloaded>>
  BY DEF ghostVars
<1>1. TypeOK'
  BY TypeKept DEF IInv, TypeOK
<1>2. QueueInv' /\ StageInv' /\ GotInv' /\ WarningsMatchFacts'
  BY WorkerKeeps
<1>3. FlightInv'
  BY FlightKept DEF IInv, Loading
<1>4. PhaseInv'
  BY PhaseKept DEF IInv, Loading
<1>5. HeldInv'
  BY HeldKept DEF IInv, Loading
<1>6. ReasonsMatchCache'
  BY DEF IInv, ReasonsMatchCache
<1>. QED
  BY <1>1, <1>2, <1>3, <1>4, <1>5, <1>6 DEF IInv

(* IInv holds initially.                                                   *)
LEMMA InitIInv == Init => IInv
<1> SUFFICES ASSUME Init PROVE IInv
  OBVIOUS
<1>1. TypeOK
  BY Assumptions DEF Init, TypeOK, Labels, Running, Origins, Outcomes, NoReply, Reply
<1>2. QueueInv
  BY DEF Init, QueueInv, IsInjective, ToSet
<1>. QED
  BY <1>1, <1>2
  DEF Init, IInv, StageInv, GotInv, FlightInv, Loading, PhaseInv, At, ReasonsMatchCache,
      HeldInv, Holds, WarningsMatchFacts, NoReply, Reply

-----------------------------------------------------------------------------
(* The steps of a worker, one lemma per action.                            *)

LEMMA JoinIInv ==
  ASSUME IInv, NEW b \in Batches, NEW d \in Datasets, Join(b, d)
  PROVE  IInv'
<1>1. Steps(b, d, "waiting")
  BY GotoSteps, Vocabulary DEF IInv, Join
<1>2. got[b][d] \in Outcomes /\ Gets(b, d, got[b][d]) /\ got[b][d] = "none"
  BY SameGets DEF IInv, Join, GotInv, At
<1>. QED
  BY <1>1, <1>2, QuietStep, Vocabulary
  DEF IInv, TypeOK, Join, At, Fits, Loading, sharedVars, ghostVars

LEMMA StartOverIInv ==
  ASSUME IInv, NEW b \in Batches, NEW d \in Datasets, StartOver(b, d)
  PROVE  IInv'
<1>1. Steps(b, d, "get")
  BY GotoSteps, Vocabulary DEF IInv, StartOver
<1>2. got[b][d] \in Outcomes /\ Gets(b, d, got[b][d]) /\ got[b][d] = "none"
  BY SameGets DEF IInv, StartOver, GotInv, At
<1>. QED
  BY <1>1, <1>2, QuietStep, Vocabulary
  DEF IInv, TypeOK, StartOver, At, Fits, Loading, sharedVars, ghostVars

LEMMA ShareErrorIInv ==
  ASSUME IInv, NEW b \in Batches, NEW d \in Datasets, ShareError(b, d)
  PROVE  IInv'
<1>1. Steps(b, d, "done")
  BY GotoSteps, Vocabulary DEF IInv, ShareError, End
<1>2. Gets(b, d, "failed")
  BY ExceptGets, Vocabulary DEF IInv, ShareError, End
<1>. QED
  BY <1>1, <1>2, QuietStep, Vocabulary
  DEF IInv, TypeOK, ShareError, At, Fits, Loading, ghostVars

LEMMA GiveUpIInv ==
  ASSUME IInv, NEW b \in Batches, NEW d \in Datasets, GiveUp(b, d)
  PROVE  IInv'
<1>1. Steps(b, d, "done")
  BY GotoSteps, Vocabulary DEF IInv, GiveUp, End
<1>2. Gets(b, d, "failed")
  BY ExceptGets, Vocabulary DEF IInv, GiveUp, End
<1>. QED
  BY <1>1, <1>2, QuietStep, Vocabulary
  DEF IInv, TypeOK, GiveUp, At, Fits, Loading, sharedVars, ghostVars

LEMMA LoadRaisesIInv ==
  ASSUME IInv, NEW b \in Batches, NEW d \in Datasets, LoadRaises(b, d)
  PROVE  IInv'
<1>1. Steps(b, d, "finish")
  BY GotoSteps, Vocabulary DEF IInv, LoadRaises, AfterRaise
<1>2. Gets(b, d, "failed")
  BY ExceptGets, Vocabulary DEF IInv, LoadRaises
<1>3. step[b][d] \in {"sql", "file"}
  BY DEF LoadRaises, At
<1>. QED
  BY <1>1, <1>2, <1>3, QuietStep, Vocabulary
  DEF IInv, TypeOK, LoadRaises, Fits, Loading, ghostVars

(* A hit takes facts whose reason matches them.                            *)
LEMMA HitIInv ==
  ASSUME IInv, NEW b \in Batches, NEW d \in Datasets, Hit(b, d)
  PROVE  IInv'
<1>. DEFINE v == cache[d]
<1>1. Steps(b, d, "done")
  BY GotoSteps, Vocabulary DEF IInv, Hit, End
<1>2. v \in Origins /\ v \in Outcomes
  BY Vocabulary DEF IInv, TypeOK, Hit
<1>3. Gets(b, d, v)
  BY <1>2, ExceptGets DEF IInv, Hit, End
<1>4. step[b][d] \in Running /\ stage[b] = "loading"
  BY RunningIsLoading, Vocabulary DEF Hit
<1>. HIDE DEF v
<1>5. UNCHANGED <<fallbackMock, cache, leader, loadError, reasons, stage, queue, scanned, answer,
                  begun, reloaded>>
  BY DEF Hit, sharedVars, ghostVars
<1>6. TypeOK'
  BY <1>1, <1>3, <1>5, TypeKept DEF IInv, TypeOK
<1>7. QueueInv' /\ StageInv' /\ GotInv' /\ WarningsMatchFacts'
  BY <1>1, <1>2, <1>3, <1>4, <1>5, WorkerKeeps, Vocabulary DEF Fits
<1>8. FlightInv'
  BY <1>1, <1>5, FlightKept DEF IInv, Loading
<1>9. PhaseInv'
  BY <1>1, <1>3, <1>5, PhaseKept DEF IInv
<1>10. HeldInv'
  <2> SUFFICES ASSUME NEW c \in Batches, NEW e \in Datasets, Holds(c, e)'
               PROVE  /\ got'[c][e] = "mock" <=> e \in reasons
                      /\ stage[c] = "scanning" => (got'[c][e] = "mock" <=> e \in scanned[c])
                      /\ \A f \in Batches : step'[f][e] # "sql"
    BY <1>5 DEF HeldInv, At
  <2>1. CASE c = b /\ e = d
    <3>1. got'[c][e] = "mock" <=> e \in reasons
      BY <1>2, <1>3, <2>1 DEF IInv, ReasonsMatchCache, Hit, Gets, v
    <3>2. \A f \in Batches : step[f][e] # "sql"
      BY <2>1 DEF IInv, FlightInv, Loading, Hit
    <3>. QED
      BY <1>1, <1>4, <2>1, <3>1, <3>2 DEF Steps
  <2>2. CASE c # b \/ e # d
    <3>1. Holds(c, e) /\ got'[c][e] = got[c][e]
      BY <1>3, <1>5, <2>2 DEF Holds, Gets
    <3>. QED
      BY <1>1, <3>1 DEF IInv, HeldInv, Steps, At
  <2>. QED
    BY <2>1, <2>2
<1>11. ReasonsMatchCache'
  BY <1>5 DEF IInv, ReasonsMatchCache
<1>. QED
  BY <1>6, <1>7, <1>8, <1>9, <1>10, <1>11 DEF IInv

(* A leader is elected only where nobody loads.                            *)
LEMMA LeadIInv ==
  ASSUME IInv, NEW b \in Batches, NEW d \in Datasets, Lead(b, d)
  PROVE  IInv'
<1>1. Steps(b, d, "forget")
  BY GotoSteps, Vocabulary DEF IInv, Lead
<1>2. got[b][d] \in Outcomes /\ Gets(b, d, got[b][d]) /\ got[b][d] = "none"
  BY SameGets DEF IInv, Lead, GotInv, At
<1>3. /\ leader[d] = None /\ cache[d] = "none" /\ step[b][d] = "get"
      /\ leader' = [leader EXCEPT ![d] = b] /\ loadError' = loadError \ {d}
      /\ UNCHANGED <<fallbackMock, cache, reasons, stage, queue, scanned, answer, begun, reloaded>>
  BY DEF Lead, NobodyLoads, At, ghostVars
<1>4. TypeOK'
  BY <1>1, <1>2, <1>3, TypeKept DEF IInv, TypeOK
<1>5. QueueInv' /\ StageInv' /\ GotInv' /\ WarningsMatchFacts'
  BY <1>1, <1>2, <1>3, WorkerKeeps, Vocabulary DEF Fits
<1>6. FlightInv'
  <2>1. \A c \in Batches : step[c][d] \notin Loading \cup {"finish"}
    BY <1>3, Assumptions DEF IInv, FlightInv
  <2>2. \A e \in Datasets : leader'[e] = IF e = d THEN b ELSE leader[e]
    BY <1>3 DEF IInv, TypeOK
  <2>. QED
    BY <1>1, <1>3, <2>1, <2>2 DEF IInv, FlightInv, Steps, Loading
<1>7. PhaseInv'
  BY <1>1, <1>2, <1>3, PhaseKept DEF IInv
<1>8. HeldInv'
  BY <1>1, <1>2, <1>3, HeldKept DEF IInv
<1>9. ReasonsMatchCache'
  BY <1>3 DEF IInv, ReasonsMatchCache
<1>. QED
  BY <1>4, <1>5, <1>6, <1>7, <1>8, <1>9 DEF IInv

(* The load forgets the reason: whoever holds older facts is marked.       *)
LEMMA ForgetReasonIInv ==
  ASSUME IInv, NEW b \in Batches, NEW d \in Datasets, ForgetReason(b, d)
  PROVE  IInv'
<1>1. Steps(b, d, "sql")
  BY GotoSteps, Vocabulary DEF IInv, ForgetReason
<1>2. got[b][d] \in Outcomes /\ Gets(b, d, got[b][d]) /\ got[b][d] = "none"
  BY SameGets DEF IInv, ForgetReason, GotInv, At
<1>3. /\ step[b][d] = "forget" /\ reasons' = reasons \ {d}
      /\ reloaded' = [c \in Batches |->
                        IF stage[c] # "idle" /\ got[c][d] \in Origins
                        THEN reloaded[c] \cup {d} ELSE reloaded[c]]
      /\ UNCHANGED <<fallbackMock, cache, leader, loadError, stage, queue, got, scanned, answer, begun>>
  BY DEF ForgetReason, Forget, At
<1>4. TypeOK'
  <2>1. reloaded' \in [Batches -> SUBSET Datasets]
    BY <1>3 DEF IInv, TypeOK
  <2>. QED
    BY <1>1, <1>2, <1>3, <2>1, TypeKept DEF IInv, TypeOK
<1>5. QueueInv' /\ StageInv' /\ GotInv' /\ WarningsMatchFacts'
  BY <1>1, <1>2, <1>3, WorkerKeeps, Vocabulary DEF Fits
<1>6. FlightInv'
  BY <1>1, <1>3, FlightKept DEF IInv, Loading
<1>7. \A c \in Batches : step[c][d] \in Loading => c = b
  BY <1>3, OneLoads DEF IInv, Loading
<1>8. PhaseInv'
  BY <1>1, <1>2, <1>3, <1>7 DEF IInv, PhaseInv, At, Steps, Loading
<1>9. HeldInv'
  <2> SUFFICES ASSUME NEW c \in Batches, NEW e \in Datasets, Holds(c, e)'
               PROVE  /\ got[c][e] = "mock" <=> e \in reasons'
                      /\ stage[c] = "scanning" => (got[c][e] = "mock" <=> e \in scanned[c])
                      /\ \A f \in Batches : step'[f][e] # "sql"
    BY <1>3 DEF HeldInv, At
  <2>1. e # d /\ Holds(c, e)
    BY <1>3 DEF Holds
  <2>. QED
    BY <1>1, <1>3, <2>1 DEF IInv, HeldInv, Steps, At
<1>10. ReasonsMatchCache'
  BY <1>3 DEF IInv, ReasonsMatchCache, FlightInv, Loading
<1>. QED
  BY <1>4, <1>5, <1>6, <1>8, <1>9, <1>10 DEF IInv

LEMMA SqlLoadsIInv ==
  ASSUME IInv, NEW b \in Batches, NEW d \in Datasets, SqlLoads(b, d)
  PROVE  IInv'
<1>1. Steps(b, d, "publish")
  BY GotoSteps, Vocabulary DEF IInv, SqlLoads
<1>2. Gets(b, d, "sql")
  BY ExceptGets, Vocabulary DEF IInv, SqlLoads
<1>3. /\ step[b][d] = "sql"
      /\ UNCHANGED <<fallbackMock, cache, leader, loadError, reasons, stage, queue, scanned, answer,
                     begun, reloaded>>
  BY DEF SqlLoads, At, sharedVars, ghostVars
<1>4. TypeOK'
  BY <1>1, <1>2, <1>3, TypeKept DEF IInv, TypeOK
<1>5. QueueInv' /\ StageInv' /\ GotInv' /\ WarningsMatchFacts'
  BY <1>1, <1>2, <1>3, WorkerKeeps, Vocabulary DEF Fits
<1>6. FlightInv'
  BY <1>1, <1>3, FlightKept DEF IInv, Loading
<1>7. \A c \in Batches : step[c][d] \in Loading => c = b
  BY <1>3, OneLoads DEF IInv, Loading
<1>8. PhaseInv'
  BY <1>1, <1>2, <1>3, <1>7 DEF IInv, PhaseInv, At, Steps, Gets, Loading
<1>9. HeldInv'
  <2> SUFFICES ASSUME NEW c \in Batches, NEW e \in Datasets, Holds(c, e)'
               PROVE  /\ got'[c][e] = "mock" <=> e \in reasons
                      /\ stage[c] = "scanning" => (got'[c][e] = "mock" <=> e \in scanned[c])
                      /\ \A f \in Batches : step'[f][e] # "sql"
    BY <1>3 DEF HeldInv, At
  <2>1. CASE c = b /\ e = d
    <3>1. stage[c] = "loading" /\ got'[c][e] = "sql" /\ e \notin reasons
      BY <1>2, <1>3, <2>1, RunningIsLoading, Vocabulary DEF IInv, PhaseInv, At, Gets
    <3>2. \A f \in Batches : step'[f][e] # "sql"
      BY <1>1, <1>7, <2>1 DEF Steps, Loading
    <3>. QED
      BY <3>1, <3>2
  <2>2. CASE c # b \/ e # d
    <3>1. Holds(c, e) /\ got'[c][e] = got[c][e]
      BY <1>2, <1>3, <2>2 DEF Holds, Gets
    <3>. QED
      BY <1>1, <3>1 DEF IInv, HeldInv, Steps, At
  <2>. QED
    BY <2>1, <2>2
<1>10. ReasonsMatchCache'
  BY <1>3 DEF IInv, ReasonsMatchCache
<1>. QED
  BY <1>4, <1>5, <1>6, <1>8, <1>9, <1>10 DEF IInv

(* A fallback records its reason before anybody holds facts of the load.   *)
LEMMA FallBackIInv ==
  ASSUME IInv, NEW b \in Batches, NEW d \in Datasets, FallBack(b, d)
  PROVE  IInv'
<1>1. Steps(b, d, "file")
  BY GotoSteps, Vocabulary DEF IInv, FallBack
<1>2. got[b][d] \in Outcomes /\ Gets(b, d, got[b][d]) /\ got[b][d] = "none"
  BY SameGets DEF IInv, FallBack, GotInv, At
<1>3. /\ step[b][d] = "sql" /\ reasons' = reasons \cup {d}
      /\ UNCHANGED <<fallbackMock, cache, leader, loadError, stage, queue, got, scanned, answer,
                     begun, reloaded>>
  BY DEF FallBack, At, ghostVars
<1>4. TypeOK'
  BY <1>1, <1>2, <1>3, TypeKept DEF IInv, TypeOK
<1>5. QueueInv' /\ StageInv' /\ GotInv' /\ WarningsMatchFacts'
  BY <1>1, <1>2, <1>3, WorkerKeeps, Vocabulary DEF Fits
<1>6. FlightInv'
  BY <1>1, <1>3, FlightKept DEF IInv, Loading
<1>7. \A c \in Batches : step[c][d] \in Loading => c = b
  BY <1>3, OneLoads DEF IInv, Loading
<1>8. PhaseInv'
  BY <1>1, <1>3, <1>7 DEF IInv, PhaseInv, At, Steps, Loading
<1>9. HeldInv'
  <2> SUFFICES ASSUME NEW c \in Batches, NEW e \in Datasets, Holds(c, e)'
               PROVE  /\ got[c][e] = "mock" <=> e \in reasons'
                      /\ stage[c] = "scanning" => (got[c][e] = "mock" <=> e \in scanned[c])
                      /\ \A f \in Batches : step'[f][e] # "sql"
    BY <1>3 DEF HeldInv, At
  <2>1. Holds(c, e)
    BY <1>3 DEF Holds
  <2>2. e # d
    BY <1>3, <2>1 DEF IInv, HeldInv, At
  <2>. QED
    BY <1>1, <1>3, <2>1, <2>2 DEF IInv, HeldInv, Steps, At
<1>10. ReasonsMatchCache'
  BY <1>3 DEF IInv, ReasonsMatchCache, FlightInv, Loading
<1>. QED
  BY <1>4, <1>5, <1>6, <1>8, <1>9, <1>10 DEF IInv

LEMMA FileLoadsIInv ==
  ASSUME IInv, NEW b \in Batches, NEW d \in Datasets, FileLoads(b, d)
  PROVE  IInv'
<1>1. Steps(b, d, "publish")
  BY GotoSteps, Vocabulary DEF IInv, FileLoads
<1>2. Gets(b, d, "mock")
  BY ExceptGets, Vocabulary DEF IInv, FileLoads
<1>3. /\ step[b][d] = "file"
      /\ UNCHANGED <<fallbackMock, cache, leader, loadError, reasons, stage, queue, scanned, answer,
                     begun, reloaded>>
  BY DEF FileLoads, At, sharedVars, ghostVars
<1>4. TypeOK'
  BY <1>1, <1>2, <1>3, TypeKept DEF IInv, TypeOK
<1>5. QueueInv' /\ StageInv' /\ GotInv' /\ WarningsMatchFacts'
  BY <1>1, <1>2, <1>3, WorkerKeeps, Vocabulary DEF Fits
<1>6. FlightInv'
  BY <1>1, <1>3, FlightKept DEF IInv, Loading
<1>7. \A c \in Batches : step[c][d] \in Loading => c = b
  BY <1>3, OneLoads DEF IInv, Loading
<1>8. PhaseInv'
  BY <1>1, <1>2, <1>3, <1>7 DEF IInv, PhaseInv, At, Steps, Gets, Loading
<1>9. HeldInv'
  <2> SUFFICES ASSUME NEW c \in Batches, NEW e \in Datasets, Holds(c, e)'
               PROVE  /\ got'[c][e] = "mock" <=> e \in reasons
                      /\ stage[c] = "scanning" => (got'[c][e] = "mock" <=> e \in scanned[c])
                      /\ \A f \in Batches : step'[f][e] # "sql"
    BY <1>3 DEF HeldInv, At
  <2>1. CASE c = b /\ e = d
    <3>1. stage[c] = "loading" /\ got'[c][e] = "mock" /\ e \in reasons
      BY <1>2, <1>3, <2>1, RunningIsLoading, Vocabulary DEF IInv, PhaseInv, At, Gets
    <3>2. \A f \in Batches : step'[f][e] # "sql"
      BY <1>1, <1>7, <2>1 DEF Steps, Loading
    <3>. QED
      BY <3>1, <3>2
  <2>2. CASE c # b \/ e # d
    <3>1. Holds(c, e) /\ got'[c][e] = got[c][e]
      BY <1>2, <1>3, <2>2 DEF Holds, Gets
    <3>. QED
      BY <1>1, <3>1 DEF IInv, HeldInv, Steps, At
  <2>. QED
    BY <2>1, <2>2
<1>10. ReasonsMatchCache'
  BY <1>3 DEF IInv, ReasonsMatchCache
<1>. QED
  BY <1>4, <1>5, <1>6, <1>8, <1>9, <1>10 DEF IInv

(* What is published matches its reason.                                   *)
LEMMA PublishIInv ==
  ASSUME IInv, NEW b \in Batches, NEW d \in Datasets, Publish(b, d)
  PROVE  IInv'
<1>1. Steps(b, d, "finish")
  BY GotoSteps, Vocabulary DEF IInv, Publish
<1>2. got[b][d] \in Outcomes /\ Gets(b, d, got[b][d]) /\ got[b][d] \in Origins
  BY SameGets DEF IInv, Publish, GotInv, At
<1>3. /\ step[b][d] = "publish" /\ cache' = [cache EXCEPT ![d] = got[b][d]]
      /\ loadError' = loadError \ {d}
      /\ UNCHANGED <<fallbackMock, leader, reasons, stage, queue, scanned, answer, begun, reloaded>>
  BY DEF Publish, At, ghostVars
<1>4. TypeOK'
  BY <1>1, <1>2, <1>3, TypeKept DEF IInv, TypeOK
<1>5. QueueInv' /\ StageInv' /\ GotInv' /\ WarningsMatchFacts'
  BY <1>1, <1>2, <1>3, WorkerKeeps, Vocabulary DEF Fits
<1>6. \A e \in Datasets : cache'[e] = IF e = d THEN got[b][d] ELSE cache[e]
  BY <1>3 DEF IInv, TypeOK
<1>7. \A c \in Batches : step[c][d] \in Loading => c = b
  BY <1>3, OneLoads DEF IInv, Loading
<1>8. FlightInv'
  BY <1>1, <1>3, <1>6, <1>7 DEF IInv, FlightInv, Steps, Loading
<1>9. PhaseInv'
  BY <1>1, <1>2, <1>3, PhaseKept DEF IInv
<1>10. HeldInv'
  BY <1>1, <1>2, <1>3, HeldKept DEF IInv
<1>11. ReasonsMatchCache'
  BY <1>3, <1>6 DEF IInv, ReasonsMatchCache, PhaseInv, At
<1>. QED
  BY <1>4, <1>5, <1>8, <1>9, <1>10, <1>11 DEF IInv

LEMMA FinishIInv ==
  ASSUME IInv, NEW b \in Batches, NEW d \in Datasets, Finish(b, d)
  PROVE  IInv'
<1>1. Steps(b, d, "done")
  BY Vocabulary DEF IInv, TypeOK, Finish, Steps, At
<1>2. got[b][d] \in Outcomes /\ Gets(b, d, got[b][d]) /\ got[b][d] # "none"
  BY SameGets DEF IInv, Finish, GotInv, At
<1>3. /\ step[b][d] = "finish" /\ leader' = [leader EXCEPT ![d] = None]
      /\ UNCHANGED <<fallbackMock, cache, loadError, reasons, stage, queue, scanned, answer, begun,
                     reloaded>>
  BY DEF Finish, At, ghostVars
<1>4. TypeOK'
  BY <1>1, <1>2, <1>3, TypeKept DEF IInv, TypeOK
<1>5. QueueInv' /\ StageInv' /\ GotInv' /\ WarningsMatchFacts'
  BY <1>1, <1>2, <1>3, WorkerKeeps, Vocabulary DEF Fits
<1>6. FlightInv'
  <2>1. \A c \in Batches : step[c][d] \in Loading \cup {"finish"} => c = b
    BY <1>3, OneLoads DEF IInv, Loading
  <2>2. \A e \in Datasets : leader'[e] = IF e = d THEN None ELSE leader[e]
    BY <1>3 DEF IInv, TypeOK
  <2>. QED
    BY <1>1, <1>3, <2>1, <2>2 DEF IInv, FlightInv, Steps, Loading
<1>7. PhaseInv'
  BY <1>1, <1>2, <1>3, PhaseKept DEF IInv
<1>8. HeldInv'
  BY <1>1, <1>2, <1>3, HeldKept DEF IInv
<1>9. ReasonsMatchCache'
  BY <1>3 DEF IInv, ReasonsMatchCache
<1>. QED
  BY <1>4, <1>5, <1>6, <1>7, <1>8, <1>9 DEF IInv

-----------------------------------------------------------------------------
(* The steps of a request, and of the cache.                               *)

(* The orders of load_many are duplicate-free sequences of datasets.       *)
LEMMA OrdersAreSequences == \A o \in Orders : o \in Seq(Datasets) /\ IsInjective(o)
<1>1. Cardinality(Datasets) \in Nat
  BY Assumptions, FS_CardinalityType
<1>2. \A n \in 1 .. Cardinality(Datasets) : [1 .. n -> Datasets] \subseteq Seq(Datasets)
  BY <1>1
<1>. QED
  BY <1>2 DEF Orders

LEMMA BeginIInv ==
  ASSUME IInv, NEW b \in Batches, NEW o \in Orders, Begin(b, o)
  PROVE  IInv'
<1>1. o \in Seq(Datasets) /\ IsInjective(o)
  BY OrdersAreSequences
<1>2. /\ stage[b] = "idle" /\ begun < MaxBatches /\ begun' = begun + 1
      /\ UNCHANGED <<fallbackMock, cache, leader, loadError, reasons, scanned>>
  BY DEF Begin, sharedVars
<1>3. /\ stage' \in [Batches -> {"idle", "loading", "scanning"}]
      /\ \A c \in Batches : stage'[c] = IF c = b THEN "loading" ELSE stage[c]
  BY DEF Begin, IInv, TypeOK
<1>4. /\ queue' \in [Batches -> Seq(Datasets)]
      /\ \A c \in Batches : queue'[c] = IF c = b THEN o ELSE queue[c]
  BY <1>1 DEF Begin, IInv, TypeOK
<1>5. /\ step' \in [Batches -> [Datasets -> Labels]]
      /\ \A c \in Batches, d \in Datasets :
           step'[c][d] = IF c = b THEN (IF d \in ToSet(o) THEN "queued" ELSE "out") ELSE step[c][d]
  BY Vocabulary DEF Begin, IInv, TypeOK
<1>6. /\ got' \in [Batches -> [Datasets -> Outcomes]]
      /\ \A c \in Batches, d \in Datasets : got'[c][d] = IF c = b THEN "none" ELSE got[c][d]
  BY Vocabulary DEF Begin, IInv, TypeOK
<1>7. /\ answer' \in [Batches -> [kind : {"none", "warned", "error"},
                                  failed : SUBSET Datasets, mock : SUBSET Datasets]]
      /\ \A c \in Batches : answer'[c] = IF c = b THEN NoReply ELSE answer[c]
  BY DEF Begin, IInv, TypeOK, NoReply, Reply
<1>8. /\ reloaded' \in [Batches -> SUBSET Datasets]
      /\ \A c \in Batches : reloaded'[c] = IF c = b THEN {} ELSE reloaded[c]
  BY DEF Begin, IInv, TypeOK
<1>9. TypeOK'
  <2>1. begun' \in 0 .. MaxBatches
    BY <1>2, Assumptions DEF IInv, TypeOK
  <2>. QED
    BY <1>2, <1>3, <1>4, <1>5, <1>6, <1>7, <1>8, <2>1 DEF IInv, TypeOK
<1>10. ASSUME NEW c \in Batches, c # b
       PROVE  /\ stage'[c] = stage[c] /\ queue'[c] = queue[c] /\ answer'[c] = answer[c]
              /\ reloaded'[c] = reloaded[c]
              /\ \A d \in Datasets : step'[c][d] = step[c][d] /\ got'[c][d] = got[c][d]
  BY <1>3, <1>4, <1>5, <1>6, <1>7, <1>8, <1>10
<1>11. /\ stage'[b] = "loading" /\ queue'[b] = o /\ answer'[b].kind = "none"
       /\ \A d \in Datasets : /\ step'[b][d] \in {"queued", "out"} /\ got'[b][d] = "none"
                              /\ d \in ToSet(o) => step'[b][d] = "queued"
  BY <1>3, <1>4, <1>5, <1>6, <1>7 DEF NoReply, Reply
<1>12. QueueInv'
  <2> SUFFICES ASSUME NEW c \in Batches
               PROVE  /\ IsInjective(queue'[c])
                      /\ \A d \in Datasets : d \in ToSet(queue'[c]) => step'[c][d] = "queued"
    BY DEF QueueInv, At
  <2>1. CASE c = b
    BY <1>1, <1>11, <2>1
  <2>2. CASE c # b
    BY <1>10, <2>2 DEF IInv, QueueInv, At
  <2>. QED
    BY <2>1, <2>2
<1>13. StageInv'
  BY <1>10, <1>11 DEF IInv, StageInv
<1>14. GotInv'
  BY <1>10, <1>11 DEF IInv, GotInv, At
<1>15. FlightInv' /\ PhaseInv' /\ ReasonsMatchCache'
  BY <1>2, <1>10, <1>11 DEF IInv, FlightInv, Loading, PhaseInv, ReasonsMatchCache, At
<1>16. HeldInv'
  <2> SUFFICES ASSUME NEW c \in Batches, NEW e \in Datasets, Holds(c, e)'
               PROVE  /\ got'[c][e] = "mock" <=> e \in reasons
                      /\ stage'[c] = "scanning" => (got'[c][e] = "mock" <=> e \in scanned[c])
                      /\ \A f \in Batches : step'[f][e] # "sql"
    BY <1>2 DEF HeldInv, At
  <2>1. c # b
    BY <1>6, Vocabulary DEF Holds
  <2>2. Holds(c, e) /\ got'[c][e] = got[c][e] /\ stage'[c] = stage[c]
    BY <1>3, <1>6, <1>8, <2>1 DEF Holds
  <2>. QED
    BY <1>5, <2>2 DEF IInv, HeldInv, At
<1>17. WarningsMatchFacts'
  BY <1>10, <1>11 DEF IInv, WarningsMatchFacts, Asked
<1>. QED
  BY <1>9, <1>12, <1>13, <1>14, <1>15, <1>16, <1>17 DEF IInv

(* Dropping the first element of a sequence without duplicates.            *)
LEMMA TailProperties ==
  ASSUME NEW S, NEW s \in Seq(S), IsInjective(s), s # <<>>
  PROVE  /\ Tail(s) \in Seq(S)
         /\ IsInjective(Tail(s))
         /\ ToSet(Tail(s)) = ToSet(s) \ {Head(s)}
         /\ Head(s) \in ToSet(s)
         /\ Len(Tail(s)) = Len(s) - 1
<1>. DEFINE t == Tail(s)
<1>1. /\ t \in Seq(S) /\ Len(s) \in Nat \ {0} /\ Head(s) = s[1]
      /\ Len(t) = Len(s) - 1
      /\ \A i \in 1 .. Len(s) - 1 : t[i] = s[i + 1]
  BY HeadTailProperties
<1>. HIDE DEF t
<1>2. \A x, y \in 1 .. Len(s) : s[x] = s[y] => x = y
  BY DEF IsInjective
<1>3. ASSUME NEW x \in 1 .. Len(s) - 1, NEW y \in 1 .. Len(s) - 1, t[x] = t[y]
      PROVE  x = y
  BY <1>1, <1>2, <1>3
<1>4. IsInjective(t)
  BY <1>1, <1>3 DEF IsInjective
<1>5. ASSUME NEW x \in ToSet(s) \ {Head(s)} PROVE x \in ToSet(t)
  <2>1. PICK j \in 1 .. Len(s) : s[j] = x
    BY <1>5 DEF ToSet
  <2>2. j - 1 \in 1 .. Len(s) - 1 /\ j - 1 + 1 = j
    BY <1>1, <1>5, <2>1
  <2>3. t[j - 1] = x
    BY <1>1, <2>1, <2>2
  <2>. QED
    BY <1>1, <2>2, <2>3 DEF ToSet
<1>6. ASSUME NEW x \in ToSet(t) PROVE x \in ToSet(s) \ {Head(s)}
  <2>1. PICK j \in 1 .. Len(s) - 1 : x = t[j]
    BY <1>1, <1>6 DEF ToSet
  <2>. QED
    BY <1>1, <1>2, <2>1 DEF ToSet
<1>7. Head(s) \in ToSet(s)
  BY <1>1 DEF ToSet
<1>. QED
  BY <1>1, <1>4, <1>5, <1>6, <1>7 DEF t

LEMMA StartWorkerIInv ==
  ASSUME IInv, NEW b \in Batches, StartWorker(b)
  PROVE  IInv'
<1>. DEFINE d == Head(queue[b])
<1>1. /\ Tail(queue[b]) \in Seq(Datasets) /\ IsInjective(Tail(queue[b]))
      /\ ToSet(Tail(queue[b])) = ToSet(queue[b]) \ {d} /\ d \in ToSet(queue[b])
      /\ d \in Datasets
  <2>1. queue[b] \in Seq(Datasets) /\ IsInjective(queue[b]) /\ queue[b] # <<>>
    BY DEF StartWorker, IInv, TypeOK, QueueInv
  <2>2. ToSet(queue[b]) \subseteq Datasets
    BY <2>1 DEF ToSet
  <2>. QED
    BY <2>1, <2>2, TailProperties
<1>2. /\ Goto(b, d, "get") /\ queue' = [queue EXCEPT ![b] = Tail(queue[b])]
      /\ UNCHANGED <<fallbackMock, cache, leader, loadError, reasons, stage, got, scanned, answer,
                     begun, reloaded>>
  BY DEF StartWorker, sharedVars, ghostVars
<1>3. step[b][d] = "queued"
  BY <1>1 DEF IInv, QueueInv, At
<1>. HIDE DEF d
<1>4. Steps(b, d, "get")
  BY <1>1, <1>2, GotoSteps, Vocabulary DEF IInv
<1>5. /\ queue' \in [Batches -> Seq(Datasets)]
      /\ \A c \in Batches : queue'[c] = IF c = b THEN Tail(queue[b]) ELSE queue[c]
  BY <1>1, <1>2 DEF IInv, TypeOK
<1>6. got[b][d] \in Outcomes /\ Gets(b, d, got[b][d]) /\ got[b][d] = "none"
  BY <1>1, <1>2, <1>3, SameGets DEF IInv, GotInv
<1>7. stage[b] = "loading"
  BY <1>1, <1>3 DEF IInv, StageInv
<1>8. TypeOK'
  BY <1>2, <1>4, <1>5 DEF IInv, TypeOK, Steps
<1>9. QueueInv'
  <2> SUFFICES ASSUME NEW c \in Batches
               PROVE  /\ IsInjective(queue'[c])
                      /\ \A e \in Datasets : e \in ToSet(queue'[c]) => step'[c][e] = "queued"
    BY DEF QueueInv, At
  <2>1. /\ IsInjective(queue[c])
        /\ \A e \in Datasets : e \in ToSet(queue[c]) => step[c][e] = "queued"
    BY DEF IInv, QueueInv, At
  <2>2. ASSUME NEW e \in Datasets, e # d \/ c # b, step[c][e] = "queued"
        PROVE  step'[c][e] = "queued"
    BY <1>4, <2>2 DEF Steps
  <2>3. CASE c = b
    <3>1. queue'[c] = Tail(queue[b])
      BY <1>5, <2>3
    <3>2. ASSUME NEW e \in Datasets, e \in ToSet(queue'[c]) PROVE step'[c][e] = "queued"
      BY <1>1, <2>1, <2>2, <2>3, <3>1, <3>2
    <3>. QED
      BY <1>1, <3>1, <3>2
  <2>4. CASE c # b
    <3>1. queue'[c] = queue[c]
      BY <1>5, <2>4
    <3>. QED
      BY <2>1, <2>2, <2>4, <3>1
  <2>. QED
    BY <2>3, <2>4
<1>10. StageInv'
  BY <1>1, <1>2, <1>4, <1>7 DEF IInv, StageInv, Steps
<1>11. GotInv'
  BY <1>1, <1>2, <1>4, <1>6 DEF IInv, GotInv, At, Steps
<1>12. FlightInv'
  BY <1>1, <1>2, <1>4, FlightKept DEF IInv, Loading
<1>13. PhaseInv'
  BY <1>1, <1>2, <1>4, <1>6, PhaseKept DEF IInv
<1>14. HeldInv'
  BY <1>1, <1>2, <1>4, <1>6, HeldKept DEF IInv
<1>15. ReasonsMatchCache'
  BY <1>2 DEF IInv, ReasonsMatchCache
<1>16. WarningsMatchFacts'
  <2> SUFFICES ASSUME NEW c \in Batches, answer[c].kind = "warned",
                      NEW e \in Datasets, e \notin reloaded[c]
               PROVE  /\ got[c][e] = "mock" => e \in answer[c].mock
                      /\ e \in answer[c].mock => got[c][e] \in {"mock", "failed"}
                      /\ e \in answer[c].failed <=> step'[c][e] # "out" /\ got[c][e] \notin Origins
    BY <1>2 DEF WarningsMatchFacts, Asked
  <2>1. stage[c] = "idle"
    BY DEF IInv, StageInv
  <2>2. step'[c][e] = step[c][e]
    BY <1>1, <1>4, <1>7, <2>1 DEF IInv, StageInv, Steps
  <2>. QED
    BY <2>2 DEF IInv, WarningsMatchFacts, Asked
<1>. QED
  BY <1>8, <1>9, <1>10, <1>11, <1>12, <1>13, <1>14, <1>15, <1>16 DEF IInv

(* Whatever a request answers, only the warnings themselves are at stake.  *)
LEMMA AnswerKeeps ==
  ASSUME IInv, NEW b \in Batches, stage[b] # "idle",
         \A d \in Datasets : step[b][d] \in {"out", "done"},
         NEW r \in [kind : {"none", "warned", "error"},
                    failed : SUBSET Datasets, mock : SUBSET Datasets],
         Answer(b, r),
         r.kind = "warned" =>
           /\ r.failed = Failed(b)
           /\ \A d \in Datasets \ reloaded[b] : got[b][d] \in Origins =>
                (got[b][d] = "mock" <=> d \in r.mock)
           /\ r.mock \subseteq Asked(b)
  PROVE  IInv'
<1>1. /\ stage' = [stage EXCEPT ![b] = "idle"] /\ answer' = [answer EXCEPT ![b] = r]
      /\ scanned' = [scanned EXCEPT ![b] = {}]
      /\ UNCHANGED <<fallbackMock, cache, leader, loadError, reasons, queue, step, got, begun, reloaded>>
  BY DEF Answer, sharedVars, ghostVars
<1>2. TypeOK'
  BY <1>1 DEF IInv, TypeOK
<1>3. \A c \in Batches : /\ stage'[c] = IF c = b THEN "idle" ELSE stage[c]
                         /\ answer'[c] = IF c = b THEN r ELSE answer[c]
                         /\ scanned'[c] = IF c = b THEN {} ELSE scanned[c]
  BY <1>1 DEF IInv, TypeOK
<1>4. QueueInv' /\ GotInv' /\ FlightInv' /\ PhaseInv' /\ ReasonsMatchCache'
  BY <1>1 DEF IInv, QueueInv, GotInv, FlightInv, PhaseInv, ReasonsMatchCache, At
<1>5. StageInv'
  BY <1>1, <1>3 DEF IInv, StageInv
<1>6. HeldInv'
  BY <1>1, <1>3 DEF IInv, HeldInv, Holds, At
<1>7. WarningsMatchFacts'
  <2> SUFFICES ASSUME NEW c \in Batches, answer'[c].kind = "warned",
                      NEW e \in Datasets, e \notin reloaded[c]
               PROVE  /\ got[c][e] = "mock" => e \in answer'[c].mock
                      /\ e \in answer'[c].mock => got[c][e] \in {"mock", "failed"}
                      /\ e \in answer'[c].failed <=> step[c][e] # "out" /\ got[c][e] \notin Origins
    BY <1>1 DEF WarningsMatchFacts, Asked
  <2>1. CASE c # b
    BY <1>3, <2>1 DEF IInv, WarningsMatchFacts, Asked
  <2>2. CASE c = b
    <3>1. step[b][e] # "out" => got[b][e] \in {"sql", "mock", "failed"}
      BY Vocabulary DEF IInv, TypeOK, GotInv
    <3>2. step[b][e] = "out" => got[b][e] = "none"
      BY DEF IInv, GotInv
    <3>3. answer'[c] = r
      BY <1>3, <2>2
    <3>. QED
      BY <2>2, <3>1, <3>2, <3>3, Vocabulary DEF Failed, Asked
  <2>. QED
    BY <2>1, <2>2
<1>. QED
  BY <1>2, <1>4, <1>5, <1>6, <1>7 DEF IInv

LEMMA DrainedIsDone ==
  ASSUME NEW b \in Batches, Drained(b)
  PROVE  stage[b] = "loading" /\ \A d \in Datasets : step[b][d] \in {"out", "done"}
BY DEF Drained, Asked, At

LEMMA NoReasonsIInv ==
  ASSUME IInv, NEW b \in Batches, NoReasons(b)
  PROVE  IInv'
<1>1. stage[b] = "loading" /\ \A d \in Datasets : step[b][d] \in {"out", "done"}
  BY DrainedIsDone DEF NoReasons
<1>2. \A d \in Datasets \ reloaded[b] : got[b][d] \in Origins => got[b][d] # "mock"
  BY <1>1 DEF IInv, HeldInv, Holds, NoReasons
<1>3. Failed(b) \in SUBSET Datasets
  BY DEF Failed
<1>4. Answer(b, Reply("warned", Failed(b), {}))
  BY DEF NoReasons
<1>. QED
  BY <1>1, <1>2, <1>3, <1>4, AnswerKeeps DEF Reply

LEMMA BeginScanIInv ==
  ASSUME IInv, NEW b \in Batches, BeginScan(b)
  PROVE  IInv'
<1>1. stage[b] = "loading" /\ \A d \in Datasets : step[b][d] \in {"out", "done"}
  BY DrainedIsDone DEF BeginScan
<1>2. /\ stage' = [stage EXCEPT ![b] = "scanning"] /\ scanned' = [scanned EXCEPT ![b] = reasons]
      /\ UNCHANGED <<fallbackMock, cache, leader, loadError, reasons, queue, step, got, answer, begun, reloaded>>
  BY DEF BeginScan, sharedVars, ghostVars
<1>3. TypeOK'
  BY <1>2 DEF IInv, TypeOK
<1>4. \A c \in Batches : /\ stage'[c] = IF c = b THEN "scanning" ELSE stage[c]
                         /\ scanned'[c] = IF c = b THEN reasons ELSE scanned[c]
  BY <1>2 DEF IInv, TypeOK
<1>5. QueueInv' /\ GotInv' /\ FlightInv' /\ PhaseInv' /\ ReasonsMatchCache'
  BY <1>2 DEF IInv, QueueInv, GotInv, FlightInv, PhaseInv, ReasonsMatchCache, At
<1>6. StageInv'
  BY <1>1, <1>2, <1>4 DEF IInv, StageInv
<1>7. HeldInv'
  BY <1>1, <1>2, <1>4 DEF IInv, HeldInv, Holds, At
<1>8. WarningsMatchFacts'
  BY <1>2 DEF IInv, WarningsMatchFacts, Asked
<1>. QED
  BY <1>3, <1>5, <1>6, <1>7, <1>8 DEF IInv

(* A scan meets every key that stayed in the table while it ran.           *)
LEMMA EndScanIInv ==
  ASSUME IInv, NEW b \in Batches, EndScan(b)
  PROVE  IInv'
<1>1. stage[b] = "scanning" /\ \A d \in Datasets : step[b][d] \in {"out", "done"}
  BY DEF EndScan, IInv, StageInv
<1>2. PICK met \in SUBSET (reasons \cup scanned[b]) :
        /\ reasons \cap scanned[b] \subseteq met
        /\ Answer(b, Reply("warned", Failed(b), Relevant(b, met)))
  BY DEF EndScan
<1>3. Failed(b) \in SUBSET Datasets /\ Relevant(b, met) \in SUBSET Datasets /\ Relevant(b, met) \subseteq Asked(b)
  BY DEF Failed, Relevant, Asked
<1>4. ASSUME NEW d \in Datasets, d \notin reloaded[b], got[b][d] \in Origins
      PROVE  got[b][d] = "mock" <=> d \in Relevant(b, met)
  <2>1. (got[b][d] = "mock" <=> d \in reasons) /\ (got[b][d] = "mock" <=> d \in scanned[b])
    BY <1>1, <1>4 DEF IInv, HeldInv, Holds
  <2>2. d \in Asked(b)
    BY <1>4, Vocabulary DEF Asked, IInv, GotInv
  <2>. QED
    BY <1>2, <2>1, <2>2 DEF Relevant
<1>. QED
  BY <1>1, <1>2, <1>3, <1>4, AnswerKeeps DEF Reply

LEMMA ScanRaisesIInv ==
  ASSUME IInv, NEW b \in Batches, ScanRaises(b)
  PROVE  IInv'
<1>1. stage[b] = "scanning" /\ \A d \in Datasets : step[b][d] \in {"out", "done"}
  BY DEF ScanRaises, IInv, StageInv
<1>2. Answer(b, Reply("error", {}, {}))
  BY DEF ScanRaises
<1>. QED
  BY <1>1, <1>2, AnswerKeeps DEF Reply

LEMMA DropIInv ==
  ASSUME IInv, NEW d \in Datasets, Drop(d)
  PROVE  IInv'
<1>1. /\ cache' = [cache EXCEPT ![d] = "none"]
      /\ UNCHANGED <<fallbackMock, leader, loadError, reasons, stage, queue, step, got, scanned, answer,
                     begun, reloaded>>
  BY DEF Drop, batchVars, ghostVars
<1>2. TypeOK' /\ \A e \in Datasets : cache'[e] = IF e = d THEN "none" ELSE cache[e]
  BY <1>1 DEF IInv, TypeOK
<1>3. FlightInv' /\ ReasonsMatchCache'
  BY <1>1, <1>2 DEF IInv, FlightInv, ReasonsMatchCache
<1>4. QueueInv' /\ StageInv' /\ GotInv' /\ PhaseInv' /\ HeldInv' /\ WarningsMatchFacts'
  BY <1>1 DEF IInv, QueueInv, StageInv, GotInv, PhaseInv, HeldInv, Holds, WarningsMatchFacts, Asked, At
<1>. QED
  BY <1>2, <1>3, <1>4 DEF IInv

LEMMA StutterIInv == IInv /\ UNCHANGED vars => IInv'
<1>. SUFFICES ASSUME IInv, UNCHANGED vars PROVE IInv'
  OBVIOUS
<1>1. UNCHANGED <<fallbackMock, cache, leader, loadError, reasons, stage, queue, step, got, scanned,
                  answer, begun, reloaded>>
  BY DEF vars, sharedVars, batchVars, ghostVars
<1>. QED
  BY <1>1 DEF IInv, TypeOK, QueueInv, StageInv, GotInv, FlightInv, PhaseInv, ReasonsMatchCache,
              HeldInv, Holds, WarningsMatchFacts, Asked, At

LEMMA NextIInv == IInv /\ [Next]_vars => IInv'
<1>. SUFFICES ASSUME IInv, [Next]_vars PROVE IInv'
  OBVIOUS
<1>1. ASSUME NEW b \in Batches, NEW o \in Orders, Begin(b, o) PROVE IInv'
  BY <1>1, BeginIInv
<1>2. ASSUME NEW b \in Batches, RequestStep(b) PROVE IInv'
  BY <1>2, StartWorkerIInv, NoReasonsIInv, BeginScanIInv, EndScanIInv, ScanRaisesIInv
  DEF RequestStep
<1>3. ASSUME NEW b \in Batches, NEW d \in Datasets, WorkerStep(b, d) PROVE IInv'
  BY <1>3, HitIInv, JoinIInv, LeadIInv, ShareErrorIInv, StartOverIInv, ForgetReasonIInv,
     SqlLoadsIInv, FallBackIInv, FileLoadsIInv, LoadRaisesIInv, PublishIInv, FinishIInv
  DEF WorkerStep
<1>4. ASSUME NEW b \in Batches, NEW d \in Datasets, GiveUp(b, d) PROVE IInv'
  BY <1>4, GiveUpIInv
<1>5. ASSUME NEW d \in Datasets, Drop(d) PROVE IInv'
  BY <1>5, DropIInv
<1>. QED
  BY <1>1, <1>2, <1>3, <1>4, <1>5, StutterIInv DEF Next

-----------------------------------------------------------------------------
(* Every variable keeps its type: no step of load_many, of the cache's     *)
(* outcomes or of the scan leaves the states the model names.              *)
THEOREM TypeCorrect == Spec => []TypeOK
<1>1. IInv => TypeOK
  BY DEF IInv
<1>. QED
  BY <1>1, InitIInv, NextIInv, PTL DEF Spec

(* Whatever the requests, loads, failures and evictions, while facts of a  *)
(* dataset are cached last_fallback_reasons names the dataset exactly if   *)
(* they are mock (_load_facts_uncached, facts_from_hybrid).                *)
THEOREM ReasonsAreTrue == Spec => []ReasonsMatchCache
<1>1. IInv => ReasonsMatchCache
  BY DEF IInv
<1>. QED
  BY <1>1, InitIInv, NextIInv, PTL DEF Spec

(* The warnings of every answer of _load_batch_warnings fit the facts the  *)
(* answer was computed from, for each dataset not loaded anew meanwhile.   *)
THEOREM WarningsAreRight == Spec => []WarningsMatchFacts
<1>1. IInv => WarningsMatchFacts
  BY DEF IInv
<1>. QED
  BY <1>1, InitIInv, NextIInv, PTL DEF Spec

=============================================================================
