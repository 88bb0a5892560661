------------------------------- MODULE ErtJobs -------------------------------
(***************************************************************************)
(* backend/app/services/jobs.py and api/ert_jobs.py: the in-process ERT    *)
(* job store.  Lifecycle coroutines and submit() run on the event loop,    *)
(* one at a time and uninterrupted between awaits; get_registry(),         *)
(* cancel() and the status endpoint run on worker threads, so their steps  *)
(* fall between any two statements of the loop.                            *)
(*                                                                         *)
(* Job records are abstracted to their status, the state of their asyncio  *)
(* task, and whether the failure report was attempted.                     *)
(***************************************************************************)
EXTENDS Integers, FiniteSets

CONSTANTS Requests,    (* HTTP requests that may be in progress at once    *)
          Jobs,        (* job ids: a bound on the jobs ever created        *)
          Edms,        (* (server, EDM database) pairs                     *)
          AlwaysFails, (* the EDMs whose run fails                         *)
          None         (* "no registry"                                    *)

ASSUME Assumptions == Edms # {} /\ AlwaysFails \subseteq Edms /\ None \notin Requests

VARIABLES
  registry,         (* the singleton, named by the request that built it   *)
  home,             (* home[j]: the registry that holds job j, or None     *)
  edm,              (* edm[j]: what job j runs on                          *)
  status,           (* status[j]: JobRecord.status                         *)
  task,             (* task[j]: where j's coroutine is                     *)
  cancelRequested,  (* jobs whose task.cancel() was called while it lived  *)
  reported,         (* jobs whose failure report was attempted             *)
  accepted,         (* jobs whose id was returned to a client              *)
  pc,               (* pc[r]: where request r's handler is                 *)
  op,               (* op[r]: the endpoint r calls                         *)
  target,           (* target[r]: its EDM or its job                       *)
  mine,             (* mine[r]: the registry its dependency resolved to    *)
  answer            (* answer[r]: the body of r's last status response     *)

jobVars     == <<home, edm, status, task, cancelRequested, reported, accepted>>
requestVars == <<pc, op, target, mine, answer>>
vars == <<registry, jobVars, requestVars>>

-----------------------------------------------------------------------------
Active   == {"queued", "running"}
Terminal == {"completed", "failed", "cancelled"}

(* The task is being run by the loop, between two awaits.                  *)
OnLoop(j) == task[j] \in {"wokenQueued", "wokenRunning", "reporting"}
LoopFree == \A j \in Jobs : ~OnLoop(j)

Unused == {j \in Jobs : task[j] = "none"}

(* Mutant of ActiveJobs: the guard only looks at running jobs.             *)
RunningJobs(h, e) == {j \in Jobs : home[j] = h /\ edm[j] = e /\ status[j] = "running"}

(* _find_active                                                            *)
ActiveJobs(h, e) == {j \in Jobs : home[j] = h /\ edm[j] = e /\ status[j] \in Active}

(* Mutant of AfterSleep: the coroutine swallows the cancellation.          *)
AfterSleepUncancelled(j, asleep, woken) == IF j \in cancelRequested THEN asleep ELSE woken

(* What an awaited sleep resumes into: a requested cancellation is raised  *)
(* at the await, caught at the end of _run_lifecycle, and ends the task.   *)
AfterSleep(j, asleep, woken) == IF j \in cancelRequested THEN "done" ELSE woken

(* Mutant of RequestCancel: cancel() only marks the record.                *)
RequestNothing(j) == UNCHANGED cancelRequested

(* task.cancel() is remembered until the task's next await; it does        *)
(* nothing to a task that is done.                                         *)
RequestCancel(j) ==
  cancelRequested' = IF task[j] = "done" THEN cancelRequested
                                         ELSE cancelRequested \cup {j}

(* Mutant of AfterFailure: _fail returns before the report.                *)
AfterFailureSilent == "done"
AfterFailure == "reporting"

(* Mutant of FinalStatus: a finished run leaves its record running.        *)
FinalStatusForgotten(outcome) == "running"
FinalStatus(outcome) == outcome

HasErrorBlock(s) == s = "failed"

AnEdm == CHOOSE e \in Edms : TRUE

NoAnswer == [status |-> "none", error |-> FALSE]

-----------------------------------------------------------------------------
Init ==
  /\ registry = None
  /\ home = [j \in Jobs |-> None]
  /\ edm = [j \in Jobs |-> AnEdm]
  /\ status = [j \in Jobs |-> "none"]
  /\ task = [j \in Jobs |-> "none"]
  /\ cancelRequested = {}
  /\ reported = {}
  /\ accepted = {}
  /\ pc = [r \in Requests |-> "idle"]
  /\ op = [r \in Requests |-> "run"]
  /\ target = [r \in Requests |-> AnEdm]
  /\ mine = [r \in Requests |-> None]
  /\ answer = [r \in Requests |-> NoAnswer]

(* A request arrives.  Clients only know job ids they were given; a run is *)
(* asked for only while the bound on job ids leaves room for it.           *)
Ask(r, o, x) ==
  /\ pc[r] = "idle"
  /\ op' = [op EXCEPT ![r] = o]
  /\ target' = [target EXCEPT ![r] = x]
  /\ pc' = [pc EXCEPT ![r] = "resolve"]
  /\ answer' = [answer EXCEPT ![r] = NoAnswer]
  /\ UNCHANGED <<registry, jobVars, mine>>

AskRun(r, e) ==
  /\ Cardinality({q \in Requests : pc[q] # "idle" /\ op[q] = "run"}) < Cardinality(Unused)
  /\ Ask(r, "run", e)

AskAbout(r, o, j) == j \in accepted /\ Ask(r, o, j)

Goto(r, label) ==
  /\ pc' = [pc EXCEPT ![r] = label]
  /\ UNCHANGED <<op, target>>

(* The handler returns, and its local variables are gone.                  *)
Leave(r) ==
  /\ pc' = [pc EXCEPT ![r] = "idle"]
  /\ op' = [op EXCEPT ![r] = "run"]
  /\ target' = [target EXCEPT ![r] = AnEdm]
  /\ mine' = [mine EXCEPT ![r] = None]

(* get_registry(): "if _registry is None: _registry = JobRegistry()", then *)
(* the global is read again and returned.                                  *)
SeeNoRegistry(r) ==
  /\ pc[r] = "resolve"
  /\ registry = None
  /\ Goto(r, "create")
  /\ UNCHANGED <<registry, jobVars, mine, answer>>

CreateRegistry(r) ==
  /\ pc[r] = "create"
  /\ registry' = r
  /\ Goto(r, "resolve")
  /\ UNCHANGED <<jobVars, mine, answer>>

GetRegistry(r) ==
  /\ pc[r] = "resolve"
  /\ registry # None
  /\ mine' = [mine EXCEPT ![r] = registry]
  /\ Goto(r, op[r])
  /\ UNCHANGED <<registry, jobVars, answer>>

-----------------------------------------------------------------------------
(* submit(), on the loop.                                                  *)

Reattach(r) ==
  /\ pc[r] = "run" /\ LoopFree
  /\ \E j \in ActiveJobs(mine[r], target[r]) : accepted' = accepted \cup {j}
  /\ Leave(r)
  /\ UNCHANGED <<registry, home, edm, status, task, cancelRequested, reported>>
  /\ UNCHANGED answer

Start(r, j) ==
  /\ pc[r] = "run" /\ LoopFree
  /\ ActiveJobs(mine[r], target[r]) = {}
  /\ j \in Unused
  /\ home' = [home EXCEPT ![j] = mine[r]]
  /\ edm' = [edm EXCEPT ![j] = target[r]]
  /\ status' = [status EXCEPT ![j] = "queued"]
  /\ task' = [task EXCEPT ![j] = "scheduled"]
  /\ accepted' = accepted \cup {j}
  /\ Leave(r)
  /\ UNCHANGED <<registry, cancelRequested, reported, answer>>

(* _run_lifecycle: one action per stretch between awaits, split where a    *)
(* worker thread can observe or change the record in between.              *)

TaskMoves(j, label) ==
  /\ task' = [task EXCEPT ![j] = label]
  /\ UNCHANGED <<registry, home, edm, cancelRequested, accepted, requestVars>>

BeginTask(j) ==
  /\ task[j] = "scheduled" /\ LoopFree
  /\ TaskMoves(j, IF j \in cancelRequested THEN "done" ELSE "asleepQueued")
  /\ UNCHANGED <<status, reported>>

WakeQueued(j) ==
  /\ task[j] = "asleepQueued" /\ LoopFree
  /\ TaskMoves(j, AfterSleep(j, "asleepQueued", "wokenQueued"))
  /\ UNCHANGED <<status, reported>>

SetRunning(j) ==
  /\ task[j] = "wokenQueued"
  /\ status' = [status EXCEPT ![j] = "running"]
  /\ TaskMoves(j, "asleepRunning")
  /\ UNCHANGED reported

WakeRunning(j) ==
  /\ task[j] = "asleepRunning" /\ LoopFree
  /\ TaskMoves(j, AfterSleep(j, "asleepRunning", "wokenRunning"))
  /\ UNCHANGED <<status, reported>>

Succeed(j) ==
  /\ task[j] = "wokenRunning"
  /\ edm[j] \notin AlwaysFails
  /\ status' = [status EXCEPT ![j] = FinalStatus("completed")]
  /\ TaskMoves(j, "done")
  /\ UNCHANGED reported

Fail(j) ==
  /\ task[j] = "wokenRunning"
  /\ edm[j] \in AlwaysFails
  /\ status' = [status EXCEPT ![j] = FinalStatus("failed")]
  /\ TaskMoves(j, AfterFailure)
  /\ UNCHANGED reported

(* The report is best effort: whether it was sent does not matter here.    *)
SendReport(j) ==
  /\ task[j] = "reporting"
  /\ reported' = reported \cup {j}
  /\ TaskMoves(j, "done")
  /\ UNCHANGED status

-----------------------------------------------------------------------------
(* cancel(), on a worker thread: three steps with the loop in between.     *)

Known(r) == home[target[r]] = mine[r]

CancelRefused(r) ==
  /\ pc[r] = "cancel"
  /\ ~Known(r) \/ status[target[r]] \in Terminal
  /\ Leave(r)
  /\ UNCHANGED <<registry, jobVars, answer>>

CancelCheck(r) ==
  /\ pc[r] = "cancel"
  /\ Known(r) /\ status[target[r]] \notin Terminal
  /\ Goto(r, "cancelTask")
  /\ UNCHANGED <<registry, jobVars, mine, answer>>

CancelTask(r) ==
  /\ pc[r] = "cancelTask"
  /\ RequestCancel(target[r])
  /\ Goto(r, "cancelMark")
  /\ UNCHANGED <<registry, home, edm, status, task, reported, accepted>>
  /\ UNCHANGED <<mine, answer>>

CancelMark(r) ==
  /\ pc[r] = "cancelMark"
  /\ status' = [status EXCEPT ![target[r]] = "cancelled"]
  /\ Leave(r)
  /\ UNCHANGED <<registry, home, edm, task, cancelRequested, reported, accepted>>
  /\ UNCHANGED answer

(* The status endpoint, on a worker thread: to_response reads the status   *)
(* once for the error block and once for the status field.                 *)

PollUnknown(r) ==
  /\ pc[r] = "poll"
  /\ ~Known(r)
  /\ Leave(r)
  /\ UNCHANGED <<registry, jobVars, answer>>

PollError(r) ==
  /\ pc[r] = "poll"
  /\ Known(r)
  /\ answer' = [answer EXCEPT ![r].error = HasErrorBlock(status[target[r]])]
  /\ Goto(r, "pollStatus")
  /\ UNCHANGED <<registry, jobVars, mine>>

PollStatus(r) ==
  /\ pc[r] = "pollStatus"
  /\ answer' = [answer EXCEPT ![r].status = status[target[r]]]
  /\ Leave(r)
  /\ UNCHANGED <<registry, jobVars>>

-----------------------------------------------------------------------------
TaskStep(j) ==
  \/ BeginTask(j) \/ WakeQueued(j) \/ SetRunning(j) \/ WakeRunning(j)
  \/ Succeed(j) \/ Fail(j) \/ SendReport(j)

RequestStep(r) ==
  \/ SeeNoRegistry(r) \/ CreateRegistry(r) \/ GetRegistry(r)
  \/ Reattach(r) \/ \E j \in Jobs : Start(r, j)
  \/ CancelRefused(r) \/ CancelCheck(r) \/ CancelTask(r) \/ CancelMark(r)
  \/ PollUnknown(r) \/ PollError(r) \/ PollStatus(r)

Next ==
  \/ \E j \in Jobs : TaskStep(j)
  \/ \E r \in Requests :
       \/ RequestStep(r)
       \/ \E e \in Edms : AskRun(r, e)
       \/ \E o \in {"cancel", "poll"}, j \in Jobs : AskAbout(r, o, j)

Spec == Init /\ [][Next]_vars

(* The loop runs every task that is ready, and handlers that have begun    *)
(* are scheduled.  Nothing is assumed of new requests.                     *)
Fairness ==
  /\ \A j \in Jobs : WF_vars(TaskStep(j))
  /\ \A r \in Requests : WF_vars(RequestStep(r))

FairSpec == Spec /\ Fairness

-----------------------------------------------------------------------------
TypeOK ==
  /\ registry \in Requests \cup {None}
  /\ home \in [Jobs -> Requests \cup {None}]
  /\ edm \in [Jobs -> Edms]
  /\ status \in [Jobs -> Active \cup Terminal \cup {"none"}]
  /\ task \in [Jobs -> {"none", "scheduled", "asleepQueued", "wokenQueued",
                        "asleepRunning", "wokenRunning", "reporting", "done"}]
  /\ cancelRequested \subseteq Jobs /\ reported \subseteq Jobs /\ accepted \subseteq Jobs
  /\ pc \in [Requests -> {"idle", "resolve", "create", "run", "cancel",
                          "cancelTask", "cancelMark", "poll", "pollStatus"}]
  /\ op \in [Requests -> {"run", "cancel", "poll"}]
  /\ target \in [Requests -> Edms \cup Jobs]
  /\ mine \in [Requests -> Requests \cup {None}]
  /\ answer \in [Requests -> [status : Active \cup Terminal \cup {"none"}, error : BOOLEAN]]
  /\ \A j \in Jobs : (status[j] = "none") <=> (task[j] = "none")

(* The duplicate guard of submit(): a registry never holds two queued or   *)
(* running jobs for one EDM, whatever is cancelled and resubmitted.        *)
OneActivePerEdm ==
  \A i, j \in Jobs :
    status[i] \in Active /\ status[j] \in Active /\ home[i] = home[j] /\ edm[i] = edm[j]
      => i = j

(* A record left queued or running by a finished task was cancelled: only  *)
(* the race with cancel() strands a job.                                   *)
StrandedOnlyByCancel ==
  \A j \in Jobs : task[j] = "done" /\ status[j] \in Active => j \in cancelRequested

(* cancel() sticks unless it hits a coroutine the loop is executing: the   *)
(* coroutine of a job cancelled while it sleeps is never resumed.          *)
CancelSticks ==
  [][\A j \in Jobs : status[j] = "cancelled" /\ ~OnLoop(j)
       => status'[j] = "cancelled" /\ ~OnLoop(j)']_vars

(* Every submitted job's coroutine ends, cancelled or not.                 *)
TasksEnd == \A j \in Jobs : task[j] = "scheduled" ~> task[j] = "done"

(* A failure report is attempted for every job that failed, even when a    *)
(* cancel() arrives while it fails.                                        *)
FailuresAreReported == \A j \in Jobs : status[j] = "failed" ~> j \in reported
==============================================================================
