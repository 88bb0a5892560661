---------------------------- MODULE ErtJobsProofs ----------------------------
(***************************************************************************)
(* Proofs about ErtJobs: the duplicate guard and what cancel() guarantees, *)
(* for any number of requests, jobs and EDMs.                              *)
(***************************************************************************)
EXTENDS ErtJobs, TLAPS

Resolving == {"resolve", "create"}
OnJob == {"cancel", "cancelTask", "cancelMark", "poll", "pollStatus"}

(* A handler works on an EDM or on a job that exists, as its endpoint asks. *)
TargetsExist ==
  \A r \in Requests :
    /\ pc[r] = "run" \/ (pc[r] \in Resolving /\ op[r] = "run") => target[r] \in Edms
    /\ pc[r] \in OnJob \/ (pc[r] \in Resolving /\ op[r] # "run") =>
         target[r] \in Jobs /\ task[target[r]] # "none"

AcceptedExist == \A j \in accepted : task[j] # "none"

TypeInv == TypeOK /\ TargetsExist /\ AcceptedExist

(* A cancelled record's task is over or will be at its next await, and the *)
(* cancel() that is about to mark it has seen to that.                     *)
CancelledIsOver ==
  \A j \in Jobs : status[j] = "cancelled" => task[j] = "done" \/ j \in cancelRequested

MarkerCancelled ==
  \A r \in Requests : pc[r] = "cancelMark" =>
    task[target[r]] = "done" \/ target[r] \in cancelRequested

(* A finished status belongs to a finished or finishing task.              *)
FinishedIsOver ==
  \A j \in Jobs :
    /\ status[j] \in {"completed", "failed"} => task[j] \in {"reporting", "done"}
    /\ task[j] = "reporting" => status[j] \in {"failed", "cancelled"}

(* Jobs that are queued or running, or may become so before the loop is    *)
(* next free, are one per EDM.                                             *)
Live(j) == status[j] \in Active \/ OnLoop(j)

OneLivePerEdm ==
  \A i, j \in Jobs :
    Live(i) /\ Live(j) /\ home[i] = home[j] /\ edm[i] = edm[j] => i = j

JobInv ==
  /\ CancelledIsOver /\ MarkerCancelled /\ FinishedIsOver /\ OneLivePerEdm
  /\ StrandedOnlyByCancel

-----------------------------------------------------------------------------
LEMMA AnEdmIsOne == AnEdm \in Edms
  BY Assumptions DEF AnEdm

(* TypeInv holds initially.                                                *)
LEMMA InitTypeInv == Init => TypeInv
  BY AnEdmIsOne
  DEF Init, TypeInv, TypeOK, TargetsExist, AcceptedExist, Active, Terminal,
      NoAnswer, Resolving, OnJob

(* TypeInv is preserved by every step.                                     *)
LEMMA NextTypeInv == TypeInv /\ [Next]_vars => TypeInv'
<1> SUFFICES ASSUME TypeInv, [Next]_vars PROVE TypeInv'
  OBVIOUS
<1>t. TypeOK /\ TargetsExist /\ AcceptedExist /\ AnEdm \in Edms
  BY AnEdmIsOne DEF TypeInv
<1>0. CASE UNCHANGED vars
  BY <1>0, <1>t
  DEF TypeInv, TypeOK, TargetsExist, AcceptedExist, vars, jobVars, requestVars
<1>1. ASSUME NEW j \in Jobs, BeginTask(j) PROVE TypeInv'
  BY <1>1, <1>t
  DEF TypeInv, TypeOK, TargetsExist, AcceptedExist, Active, Terminal, Resolving,
      OnJob, BeginTask, TaskMoves, requestVars
<1>2. ASSUME NEW j \in Jobs, WakeQueued(j) PROVE TypeInv'
  BY <1>2, <1>t
  DEF TypeInv, TypeOK, TargetsExist, AcceptedExist, Active, Terminal, Resolving,
      OnJob, WakeQueued, TaskMoves, AfterSleep, requestVars
<1>3. ASSUME NEW j \in Jobs, SetRunning(j) PROVE TypeInv'
  BY <1>3, <1>t
  DEF TypeInv, TypeOK, TargetsExist, AcceptedExist, Active, Terminal, Resolving,
      OnJob, SetRunning, TaskMoves, requestVars
<1>4. ASSUME NEW j \in Jobs, WakeRunning(j) PROVE TypeInv'
  BY <1>4, <1>t
  DEF TypeInv, TypeOK, TargetsExist, AcceptedExist, Active, Terminal, Resolving,
      OnJob, WakeRunning, TaskMoves, AfterSleep, requestVars
<1>5. ASSUME NEW j \in Jobs, Succeed(j) PROVE TypeInv'
  BY <1>5, <1>t
  DEF TypeInv, TypeOK, TargetsExist, AcceptedExist, Active, Terminal, Resolving,
      OnJob, Succeed, TaskMoves, FinalStatus, requestVars
<1>6. ASSUME NEW j \in Jobs, Fail(j) PROVE TypeInv'
  BY <1>6, <1>t
  DEF TypeInv, TypeOK, TargetsExist, AcceptedExist, Active, Terminal, Resolving,
      OnJob, Fail, TaskMoves, FinalStatus, AfterFailure, requestVars
<1>7. ASSUME NEW j \in Jobs, SendReport(j) PROVE TypeInv'
  BY <1>7, <1>t
  DEF TypeInv, TypeOK, TargetsExist, AcceptedExist, Active, Terminal, Resolving,
      OnJob, SendReport, TaskMoves, requestVars
<1>8. ASSUME NEW r \in Requests, SeeNoRegistry(r) PROVE TypeInv'
  BY <1>8, <1>t
  DEF TypeInv, TypeOK, TargetsExist, AcceptedExist, Active, Terminal, Resolving,
      OnJob, SeeNoRegistry, Goto, jobVars
<1>9. ASSUME NEW r \in Requests, CreateRegistry(r) PROVE TypeInv'
  BY <1>9, <1>t
  DEF TypeInv, TypeOK, TargetsExist, AcceptedExist, Active, Terminal, Resolving,
      OnJob, CreateRegistry, Goto, jobVars
<1>10. ASSUME NEW r \in Requests, GetRegistry(r) PROVE TypeInv'
  BY <1>10, <1>t
  DEF TypeInv, TypeOK, TargetsExist, AcceptedExist, Active, Terminal, Resolving,
      OnJob, GetRegistry, Goto, jobVars
<1>11. ASSUME NEW r \in Requests, Reattach(r) PROVE TypeInv'
  BY <1>11, <1>t
  DEF TypeInv, TypeOK, TargetsExist, AcceptedExist, Active, Terminal, Resolving,
      OnJob, Reattach, Leave, ActiveJobs, jobVars
<1>12. ASSUME NEW r \in Requests, CancelRefused(r) PROVE TypeInv'
  BY <1>12, <1>t
  DEF TypeInv, TypeOK, TargetsExist, AcceptedExist, Active, Terminal, Resolving,
      OnJob, CancelRefused, Leave, jobVars
<1>13. ASSUME NEW r \in Requests, CancelCheck(r) PROVE TypeInv'
  BY <1>13, <1>t
  DEF TypeInv, TypeOK, TargetsExist, AcceptedExist, Active, Terminal, Resolving,
      OnJob, CancelCheck, Goto, jobVars
<1>14. ASSUME NEW r \in Requests, CancelTask(r) PROVE TypeInv'
  BY <1>14, <1>t
  DEF TypeInv, TypeOK, TargetsExist, AcceptedExist, Active, Terminal, Resolving,
      OnJob, CancelTask, Goto, RequestCancel, jobVars
<1>15. ASSUME NEW r \in Requests, CancelMark(r) PROVE TypeInv'
  BY <1>15, <1>t
  DEF TypeInv, TypeOK, TargetsExist, AcceptedExist, Active, Terminal, Resolving,
      OnJob, CancelMark, Leave, jobVars
<1>16. ASSUME NEW r \in Requests, PollUnknown(r) PROVE TypeInv'
  BY <1>16, <1>t
  DEF TypeInv, TypeOK, TargetsExist, AcceptedExist, Active, Terminal, Resolving,
      OnJob, PollUnknown, Leave, jobVars
<1>17. ASSUME NEW r \in Requests, PollError(r) PROVE TypeInv'
  <2>1. answer' \in [Requests -> [status : Active \cup Terminal \cup {"none"}, error : BOOLEAN]]
    <3>1. CASE status[target[r]] = "failed"
      <4>1. answer' = [answer EXCEPT ![r].error = TRUE]
        BY <1>17, <3>1 DEF PollError, HasErrorBlock
      <4>. QED
        BY <4>1, <1>t DEF TypeOK
    <3>2. CASE status[target[r]] # "failed"
      <4>1. answer' = [answer EXCEPT ![r].error = FALSE]
        BY <1>17, <3>2 DEF PollError, HasErrorBlock
      <4>. QED
        BY <4>1, <1>t DEF TypeOK
    <3>. QED
      BY <3>1, <3>2
  <2>. QED
    BY <2>1, <1>17, <1>t
    DEF TypeInv, TypeOK, TargetsExist, AcceptedExist, Active, Terminal, Resolving,
        OnJob, PollError, Goto, jobVars
<1>18. ASSUME NEW r \in Requests, PollStatus(r) PROVE TypeInv'
  BY <1>18, <1>t
  DEF TypeInv, TypeOK, TargetsExist, AcceptedExist, Active, Terminal, Resolving,
      OnJob, PollStatus, Leave, jobVars
<1>19. ASSUME NEW r \in Requests, NEW j \in Jobs, Start(r, j) PROVE TypeInv'
  BY <1>19, <1>t
  DEF TypeInv, TypeOK, TargetsExist, AcceptedExist, Active, Terminal, Resolving,
      OnJob, Start, Leave, Unused
<1>20. ASSUME NEW r \in Requests, NEW e \in Edms, AskRun(r, e) PROVE TypeInv'
  BY <1>20, <1>t
  DEF TypeInv, TypeOK, TargetsExist, AcceptedExist, Active, Terminal, Resolving,
      OnJob, AskRun, Ask, jobVars, NoAnswer
<1>21. ASSUME NEW r \in Requests, NEW o \in {"cancel", "poll"}, NEW j \in Jobs, AskAbout(r, o, j) PROVE TypeInv'
  BY <1>21, <1>t
  DEF TypeInv, TypeOK, TargetsExist, AcceptedExist, Active, Terminal, Resolving,
      OnJob, AskAbout, Ask, jobVars, NoAnswer
<1>. QED
  BY <1>0, <1>1, <1>2, <1>3, <1>4, <1>5, <1>6, <1>7, <1>8, <1>9, <1>10, <1>11,
     <1>12, <1>13, <1>14, <1>15, <1>16, <1>17, <1>18, <1>19, <1>20, <1>21
  DEF Next, TaskStep, RequestStep

-----------------------------------------------------------------------------
(* JobInv holds initially and is preserved by every step.                  *)
LEMMA InitJobInv == Init => JobInv
  BY DEF Init, JobInv, CancelledIsOver, MarkerCancelled, FinishedIsOver,
         OneLivePerEdm, Live, OnLoop, Active, StrandedOnlyByCancel

LEMMA NextJobInv == TypeInv /\ JobInv /\ [Next]_vars => JobInv'
<1> SUFFICES ASSUME TypeInv, JobInv, [Next]_vars PROVE JobInv'
  OBVIOUS
<1>t. TypeOK /\ TargetsExist
  BY DEF TypeInv
<1>i. /\ CancelledIsOver /\ MarkerCancelled /\ FinishedIsOver /\ OneLivePerEdm
      /\ StrandedOnlyByCancel
  BY DEF JobInv
<1>1. ASSUME NEW j \in Jobs, BeginTask(j) PROVE JobInv'
  <2>1. CancelledIsOver'
    BY <1>1, <1>t, <1>i
    DEF CancelledIsOver, MarkerCancelled, FinishedIsOver, StrandedOnlyByCancel,
        TypeOK, Active, Terminal, BeginTask, TaskMoves, requestVars
  <2>2. MarkerCancelled'
    BY <1>1, <1>t, <1>i
    DEF MarkerCancelled, TargetsExist, Resolving, OnJob, TypeOK, Active, Terminal,
        BeginTask, TaskMoves, requestVars
  <2>3. FinishedIsOver'
    BY <1>1, <1>t, <1>i
    DEF CancelledIsOver, MarkerCancelled, FinishedIsOver, StrandedOnlyByCancel,
        TypeOK, Active, Terminal, BeginTask, TaskMoves, requestVars
  <2>4. OneLivePerEdm'
    BY <1>1, <1>t, <1>i
    DEF CancelledIsOver, FinishedIsOver, OneLivePerEdm, Live, OnLoop, TypeOK,
        Active, Terminal, BeginTask, TaskMoves, requestVars
  <2>5. StrandedOnlyByCancel'
    BY <1>1, <1>t, <1>i
    DEF CancelledIsOver, MarkerCancelled, FinishedIsOver, StrandedOnlyByCancel,
        TypeOK, Active, Terminal, BeginTask, TaskMoves, requestVars
  <2>. QED
    BY <2>1, <2>2, <2>3, <2>4, <2>5 DEF JobInv
<1>2. ASSUME NEW j \in Jobs, WakeQueued(j) PROVE JobInv'
  <2>1. CancelledIsOver'
    BY <1>2, <1>t, <1>i
    DEF CancelledIsOver, MarkerCancelled, FinishedIsOver, StrandedOnlyByCancel,
        TypeOK, Active, Terminal, WakeQueued, TaskMoves, AfterSleep, requestVars
  <2>2. MarkerCancelled'
    BY <1>2, <1>t, <1>i
    DEF MarkerCancelled, TargetsExist, Resolving, OnJob, TypeOK, Active, Terminal,
        WakeQueued, TaskMoves, AfterSleep, requestVars
  <2>3. FinishedIsOver'
    BY <1>2, <1>t, <1>i
    DEF CancelledIsOver, MarkerCancelled, FinishedIsOver, StrandedOnlyByCancel,
        TypeOK, Active, Terminal, WakeQueued, TaskMoves, AfterSleep, requestVars
  <2>4. OneLivePerEdm'
    BY <1>2, <1>t, <1>i
    DEF CancelledIsOver, FinishedIsOver, OneLivePerEdm, Live, OnLoop, TypeOK,
        Active, Terminal, WakeQueued, TaskMoves, AfterSleep, requestVars
  <2>5. StrandedOnlyByCancel'
    BY <1>2, <1>t, <1>i
    DEF CancelledIsOver, MarkerCancelled, FinishedIsOver, StrandedOnlyByCancel,
        TypeOK, Active, Terminal, WakeQueued, TaskMoves, AfterSleep, requestVars
  <2>. QED
    BY <2>1, <2>2, <2>3, <2>4, <2>5 DEF JobInv
<1>3. ASSUME NEW j \in Jobs, SetRunning(j) PROVE JobInv'
  <2>1. CancelledIsOver'
    BY <1>3, <1>t, <1>i
    DEF CancelledIsOver, MarkerCancelled, FinishedIsOver, StrandedOnlyByCancel,
        TypeOK, Active, Terminal, SetRunning, TaskMoves, requestVars
  <2>2. MarkerCancelled'
    BY <1>3, <1>t, <1>i
    DEF MarkerCancelled, TargetsExist, Resolving, OnJob, TypeOK, Active, Terminal,
        SetRunning, TaskMoves, requestVars
  <2>3. FinishedIsOver'
    BY <1>3, <1>t, <1>i
    DEF CancelledIsOver, MarkerCancelled, FinishedIsOver, StrandedOnlyByCancel,
        TypeOK, Active, Terminal, SetRunning, TaskMoves, requestVars
  <2>4. OneLivePerEdm'
    BY <1>3, <1>t, <1>i
    DEF CancelledIsOver, FinishedIsOver, OneLivePerEdm, Live, OnLoop, TypeOK,
        Active, Terminal, SetRunning, TaskMoves, requestVars
  <2>5. StrandedOnlyByCancel'
    BY <1>3, <1>t, <1>i
    DEF CancelledIsOver, MarkerCancelled, FinishedIsOver, StrandedOnlyByCancel,
        TypeOK, Active, Terminal, SetRunning, TaskMoves, requestVars
  <2>. QED
    BY <2>1, <2>2, <2>3, <2>4, <2>5 DEF JobInv
<1>4. ASSUME NEW j \in Jobs, WakeRunning(j) PROVE JobInv'
  <2>1. CancelledIsOver'
    BY <1>4, <1>t, <1>i
    DEF CancelledIsOver, MarkerCancelled, FinishedIsOver, StrandedOnlyByCancel,
        TypeOK, Active, Terminal, WakeRunning, TaskMoves, AfterSleep, requestVars
  <2>2. MarkerCancelled'
    BY <1>4, <1>t, <1>i
    DEF MarkerCancelled, TargetsExist, Resolving, OnJob, TypeOK, Active, Terminal,
        WakeRunning, TaskMoves, AfterSleep, requestVars
  <2>3. FinishedIsOver'
    BY <1>4, <1>t, <1>i
    DEF CancelledIsOver, MarkerCancelled, FinishedIsOver, StrandedOnlyByCancel,
        TypeOK, Active, Terminal, WakeRunning, TaskMoves, AfterSleep, requestVars
  <2>4. OneLivePerEdm'
    BY <1>4, <1>t, <1>i
    DEF CancelledIsOver, FinishedIsOver, OneLivePerEdm, Live, OnLoop, TypeOK,
        Active, Terminal, WakeRunning, TaskMoves, AfterSleep, requestVars
  <2>5. StrandedOnlyByCancel'
    BY <1>4, <1>t, <1>i
    DEF CancelledIsOver, MarkerCancelled, FinishedIsOver, StrandedOnlyByCancel,
        TypeOK, Active, Terminal, WakeRunning, TaskMoves, AfterSleep, requestVars
  <2>. QED
    BY <2>1, <2>2, <2>3, <2>4, <2>5 DEF JobInv
<1>5. ASSUME NEW j \in Jobs, Succeed(j) PROVE JobInv'
  <2>1. CancelledIsOver'
    BY <1>5, <1>t, <1>i
    DEF CancelledIsOver, MarkerCancelled, FinishedIsOver, StrandedOnlyByCancel,
        TypeOK, Active, Terminal, Succeed, TaskMoves, FinalStatus, requestVars
  <2>2. MarkerCancelled'
    BY <1>5, <1>t, <1>i
    DEF MarkerCancelled, TargetsExist, Resolving, OnJob, TypeOK, Active, Terminal,
        Succeed, TaskMoves, FinalStatus, requestVars
  <2>3. FinishedIsOver'
    BY <1>5, <1>t, <1>i
    DEF CancelledIsOver, MarkerCancelled, FinishedIsOver, StrandedOnlyByCancel,
        TypeOK, Active, Terminal, Succeed, TaskMoves, FinalStatus, requestVars
  <2>4. OneLivePerEdm'
    BY <1>5, <1>t, <1>i
    DEF CancelledIsOver, FinishedIsOver, OneLivePerEdm, Live, OnLoop, TypeOK,
        Active, Terminal, Succeed, TaskMoves, FinalStatus, requestVars
  <2>5. StrandedOnlyByCancel'
    BY <1>5, <1>t, <1>i
    DEF CancelledIsOver, MarkerCancelled, FinishedIsOver, StrandedOnlyByCancel,
        TypeOK, Active, Terminal, Succeed, TaskMoves, FinalStatus, requestVars
  <2>. QED
    BY <2>1, <2>2, <2>3, <2>4, <2>5 DEF JobInv
<1>6. ASSUME NEW j \in Jobs, Fail(j) PROVE JobInv'
  <2>1. CancelledIsOver'
    BY <1>6, <1>t, <1>i
    DEF CancelledIsOver, MarkerCancelled, FinishedIsOver, StrandedOnlyByCancel,
        TypeOK, Active, Terminal, Fail, TaskMoves, FinalStatus, AfterFailure,
        requestVars
  <2>2. MarkerCancelled'
    BY <1>6, <1>t, <1>i
    DEF MarkerCancelled, TargetsExist, Resolving, OnJob, TypeOK, Active, Terminal,
        Fail, TaskMoves, FinalStatus, AfterFailure, requestVars
  <2>3. FinishedIsOver'
    BY <1>6, <1>t, <1>i
    DEF CancelledIsOver, MarkerCancelled, FinishedIsOver, StrandedOnlyByCancel,
        TypeOK, Active, Terminal, Fail, TaskMoves, FinalStatus, AfterFailure,
        requestVars
  <2>4. OneLivePerEdm'
    BY <1>6, <1>t, <1>i
    DEF CancelledIsOver, FinishedIsOver, OneLivePerEdm, Live, OnLoop, TypeOK,
        Active, Terminal, Fail, TaskMoves, FinalStatus, AfterFailure, requestVars
  <2>5. StrandedOnlyByCancel'
    BY <1>6, <1>t, <1>i
    DEF CancelledIsOver, MarkerCancelled, FinishedIsOver, StrandedOnlyByCancel,
        TypeOK, Active, Terminal, Fail, TaskMoves, FinalStatus, AfterFailure,
        requestVars
  <2>. QED
    BY <2>1, <2>2, <2>3, <2>4, <2>5 DEF JobInv
<1>7. ASSUME NEW j \in Jobs, SendReport(j) PROVE JobInv'
  <2>1. CancelledIsOver'
    BY <1>7, <1>t, <1>i
    DEF CancelledIsOver, MarkerCancelled, FinishedIsOver, StrandedOnlyByCancel,
        TypeOK, Active, Terminal, SendReport, TaskMoves, requestVars
  <2>2. MarkerCancelled'
    BY <1>7, <1>t, <1>i
    DEF MarkerCancelled, TargetsExist, Resolving, OnJob, TypeOK, Active, Terminal,
        SendReport, TaskMoves, requestVars
  <2>3. FinishedIsOver'
    BY <1>7, <1>t, <1>i
    DEF CancelledIsOver, MarkerCancelled, FinishedIsOver, StrandedOnlyByCancel,
        TypeOK, Active, Terminal, SendReport, TaskMoves, requestVars
  <2>4. OneLivePerEdm'
    BY <1>7, <1>t, <1>i
    DEF CancelledIsOver, FinishedIsOver, OneLivePerEdm, Live, OnLoop, TypeOK,
        Active, Terminal, SendReport, TaskMoves, requestVars
  <2>5. StrandedOnlyByCancel'
    BY <1>7, <1>t, <1>i
    DEF CancelledIsOver, MarkerCancelled, FinishedIsOver, StrandedOnlyByCancel,
        TypeOK, Active, Terminal, SendReport, TaskMoves, requestVars
  <2>. QED
    BY <2>1, <2>2, <2>3, <2>4, <2>5 DEF JobInv
<1>8. ASSUME NEW r \in Requests, CancelTask(r) PROVE JobInv'
  <2>1. CancelledIsOver'
    BY <1>8, <1>t, <1>i
    DEF CancelledIsOver, MarkerCancelled, FinishedIsOver, StrandedOnlyByCancel,
        TypeOK, Active, Terminal, CancelTask, Goto, RequestCancel, jobVars,
        TargetsExist, OnJob
  <2>2. MarkerCancelled'
    BY <1>8, <1>t, <1>i
    DEF MarkerCancelled, TargetsExist, Resolving, OnJob, TypeOK, Active, Terminal,
        CancelTask, Goto, RequestCancel, jobVars, TargetsExist, OnJob
  <2>3. FinishedIsOver'
    BY <1>8, <1>t, <1>i
    DEF CancelledIsOver, MarkerCancelled, FinishedIsOver, StrandedOnlyByCancel,
        TypeOK, Active, Terminal, CancelTask, Goto, RequestCancel, jobVars,
        TargetsExist, OnJob
  <2>4. OneLivePerEdm'
    BY <1>8, <1>t, <1>i
    DEF CancelledIsOver, FinishedIsOver, OneLivePerEdm, Live, OnLoop, TypeOK,
        Active, Terminal, CancelTask, Goto, RequestCancel, jobVars, TargetsExist,
        OnJob
  <2>5. StrandedOnlyByCancel'
    BY <1>8, <1>t, <1>i
    DEF CancelledIsOver, MarkerCancelled, FinishedIsOver, StrandedOnlyByCancel,
        TypeOK, Active, Terminal, CancelTask, Goto, RequestCancel, jobVars,
        TargetsExist, OnJob
  <2>. QED
    BY <2>1, <2>2, <2>3, <2>4, <2>5 DEF JobInv
<1>9. ASSUME NEW r \in Requests, CancelMark(r) PROVE JobInv'
  <2>1. CancelledIsOver'
    BY <1>9, <1>t, <1>i
    DEF CancelledIsOver, MarkerCancelled, FinishedIsOver, StrandedOnlyByCancel,
        TypeOK, Active, Terminal, CancelMark, Leave, jobVars, TargetsExist, OnJob
  <2>2. MarkerCancelled'
    BY <1>9, <1>t, <1>i
    DEF MarkerCancelled, TargetsExist, Resolving, OnJob, TypeOK, Active, Terminal,
        CancelMark, Leave, jobVars, TargetsExist, OnJob
  <2>3. FinishedIsOver'
    BY <1>9, <1>t, <1>i
    DEF CancelledIsOver, MarkerCancelled, FinishedIsOver, StrandedOnlyByCancel,
        TypeOK, Active, Terminal, CancelMark, Leave, jobVars, TargetsExist, OnJob
  <2>4. OneLivePerEdm'
    BY <1>9, <1>t, <1>i
    DEF CancelledIsOver, FinishedIsOver, OneLivePerEdm, Live, OnLoop, TypeOK,
        Active, Terminal, CancelMark, Leave, jobVars, TargetsExist, OnJob
  <2>5. StrandedOnlyByCancel'
    BY <1>9, <1>t, <1>i
    DEF CancelledIsOver, MarkerCancelled, FinishedIsOver, StrandedOnlyByCancel,
        TypeOK, Active, Terminal, CancelMark, Leave, jobVars, TargetsExist, OnJob
  <2>. QED
    BY <2>1, <2>2, <2>3, <2>4, <2>5 DEF JobInv
<1>10. ASSUME NEW r \in Requests, NEW j \in Jobs, Start(r, j) PROVE JobInv'
  <2>1. CancelledIsOver'
    BY <1>10, <1>t, <1>i
    DEF CancelledIsOver, MarkerCancelled, FinishedIsOver, StrandedOnlyByCancel,
        TypeOK, Active, Terminal, Start, Leave, Unused, ActiveJobs, LoopFree
  <2>2. MarkerCancelled'
    BY <1>10, <1>t, <1>i
    DEF MarkerCancelled, TargetsExist, Resolving, OnJob, TypeOK, Active, Terminal,
        Start, Leave, Unused, ActiveJobs, LoopFree
  <2>3. FinishedIsOver'
    BY <1>10, <1>t, <1>i
    DEF CancelledIsOver, MarkerCancelled, FinishedIsOver, StrandedOnlyByCancel,
        TypeOK, Active, Terminal, Start, Leave, Unused, ActiveJobs, LoopFree
  <2>4. OneLivePerEdm'
    BY <1>10, <1>t, <1>i
    DEF CancelledIsOver, FinishedIsOver, OneLivePerEdm, Live, OnLoop, TypeOK,
        Active, Terminal, Start, Leave, Unused, ActiveJobs, LoopFree
  <2>5. StrandedOnlyByCancel'
    BY <1>10, <1>t, <1>i
    DEF CancelledIsOver, MarkerCancelled, FinishedIsOver, StrandedOnlyByCancel,
        TypeOK, Active, Terminal, Start, Leave, Unused, ActiveJobs, LoopFree
  <2>. QED
    BY <2>1, <2>2, <2>3, <2>4, <2>5 DEF JobInv
<1>11. ASSUME UNCHANGED <<home, edm, status, task, cancelRequested>>,
             \A r \in Requests : pc'[r] = "cancelMark" => pc[r] = "cancelMark" /\ target'[r] = target[r]
      PROVE JobInv'
  BY <1>11, <1>i
  DEF JobInv, CancelledIsOver, MarkerCancelled, FinishedIsOver, OneLivePerEdm, Live,
      OnLoop, StrandedOnlyByCancel
<1>12. ASSUME NEW r \in Requests,
             \/ SeeNoRegistry(r) \/ CreateRegistry(r) \/ GetRegistry(r) \/ Reattach(r)
             \/ CancelRefused(r) \/ CancelCheck(r)
             \/ PollUnknown(r) \/ PollError(r) \/ PollStatus(r)
      PROVE JobInv'
  BY <1>12, <1>11, <1>t
  DEF TypeOK, SeeNoRegistry, CreateRegistry, GetRegistry, Reattach, CancelRefused,
      CancelCheck, PollUnknown, PollError, PollStatus, Goto, Leave, jobVars
<1>13. ASSUME NEW r \in Requests, NEW o, NEW x, Ask(r, o, x) PROVE JobInv'
  BY <1>13, <1>11, <1>t DEF TypeOK, Ask, jobVars
<1>14. CASE UNCHANGED vars
  BY <1>14, <1>11 DEF vars, jobVars, requestVars
<1>. QED
  BY <1>1, <1>2, <1>3, <1>4, <1>5, <1>6, <1>7, <1>8, <1>9, <1>10, <1>12, <1>13,
     <1>14
  DEF Next, TaskStep, RequestStep, AskRun, AskAbout

-----------------------------------------------------------------------------
(* For every number of requests, jobs and EDMs the state is well typed.    *)
THEOREM TypeCorrect == Spec => []TypeOK
<1>1. TypeInv => TypeOK
  BY DEF TypeInv
<1>. QED
  BY <1>1, InitTypeInv, NextTypeInv, PTL DEF Spec

LEMMA Invariance == Spec => [](TypeInv /\ JobInv)
  BY InitTypeInv, NextTypeInv, InitJobInv, NextJobInv, PTL DEF Spec

(* submit() never starts a second job for an EDM that a queued or running  *)
(* job of the same registry already has.                                   *)
THEOREM OneJobPerEdm == Spec => []OneActivePerEdm
<1>1. JobInv => OneActivePerEdm
  BY DEF JobInv, OneLivePerEdm, Live, OneActivePerEdm
<1>. QED
  BY <1>1, Invariance, PTL

(* A job that its ended task left queued or running had task.cancel()      *)
(* called on it while the task lived: no way in which the work itself ends *)
(* strands a job.                                                          *)
THEOREM OnlyCancelStrands == Spec => []StrandedOnlyByCancel
<1>1. JobInv => StrandedOnlyByCancel
  BY DEF JobInv
<1>. QED
  BY <1>1, Invariance, PTL

(* The coroutine of a job cancelled while it sleeps is never resumed.      *)
THEOREM CancellationSticks == Spec => CancelSticks
<1> DEFINE Sticks == \A j \in Jobs : status[j] = "cancelled" /\ ~OnLoop(j)
                       => status'[j] = "cancelled" /\ ~OnLoop(j)'
<1>1. TypeInv /\ JobInv /\ [Next]_vars => Sticks
  <2> SUFFICES ASSUME TypeInv, JobInv, [Next]_vars,
                      NEW k \in Jobs, status[k] = "cancelled", ~OnLoop(k)
               PROVE status'[k] = "cancelled" /\ ~OnLoop(k)'
    OBVIOUS
  <2>i. TypeOK /\ TargetsExist /\ (task[k] = "done" \/ k \in cancelRequested)
    BY DEF TypeInv, JobInv, CancelledIsOver
  <2>1. ASSUME NEW j \in Jobs, TaskStep(j) PROVE status'[k] = "cancelled" /\ ~OnLoop(k)'
    BY <2>1, <2>i
    DEF TypeOK, OnLoop, TaskStep, TaskMoves, BeginTask, WakeQueued, SetRunning,
        WakeRunning, Succeed, Fail, SendReport, AfterSleep
  <2>2. ASSUME NEW r \in Requests, CancelMark(r) PROVE status'[k] = "cancelled" /\ ~OnLoop(k)'
    BY <2>2, <2>i DEF TypeOK, OnLoop, CancelMark
  <2>3. ASSUME NEW r \in Requests, NEW j \in Jobs, Start(r, j)
        PROVE status'[k] = "cancelled" /\ ~OnLoop(k)'
    BY <2>3, <2>i DEF TypeOK, OnLoop, Start, Unused, Active, Terminal
  <2>4. CASE UNCHANGED <<status, task>>
    BY <2>4 DEF OnLoop
  <2>. QED
    BY <2>1, <2>2, <2>3, <2>4
    DEF Next, RequestStep, AskRun, AskAbout, Ask, SeeNoRegistry, CreateRegistry,
        GetRegistry, Reattach, CancelRefused, CancelCheck, CancelTask, PollUnknown,
        PollError, PollStatus, vars, jobVars
<1>. QED
  BY <1>1, Invariance, PTL DEF Spec, CancelSticks
=============================================================================
