-------------------------- MODULE RunServiceProofs --------------------------
(***************************************************************************)
(* Theorems about RunService, for every set of runs and every bound.       *)
(***************************************************************************)
EXTENDS RunService, FiniteSetTheorems, TLAPS

USE DEF Drivers

-----------------------------------------------------------------------------
(* Type correctness.                                                       *)

\* The empty ledger of a fresh server is typed.
LEMMA TypeInit == Init => TypeOK
BY ConstantsAssumption DEF Init, TypeOK, Statuses, TaskPoints, Feedback, ThreadPoints, Phases

TypeTasks ==
  /\ pc \in [Drivers -> [Runs -> TaskPoints]]
  /\ cancelReq \in [Drivers -> [Runs -> BOOLEAN]]
  /\ resume \in [Drivers -> [Runs -> Feedback]]
  /\ active \in SUBSET Runs

\* _start_run_task, a step inside a task and its end keep the task table typed.
LEMMA TypeStartRunTask ==
  ASSUME TypeTasks, NEW r \in Runs, NEW f \in Feedback, StartRunTask(r, f)
  PROVE  TypeTasks'
<1>1. CASE UNCHANGED tasks
  BY <1>1 DEF TypeTasks, tasks
<1>2. CASE /\ pc' = [pc EXCEPT !["api"][r] = "created"]
           /\ cancelReq' = [cancelReq EXCEPT !["api"][r] = FALSE]
           /\ resume' = [resume EXCEPT !["api"][r] = f]
           /\ active' = active \cup {r}
  BY <1>2 DEF TypeTasks, TaskPoints
<1> QED
  BY <1>1, <1>2 DEF StartRunTask

\* A task that moves to another point of execute_run or dispatch_schedule stays typed.
LEMMA TypeGoTo ==
  ASSUME TypeTasks, NEW k \in Drivers, NEW r \in Runs, NEW p \in TaskPoints, GoTo(k, r, p)
  PROVE  TypeTasks'
BY DEF TypeTasks, GoTo

\* A task that ends leaves a typed task table.
LEMMA TypeEndTask ==
  ASSUME TypeTasks, NEW k \in Drivers, NEW r \in Runs, EndTask(k, r)
  PROVE  TypeTasks'
BY DEF TypeTasks, EndTask, TaskPoints

TypeLedger ==
  /\ status \in [Runs -> Statuses]
  /\ events \in [Runs -> Seq(EventKinds)]
  /\ approvals \in [Runs -> Seq(Decisions)]
  /\ notices \in [Runs -> Seq(Notices)]

TypeRest ==
  /\ grants \in SUBSET Runs
  /\ lastStatus \in [Runs -> Statuses]
  /\ thread \in [Runs -> ThreadPoints]
  /\ phase \in Phases
  /\ restarts \in 0..MaxRestarts

\* The type invariant is the task table's part and the rest's.
LEMMA TypeParts ==
  /\ TypeOK => TypeLedger /\ TypeTasks /\ TypeRest
  /\ TypeLedger' /\ TypeTasks' /\ TypeRest' => TypeOK'
BY DEF TypeOK, TypeLedger, TypeTasks, TypeRest

\* A new process starts with an empty task table.
LEMMA TypeLoseMemory ==
  ASSUME TypeRest, LoseMemory
  PROVE  TypeTasks' /\ TypeRest'
BY ConstantsAssumption DEF TypeRest, TypeTasks, LoseMemory, TaskPoints, Feedback, ThreadPoints,
                            Phases

\* Starting to shut down, closing the sinks, a forced exit and a restart keep the types.
LEMMA TypeServer ==
  ASSUME TypeOK, Shutdown \/ CloseSinks \/ ForceExit \/ Restart \/ Crash
  PROVE  TypeOK'
<1> USE DEF ledger, tasks, Phases
<1>1. CASE Shutdown
  BY <1>1 DEF TypeOK, Shutdown
<1>2. CASE CloseSinks
  BY <1>2 DEF TypeOK, CloseSinks
<1>3. CASE ForceExit
  BY <1>3 DEF TypeOK, ForceExit
<1>4. CASE Restart \/ Crash
  BY <1>4, TypeParts, TypeLoseMemory DEF Restart, Crash, TypeLedger
<1> QED
  BY <1>1, <1>2, <1>3, <1>4

\* A crash inside a ledger transaction or after it keeps the types.
LEMMA TypeCrashes ==
  ASSUME TypeOK, NEW r \in Runs,
         \/ CrashWhileDeciding(r)
         \/ \E k \in Drivers, e \in EventKinds, s \in Settled : CrashWhileFinishing(k, r, e, s)
  PROVE  TypeOK'
<1>0. TypeLedger /\ TypeRest
  BY TypeParts
<1>1. CASE CrashWhileDeciding(r)
  <2>1. TypeLedger'
    <3>1. \E d \in Decisions : RecordDecision(r, d)
      BY <1>1 DEF CrashWhileDeciding, Decisions
    <3>2. \E s \in Statuses : SetStatus(r, s)
      BY <1>1 DEF CrashWhileDeciding, Statuses, TerminalStatuses
    <3>3. UNCHANGED <<events, notices>>
      BY <1>1 DEF CrashWhileDeciding
    <3> QED
      BY <1>0, <3>1, <3>2, <3>3 DEF RecordDecision, SetStatus, TypeLedger
  <2>2. LoseMemory
    BY <1>1 DEF CrashWhileDeciding
  <2> QED
    BY <1>0, <2>1, <2>2, TypeLoseMemory, TypeParts
<1>2. ASSUME NEW k \in Drivers, NEW e \in EventKinds, NEW s \in Settled,
             CrashWhileFinishing(k, r, e, s)
      PROVE  TypeOK'
  <2>1. TypeLedger'
    <3>1. AppendEvent(r, e) /\ UNCHANGED <<approvals, notices>>
      BY <1>2 DEF CrashWhileFinishing
    <3>2. UNCHANGED status \/ SetStatus(r, s)
      BY <1>2 DEF CrashWhileFinishing
    <3>3. s \in Statuses
      BY DEF Statuses, Settled
    <3>4. status' \in [Runs -> Statuses]
      BY <1>0, <3>2, <3>3 DEF SetStatus, TypeLedger
    <3>5. events' \in [Runs -> Seq(EventKinds)]
      <4>1. Append(events[r], e) \in Seq(EventKinds)
        BY <1>0 DEF TypeLedger
      <4> QED
        BY <1>0, <3>1, <4>1 DEF AppendEvent, TypeLedger
    <3> QED
      BY <1>0, <3>1, <3>4, <3>5 DEF TypeLedger
  <2>2. LoseMemory
    BY <1>2 DEF CrashWhileFinishing
  <2> QED
    BY <1>0, <2>1, <2>2, TypeLoseMemory, TypeParts
<1> QED
  BY <1>1, <1>2

\* create_run, approve, cancel and the scheduler's dispatch keep the types.
LEMMA TypeHandlers ==
  ASSUME TypeOK, NEW r \in Runs, NEW f \in Feedback,
         CreateRun(r) \/ ApproveRun(r, f) \/ CancelRun(r) \/ DispatchRun(r)
           \/ DispatchRunSetupFails(r)
  PROVE  TypeOK'
<1> USE DEF TypeLedger, TypeRest, ledger, server, SetStatus, Emit,
      AppendEvent, RecordDecision, ClearSession, RecordScheduleResult,
      Statuses, EventKinds, Decisions, Notices, TerminalStatuses
<1>0. TypeLedger /\ TypeTasks /\ TypeRest
  BY TypeParts
<1>1. CASE CreateRun(r)
  <2>1. TypeTasks'
    BY <1>0, <1>1, TypeStartRunTask DEF CreateRun, Feedback
  <2>2. TypeLedger' /\ TypeRest'
    BY <1>0, <1>1 DEF CreateRun
  <2> QED
    BY <2>1, <2>2, TypeParts
<1>2. CASE ApproveRun(r, f)
  <2>1. TypeTasks'
    BY <1>0, <1>2, TypeStartRunTask DEF ApproveRun
  <2>2. TypeLedger' /\ TypeRest'
    BY <1>0, <1>2 DEF ApproveRun
  <2> QED
    BY <2>1, <2>2, TypeParts
<1>3. CASE CancelRun(r)
  BY <1>3 DEF CancelRun, TypeOK
<1>4. CASE DispatchRun(r)
  BY <1>4 DEF DispatchRun, TypeOK, TaskPoints
<1>5. CASE DispatchRunSetupFails(r)
  BY <1>5 DEF DispatchRunSetupFails, TypeOK, tasks
<1> QED
  BY <1>1, <1>2, <1>3, <1>4, <1>5

\* Every step of execute_run and dispatch_schedule keeps the types.
LEMMA TypeTaskStep ==
  ASSUME TypeOK, NEW k \in Drivers, NEW r \in Runs,
         TaskStep(k, r) \/ GrantSession(k, r) \/ CancelTask(k, r)
  PROVE  TypeOK'
<1> USE DEF TypeLedger, TypeRest, ledger, server, SetStatus, Emit,
      AppendEvent, RecordDecision, ClearSession, RecordScheduleResult,
      Statuses, EventKinds, Decisions, Notices, TerminalStatuses
<1>0. TypeLedger /\ TypeTasks /\ TypeRest
  BY TypeParts
<1>1. CASE TaskStart(k, r)
  BY <1>0, <1>1, TypeGoTo, TypeParts DEF TaskStart, TaskPoints
<1>2. CASE TaskSetupFails(k, r)
  BY <1>0, <1>2, TypeEndTask, TypeParts DEF TaskSetupFails
<1>3. CASE StreamEvent(k, r)
  BY <1>3 DEF StreamEvent, TypeOK, tasks
<1>4. CASE GrantSession(k, r)
  BY <1>4 DEF GrantSession, TypeOK, tasks
<1>5. CASE FinishInterrupted(k, r)
  BY <1>0, <1>5, TypeGoTo, TypeParts DEF FinishInterrupted, TaskPoints
<1>6. ASSUME NEW s \in TerminalStatuses, FinishTerminal(k, r, s)
      PROVE  TypeOK'
  BY <1>0, <1>6, TypeGoTo, TypeParts DEF FinishTerminal, TaskPoints, NoticeOf
<1>7. CASE GraphRaises(k, r)
  BY <1>0, <1>7, TypeGoTo, TypeParts DEF GraphRaises, TaskPoints
<1>8. CASE Return(k, r)
  BY <1>0, <1>8, TypeEndTask, TypeParts DEF Return
<1>9. CASE HandleError(k, r)
  BY <1>0, <1>9, TypeEndTask, TypeParts DEF HandleError
<1>10. CASE CancelStream(k, r)
  BY <1>0, <1>10, TypeGoTo, TypeParts DEF CancelStream, TaskPoints, ThreadPoints
<1>11. CASE CancelUnstarted(k, r)
  BY <1>11 DEF CancelUnstarted, TypeOK, TaskPoints
<1>12. CASE HandleCancel(k, r)
  <2>1. TypeTasks' /\ TypeRest'
    BY <1>0, <1>12, TypeEndTask DEF HandleCancel
  <2>2. events' \in [Runs -> Seq(EventKinds)]
    <3> DEFINE fromRun == IF status[r] \notin TerminalStatuses THEN <<"status">> ELSE <<>>
               fromTop == IF k = "sched" THEN <<"error">> ELSE <<>>
    <3>1. events' = [events EXCEPT ![r] = @ \o fromRun \o fromTop]
      BY <1>12 DEF HandleCancel
    <3>2. fromRun \in Seq(EventKinds) /\ fromTop \in Seq(EventKinds)
      <4>1. <<>> \in Seq(EventKinds) /\ <<"status">> \in Seq(EventKinds)
            /\ <<"error">> \in Seq(EventKinds)
        BY DEF EventKinds
      <4> QED
        BY <4>1
    <3> HIDE DEF fromRun, fromTop
    <3> QED
      BY <1>0, <3>1, <3>2
  <2>3. status' \in [Runs -> Statuses]
    BY <1>0, <1>12 DEF HandleCancel
  <2>4. notices' \in [Runs -> Seq(Notices)]
    <3>1. notices' = notices \/ notices' = [notices EXCEPT ![r] = Append(@, "run.cancelled")]
      BY <1>12 DEF HandleCancel
    <3>2. [notices EXCEPT ![r] = Append(@, "run.cancelled")] \in [Runs -> Seq(Notices)]
      BY <1>0
    <3> QED
      BY <1>0, <3>1, <3>2
  <2>5. approvals' = approvals
    BY <1>12 DEF HandleCancel
  <2> QED
    BY <1>0, <2>1, <2>2, <2>3, <2>4, <2>5, TypeParts
<1>13. CASE CancelTask(k, r)
  BY <1>13 DEF CancelTask, TypeOK
<1> QED
  BY <1>1, <1>2, <1>3, <1>4, <1>5, <1>6, <1>7, <1>8, <1>9, <1>10, <1>11, <1>12, <1>13
     DEF TaskStep

\* A node thread that stores its grant late touches nothing else the run's record,
\* its tasks or the server's shutdown depend on.
LEMMA LateGrantQuiet ==
  ASSUME NEW q \in Runs, LateGrant(q)
  PROVE  /\ UNCHANGED <<status, events, approvals, notices, pc, cancelReq, resume, active>>
         /\ UNCHANGED <<phase, restarts>>
         /\ thread[q] = "running" /\ thread' = [thread EXCEPT ![q] = "stored"]
         /\ grants' = grants \cup {q}
BY DEF LateGrant, ledger, tasks

\* Every step keeps the types.
LEMMA TypeNext == TypeOK /\ [Next]_vars => TypeOK'
<1> SUFFICES ASSUME TypeOK, [Next]_vars
             PROVE  TypeOK'
  OBVIOUS
<1>1. CASE UNCHANGED vars
  BY <1>1 DEF vars, TypeOK
<1>2. CASE Next
  <2>1. \A r \in Runs, f \in Feedback :
           CreateRun(r) \/ ApproveRun(r, f) \/ CancelRun(r) \/ DispatchRun(r)
             \/ DispatchRunSetupFails(r) => TypeOK'
    BY TypeHandlers
  <2>2. \A k \in Drivers, r \in Runs :
           TaskStep(k, r) \/ GrantSession(k, r) \/ CancelTask(k, r) => TypeOK'
    BY TypeTaskStep
  <2>3. "none" \in Feedback
    BY DEF Feedback
  <2>4. \A r \in Runs : LateGrant(r) => TypeOK'
    BY DEF LateGrant, ledger, tasks, TypeOK, ThreadPoints
  <2> QED
    BY <1>2, <2>1, <2>2, <2>3, <2>4, TypeServer, TypeCrashes DEF Next
<1> QED
  BY <1>1, <1>2

\* Every reachable state of the service is well typed: statuses, events,
\* decisions and notices stay in the sets runs.py and events.py name, and the
\* task table refers to known runs only.
THEOREM TypeCorrect == Spec => []TypeOK
BY TypeInit, TypeNext, PTL DEF Spec

-----------------------------------------------------------------------------
(* The inductive invariant that ties an API run's status to its task.      *)

\* Before any run is created its status needs no task.
LEMMA TaskInvInit == Init => ApiTaskInv
BY DEF Init, ApiTaskInv, Runs

\* A lost task table satisfies the task invariant: no task claims a status.
LEMMA TaskInvLoseMemory ==
  ASSUME TypeOK, LoseMemory
  PROVE  ApiTaskInv'
BY DEF LoseMemory, ApiTaskInv, Runs

\* Shutdowns, forced exits and restarts keep the task invariant.
LEMMA TaskInvServer ==
  ASSUME TypeOK, ApiTaskInv, Shutdown \/ CloseSinks \/ ForceExit \/ Restart \/ Crash
  PROVE  ApiTaskInv'
<1>1. CASE Shutdown \/ CloseSinks \/ ForceExit
  BY <1>1 DEF Shutdown, CloseSinks, ForceExit, ledger, tasks, ApiTaskInv
<1>2. CASE Restart \/ Crash
  BY <1>2, TaskInvLoseMemory DEF Restart, Crash
<1> QED
  BY <1>1, <1>2

\* A crash in the middle of a decision or of a task's last write keeps the task invariant.
LEMMA TaskInvCrashes ==
  ASSUME TypeOK, NEW r \in Runs,
         \/ CrashWhileDeciding(r)
         \/ \E k \in Drivers, e \in EventKinds, s \in Settled : CrashWhileFinishing(k, r, e, s)
  PROVE  ApiTaskInv'
BY TaskInvLoseMemory DEF CrashWhileDeciding, CrashWhileFinishing

\* The three run endpoints and the scheduler's dispatch keep the task invariant.
LEMMA TaskInvHandlers ==
  ASSUME TypeOK, ApiTaskInv, NEW q \in Runs, NEW f \in Feedback,
         CreateRun(q) \/ ApproveRun(q, f) \/ CancelRun(q) \/ DispatchRun(q)
           \/ DispatchRunSetupFails(q)
  PROVE  ApiTaskInv'
<1> USE ConstantsAssumption DEF ApiTaskInv, Runs, SetStatus, TerminalStatuses, Live
<1>0. /\ status \in [Runs -> Statuses]
      /\ pc \in [Drivers -> [Runs -> TaskPoints]]
      /\ cancelReq \in [Drivers -> [Runs -> BOOLEAN]]
  BY DEF TypeOK
<1>1. CASE CreateRun(q)
  BY <1>0, <1>1 DEF NewRow, CreateRun, StartRunTask, tasks
<1>2. CASE ApproveRun(q, f)
  BY <1>0, <1>2 DEF ApproveRun, StartRunTask, tasks
<1>3. CASE CancelRun(q)
  BY <1>0, <1>3 DEF CancelRun
<1>4. CASE DispatchRun(q)
  BY <1>0, <1>4 DEF DispatchRun
<1>5. CASE DispatchRunSetupFails(q)
  BY <1>0, <1>5 DEF DispatchRunSetupFails, tasks
<1> QED
  BY <1>1, <1>2, <1>3, <1>4, <1>5

\* Every step of a task keeps the task invariant.
LEMMA TaskInvTaskStep ==
  ASSUME TypeOK, ApiTaskInv, NEW k \in Drivers, NEW q \in Runs,
         TaskStep(k, q) \/ GrantSession(k, q) \/ CancelTask(k, q)
  PROVE  ApiTaskInv'
<1> USE DEF ApiTaskInv, Runs, SetStatus, TerminalStatuses, Live, Running, GoTo, EndTask
<1>0. /\ status \in [Runs -> Statuses]
      /\ pc \in [Drivers -> [Runs -> TaskPoints]]
      /\ cancelReq \in [Drivers -> [Runs -> BOOLEAN]]
  BY DEF TypeOK
<1>1. CASE TaskStart(k, q)
  BY <1>0, <1>1 DEF TaskStart
<1>2. CASE TaskSetupFails(k, q)
  BY <1>0, <1>2 DEF TaskSetupFails, ledger
<1>3. CASE StreamEvent(k, q) \/ GrantSession(k, q)
  BY <1>0, <1>3 DEF StreamEvent, GrantSession, tasks, ledger
<1>4. CASE FinishInterrupted(k, q)
  BY <1>0, <1>4 DEF FinishInterrupted
<1>5. ASSUME NEW s \in TerminalStatuses, FinishTerminal(k, q, s)
      PROVE  ApiTaskInv'
  BY <1>0, <1>5 DEF FinishTerminal
<1>6. CASE GraphRaises(k, q)
  BY <1>0, <1>6 DEF GraphRaises, ledger
<1>7. CASE Return(k, q)
  BY <1>0, <1>7 DEF Return, ledger
<1>8. CASE HandleError(k, q)
  BY <1>0, <1>8 DEF HandleError
<1>9. CASE CancelStream(k, q)
  BY <1>0, <1>9 DEF CancelStream, ledger
<1>10. CASE CancelUnstarted(k, q)
  BY <1>0, <1>10 DEF CancelUnstarted, ledger
<1>11. CASE HandleCancel(k, q)
  BY <1>0, <1>11 DEF HandleCancel
<1>12. CASE CancelTask(k, q)
  BY <1>0, <1>12 DEF CancelTask, ledger
<1> QED
  BY <1>1, <1>2, <1>3, <1>4, <1>5, <1>6, <1>7, <1>8, <1>9, <1>10, <1>11, <1>12
     DEF TaskStep

\* Every step keeps the task invariant.
LEMMA TaskInvNext == TypeOK /\ ApiTaskInv /\ [Next]_vars => ApiTaskInv'
<1> SUFFICES ASSUME TypeOK, ApiTaskInv, [Next]_vars
             PROVE  ApiTaskInv'
  OBVIOUS
<1>1. CASE UNCHANGED vars
  BY <1>1 DEF vars, ApiTaskInv
<1>2. CASE Next
  <2>1. \A r \in Runs, f \in Feedback :
           CreateRun(r) \/ ApproveRun(r, f) \/ CancelRun(r) \/ DispatchRun(r)
             \/ DispatchRunSetupFails(r) => ApiTaskInv'
    BY TaskInvHandlers
  <2>2. \A k \in Drivers, r \in Runs :
           TaskStep(k, r) \/ GrantSession(k, r) \/ CancelTask(k, r) => ApiTaskInv'
    BY TaskInvTaskStep
  <2>3. "none" \in Feedback
    BY DEF Feedback
  <2>4. \A r \in Runs : LateGrant(r) => ApiTaskInv'
    BY LateGrantQuiet DEF ApiTaskInv
  <2> QED
    BY <1>2, <2>1, <2>2, <2>3, <2>4, TaskInvServer, TaskInvCrashes DEF Next
<1> QED
  BY <1>1, <1>2

\* At every moment the status of an API run is one its task's position allows.
THEOREM TaskInvariant == Spec => []ApiTaskInv
<1>1. Init => TypeOK /\ ApiTaskInv
  BY TypeInit, TaskInvInit
<1>2. TypeOK /\ ApiTaskInv /\ [Next]_vars => (TypeOK /\ ApiTaskInv)'
  BY TypeNext, TaskInvNext
<1> QED
  BY <1>1, <1>2, PTL DEF Spec

-----------------------------------------------------------------------------
(* A closed record stays closed.                                           *)

\* The record of run r as a client of the API sees it is not touched.
SameRecord(r) ==
  /\ status'[r] = status[r]
  /\ events'[r] = events[r]
  /\ approvals'[r] = approvals[r]
  /\ notices'[r] = notices[r]

\* No step on another run, and no step of the server alone, touches it.
LEMMA RecordHandlers ==
  ASSUME TypeOK, ApiTaskInv, NEW r \in ApiRuns, status[r] \in TerminalStatuses,
         NEW q \in Runs, NEW f \in Feedback,
         CreateRun(q) \/ ApproveRun(q, f) \/ CancelRun(q) \/ DispatchRun(q)
           \/ DispatchRunSetupFails(q) \/ CrashWhileDeciding(q)
  PROVE  SameRecord(r)
<1> USE DEF SameRecord, TypeOK, Runs, SetStatus, RecordDecision, Emit, AppendEvent,
            TerminalStatuses
<1>1. CASE CreateRun(q)
  BY <1>1 DEF NewRow, CreateRun
<1>2. CASE ApproveRun(q, f)
  BY <1>2 DEF ApproveRun
<1>3. CASE CancelRun(q)
  BY <1>3 DEF CancelRun
<1>4. CASE DispatchRun(q) \/ DispatchRunSetupFails(q)
  BY <1>4 DEF NewRow, DispatchRun, DispatchRunSetupFails
<1>5. CASE CrashWhileDeciding(q)
  BY <1>5 DEF CrashWhileDeciding
<1> QED
  BY <1>1, <1>2, <1>3, <1>4, <1>5

\* A task step leaves a terminal API run's status, trail and end events alone.
LEMMA RecordTaskStep ==
  ASSUME TypeOK, ApiTaskInv, NEW r \in ApiRuns, status[r] \in TerminalStatuses,
         NEW k \in Drivers, NEW q \in Runs,
         \/ TaskStep(k, q) \/ GrantSession(k, q) \/ CancelTask(k, q)
         \/ \E e \in EventKinds, s \in Settled : CrashWhileFinishing(k, q, e, s)
  PROVE  SameRecord(r)
<1> USE DEF SameRecord, Runs, SetStatus, Emit, AppendEvent, Running, ledger
<1>0. /\ status \in [Runs -> Statuses]
      /\ events \in [Runs -> Seq(EventKinds)]
      /\ approvals \in [Runs -> Seq(Decisions)]
      /\ notices \in [Runs -> Seq(Notices)]
  BY DEF TypeOK
<1>a. ASSUME ~cancelReq[k][q], pc[k][q] \in {"created", "streaming", "raised"}
      PROVE  q # r
  BY <1>a DEF ApiTaskInv, TerminalStatuses
<1>1. CASE TaskStart(k, q)
  BY <1>0, <1>1, <1>a DEF TaskStart
<1>2. CASE TaskSetupFails(k, q) \/ GraphRaises(k, q) \/ Return(k, q)
  BY <1>2 DEF TaskSetupFails, GraphRaises, Return
<1>3. CASE GrantSession(k, q) \/ CancelTask(k, q) \/ CancelStream(k, q) \/ CancelUnstarted(k, q)
  BY <1>3 DEF GrantSession, CancelTask, CancelStream, CancelUnstarted
<1>4. CASE StreamEvent(k, q)
  BY <1>0, <1>4, <1>a DEF StreamEvent
<1>5. CASE FinishInterrupted(k, q)
  BY <1>0, <1>5, <1>a DEF FinishInterrupted
<1>6. ASSUME NEW s \in TerminalStatuses, FinishTerminal(k, q, s)
      PROVE  SameRecord(r)
  BY <1>0, <1>6, <1>a DEF FinishTerminal
<1>7. CASE HandleError(k, q)
  BY <1>0, <1>7, <1>a DEF HandleError
<1>8. CASE HandleCancel(k, q)
  <2>1. CASE q # r
    BY <1>0, <1>8, <2>1 DEF HandleCancel
  <2>2. CASE q = r
    <3>1. k = "api"
      BY <1>8, <2>2 DEF HandleCancel, ApiTaskInv
    <3>2. status'[r] = status[r] /\ notices' = notices /\ approvals' = approvals
      BY <1>0, <1>8, <2>2, <3>1 DEF HandleCancel
    <3>3. events'[r] = events[r] \o <<>> \o <<>>
      BY <1>0, <1>8, <2>2, <3>1 DEF HandleCancel
    <3>4. events[r] \o <<>> \o <<>> = events[r]
      BY <1>0
    <3> QED
      BY <3>2, <3>3, <3>4
  <2> QED
    BY <2>1, <2>2
<1>9. ASSUME NEW e \in EventKinds, NEW s \in Settled, CrashWhileFinishing(k, q, e, s)
      PROVE  SameRecord(r)
  <2>1. q # r
    BY <1>9, <1>a DEF CrashWhileFinishing, Outcome
  <2> QED
    BY <1>0, <1>9, <2>1 DEF CrashWhileFinishing
<1> QED
  BY <1>1, <1>2, <1>3, <1>4, <1>5, <1>6, <1>7, <1>8, <1>9 DEF TaskStep

\* No step at all touches the record of a terminal API run.
LEMMA RecordNext ==
  ASSUME TypeOK, ApiTaskInv, [Next]_vars, NEW r \in ApiRuns, status[r] \in TerminalStatuses
  PROVE  SameRecord(r)
<1>1. CASE UNCHANGED vars
  BY <1>1 DEF vars, SameRecord
<1>2. CASE Shutdown \/ CloseSinks \/ ForceExit \/ Restart \/ Crash
  BY <1>2 DEF Shutdown, CloseSinks, ForceExit, Restart, Crash, ledger, SameRecord
<1>3. CASE Next
  <2>1. "none" \in Feedback
    BY DEF Feedback
  <2>2. \A q \in Runs : LateGrant(q) => SameRecord(r)
    BY LateGrantQuiet DEF SameRecord
  <2> QED
    BY <1>2, <1>3, <2>1, <2>2, RecordHandlers, RecordTaskStep DEF Next
<1> QED
  BY <1>1, <1>3

\* A completed, cancelled or failed API run never changes again, whatever the
\* handlers, the tasks, late cancellations, shutdowns and crashes do.
THEOREM TerminalIsFinal == Spec => TerminalFinal
<1>1. TypeOK /\ ApiTaskInv /\ [Next]_vars =>
        [\A r \in ApiRuns : status[r] \in TerminalStatuses =>
            /\ status'[r] = status[r]
            /\ events'[r] = events[r]
            /\ approvals'[r] = approvals[r]
            /\ notices'[r] = notices[r]]_vars
  BY RecordNext DEF SameRecord
<1> QED
  BY <1>1, TypeCorrect, TaskInvariant, PTL DEF Spec, TerminalFinal

-----------------------------------------------------------------------------
(* The service implements RunLifecycle.                                    *)

\* The ledger's share of a step: run q goes from one status to another with
\* the decisions d added to its audit trail, and nothing else moves.
LedgerMove(q, from, to, d) ==
  /\ status[q] \in from
  /\ status' = [status EXCEPT ![q] = to]
  /\ approvals' = [approvals EXCEPT ![q] = @ \o d]

LedgerStutter == \A r \in ApiRuns : status'[r] = status[r] /\ approvals'[r] = approvals[r]

\* The edges of the abstract machine, on the concrete ledger.
LedgerStep(q) ==
  \/ LedgerMove(q, {"absent"}, "queued", <<>>)
  \/ LedgerMove(q, {"queued"}, "running", <<>>)
  \/ LedgerMove(q, {"running"}, "interrupted", <<>>)
  \/ LedgerMove(q, {"interrupted"}, "running", <<"approved">>)
  \/ LedgerMove(q, {"queued", "running", "interrupted"}, "cancelled", <<"cancelled">>)
  \/ \E s \in {"completed", "error", "cancelled"} : LedgerMove(q, {"running"}, s, <<>>)
  \/ LedgerMove(q, {"interrupted"}, "cancelled", <<>>)

\* A move of the ledger on one run is the lifecycle's move on it.
LEMMA MapMove ==
  ASSUME TypeOK, NEW q \in ApiRuns, NEW from, NEW to, NEW d, LedgerMove(q, from, to, d)
  PROVE  Lifecycle!Move(q, from, to, d)
BY DEF LedgerMove, Lifecycle!Move, TypeOK, Runs

\* Each move the ledger makes is a step of the published lifecycle.
LEMMA MapStep ==
  ASSUME TypeOK, NEW q \in ApiRuns, LedgerStep(q)
  PROVE  Lifecycle!Next
<1> USE MapMove DEF Lifecycle!Next, Lifecycle!Create, Lifecycle!Begin, Lifecycle!Pause,
        Lifecycle!Approve, Lifecycle!Cancel, Lifecycle!End, Lifecycle!Abandon,
        Lifecycle!Open, Lifecycle!Terminal
<1>1. CASE LedgerMove(q, {"absent"}, "queued", <<>>)
  BY <1>1
<1>2. CASE LedgerMove(q, {"queued"}, "running", <<>>)
  BY <1>2
<1>3. CASE LedgerMove(q, {"running"}, "interrupted", <<>>)
  BY <1>3
<1>4. CASE LedgerMove(q, {"interrupted"}, "running", <<"approved">>)
  BY <1>4
<1>5. CASE LedgerMove(q, {"queued", "running", "interrupted"}, "cancelled", <<"cancelled">>)
  BY <1>5
<1>6. CASE \E s \in {"completed", "error", "cancelled"} : LedgerMove(q, {"running"}, s, <<>>)
  BY <1>6
<1>7. CASE LedgerMove(q, {"interrupted"}, "cancelled", <<>>)
  BY <1>7
<1> QED
  BY <1>1, <1>2, <1>3, <1>4, <1>5, <1>6, <1>7 DEF LedgerStep

\* A step that leaves the ledger's record alone is a stutter of the lifecycle.
LEMMA MapStutter ==
  ASSUME TypeOK, LedgerStutter
  PROVE  UNCHANGED Lifecycle!vars
BY DEF LedgerStutter, Lifecycle!vars

\* What adding no decision, or one, to an audit trail means.
LEMMA AuditGrowth ==
  ASSUME TypeOK, NEW q \in Runs
  PROVE  /\ [approvals EXCEPT ![q] = @ \o <<>>] = approvals
         /\ \A d \in Decisions : [approvals EXCEPT ![q] = @ \o <<d>>]
                                    = [approvals EXCEPT ![q] = Append(@, d)]
<1>1. approvals[q] \in Seq(Decisions) /\ approvals \in [Runs -> Seq(Decisions)]
  BY DEF TypeOK
<1>2. approvals[q] \o <<>> = approvals[q]
  BY <1>1
<1>3. \A d \in Decisions : approvals[q] \o <<d>> = Append(approvals[q], d)
  BY <1>1
<1> QED
  BY <1>1, <1>2, <1>3

\* The endpoints and the scheduler's dispatch make a move of the ledger or none.
LEMMA StepHandlers ==
  ASSUME TypeOK, ApiTaskInv, NEW q \in Runs, NEW f \in Feedback,
         CreateRun(q) \/ ApproveRun(q, f) \/ CancelRun(q) \/ DispatchRun(q)
           \/ DispatchRunSetupFails(q) \/ CrashWhileDeciding(q)
  PROVE  LedgerStutter \/ (q \in ApiRuns /\ LedgerStep(q))
<1>0. /\ status \in [Runs -> Statuses]
      /\ approvals \in [Runs -> Seq(Decisions)]
  BY DEF TypeOK
<1>a. ASSUME NEW s, SetStatus(q, s), UNCHANGED approvals \/ \E d \in Decisions : RecordDecision(q, d),
             q \notin ApiRuns
      PROVE  LedgerStutter
  BY <1>0, <1>a DEF LedgerStutter, SetStatus, RecordDecision, Runs
<1>1. CASE CreateRun(q)
  BY <1>0, <1>1, AuditGrowth DEF NewRow, CreateRun, SetStatus, LedgerStep, LedgerMove
<1>2. CASE DispatchRun(q) \/ DispatchRunSetupFails(q)
  <2>1. q \notin ApiRuns
    BY <1>2, ConstantsAssumption DEF DispatchRun, DispatchRunSetupFails
  <2> QED
    BY <1>2, <1>a, <2>1 DEF DispatchRun, DispatchRunSetupFails
<1>3. ASSUME status[q] = "interrupted", RecordDecision(q, "approved"), SetStatus(q, "running")
      PROVE  LedgerStutter \/ (q \in ApiRuns /\ LedgerStep(q))
  <2>1. "approved" \in Decisions
    BY DEF Decisions
  <2>2. LedgerMove(q, {"interrupted"}, "running", <<"approved">>)
    BY <1>3, <2>1, AuditGrowth DEF LedgerMove, RecordDecision, SetStatus
  <2> QED
    BY <1>3, <1>a, <2>1, <2>2 DEF LedgerStep
<1>4. ASSUME status[q] \notin TerminalStatuses \cup {"absent"}, RecordDecision(q, "cancelled"),
             SetStatus(q, "cancelled")
      PROVE  LedgerStutter \/ (q \in ApiRuns /\ LedgerStep(q))
  <2>1. "cancelled" \in Decisions
    BY DEF Decisions
  <2>2. status[q] \in {"queued", "running", "interrupted"}
    BY <1>0, <1>4 DEF Statuses
  <2>3. LedgerMove(q, {"queued", "running", "interrupted"}, "cancelled", <<"cancelled">>)
    BY <1>4, <2>1, <2>2, AuditGrowth DEF LedgerMove, RecordDecision, SetStatus
  <2> QED
    BY <1>4, <1>a, <2>1, <2>3 DEF LedgerStep
<1>5. CASE ApproveRun(q, f) \/ CancelRun(q) \/ CrashWhileDeciding(q)
  BY <1>3, <1>4, <1>5 DEF ApproveRun, CancelRun, CrashWhileDeciding
<1> QED
  BY <1>1, <1>2, <1>5

\* A task step makes a move of the ledger or none.
LEMMA StepTask ==
  ASSUME TypeOK, ApiTaskInv, NEW k \in Drivers, NEW q \in Runs,
         \/ TaskStep(k, q) \/ GrantSession(k, q) \/ CancelTask(k, q)
         \/ \E e \in EventKinds, s \in Settled : CrashWhileFinishing(k, q, e, s)
  PROVE  LedgerStutter \/ (q \in ApiRuns /\ LedgerStep(q))
<1>0. status \in [Runs -> Statuses]
  BY DEF TypeOK
<1>a. ASSUME NEW s, SetStatus(q, s), UNCHANGED approvals, q \notin ApiRuns
      PROVE  LedgerStutter
  BY <1>0, <1>a DEF LedgerStutter, SetStatus, Runs
<1>b. ASSUME UNCHANGED <<status, approvals>>
      PROVE  LedgerStutter
  BY <1>b DEF LedgerStutter
<1>c. ASSUME ~cancelReq[k][q], pc[k][q] \in {"streaming", "raised"}, q \in ApiRuns
      PROVE  status[q] = "running"
  BY <1>c DEF ApiTaskInv
<1>d. ASSUME status[q] = "running", NEW s \in Settled, SetStatus(q, s), UNCHANGED approvals
      PROVE  LedgerStep(q)
  BY <1>d, AuditGrowth DEF LedgerStep, LedgerMove, SetStatus, Settled, TerminalStatuses
<1>1. CASE TaskStart(k, q)
  <2>1. CASE q \notin ApiRuns
    BY <1>1, <1>a, <2>1 DEF TaskStart
  <2>2. CASE q \in ApiRuns /\ status[q] = "queued"
    BY <1>1, <2>2, AuditGrowth DEF TaskStart, LedgerStep, LedgerMove, SetStatus
  <2>3. CASE q \in ApiRuns /\ status[q] = "running"
    BY <1>0, <1>1, <2>3 DEF TaskStart, LedgerStutter, SetStatus
  <2>4. q \in ApiRuns => status[q] \in {"queued", "running"}
    BY <1>1 DEF TaskStart, Running, ApiTaskInv
  <2> QED
    BY <2>1, <2>2, <2>3, <2>4
<1>2. CASE TaskSetupFails(k, q) \/ GraphRaises(k, q) \/ Return(k, q) \/ StreamEvent(k, q)
  BY <1>2, <1>b DEF TaskSetupFails, GraphRaises, Return, StreamEvent, ledger
<1>3. CASE GrantSession(k, q) \/ CancelTask(k, q) \/ CancelStream(k, q) \/ CancelUnstarted(k, q)
  BY <1>3, <1>b DEF GrantSession, CancelTask, CancelStream, CancelUnstarted, ledger
<1>4. CASE FinishInterrupted(k, q)
  BY <1>4, <1>a, <1>c, <1>d DEF FinishInterrupted, Running, Settled
<1>5. ASSUME NEW s \in TerminalStatuses, FinishTerminal(k, q, s)
      PROVE  LedgerStutter \/ (q \in ApiRuns /\ LedgerStep(q))
  BY <1>5, <1>a, <1>c, <1>d DEF FinishTerminal, Running, Settled
<1>6. CASE HandleError(k, q)
  BY <1>6, <1>a, <1>c, <1>d DEF HandleError, Running, Settled, TerminalStatuses
<1>7. CASE HandleCancel(k, q)
  <2>1. CASE q \notin ApiRuns
    BY <1>0, <1>7, <2>1 DEF HandleCancel, LedgerStutter, Runs
  <2>2. CASE q \in ApiRuns /\ status[q] \in TerminalStatuses
    <3>1. k = "api"
      BY <1>7, <2>2 DEF HandleCancel, ApiTaskInv
    <3>2. \A r \in ApiRuns : status'[r] = status[r]
      BY <1>0, <1>7, <2>2, <3>1 DEF HandleCancel, Runs
    <3> QED
      BY <1>7, <3>2 DEF HandleCancel, LedgerStutter
  <2>3. CASE q \in ApiRuns /\ status[q] \notin TerminalStatuses
    <3>1. k = "api" /\ status[q] \in {"running", "interrupted"}
      BY <1>7, <2>3 DEF HandleCancel, ApiTaskInv, TerminalStatuses
    <3>2. SetStatus(q, "cancelled") /\ UNCHANGED approvals
      BY <1>7, <2>3, <3>1 DEF HandleCancel, SetStatus
    <3> QED
      BY <2>3, <3>1, <3>2, <1>d, AuditGrowth
         DEF LedgerStep, LedgerMove, SetStatus, Settled, TerminalStatuses
  <2> QED
    BY <2>1, <2>2, <2>3
<1>8. ASSUME NEW e \in EventKinds, NEW s \in Settled, CrashWhileFinishing(k, q, e, s)
      PROVE  LedgerStutter \/ (q \in ApiRuns /\ LedgerStep(q))
  <2>1. ~cancelReq[k][q] /\ pc[k][q] \in {"streaming", "raised"}
    BY <1>8 DEF CrashWhileFinishing, Outcome
  <2>2. UNCHANGED approvals /\ (UNCHANGED status \/ SetStatus(q, s))
    BY <1>8 DEF CrashWhileFinishing
  <2> QED
    BY <1>a, <1>b, <1>c, <1>d, <2>1, <2>2
<1> QED
  BY <1>1, <1>2, <1>3, <1>4, <1>5, <1>6, <1>7, <1>8 DEF TaskStep

\* Every step of the service is a step or a stutter of the lifecycle.
LEMMA LifecycleStep ==
  TypeOK /\ ApiTaskInv /\ [Next]_vars => [Lifecycle!Next]_(Lifecycle!vars)
<1> SUFFICES ASSUME TypeOK, ApiTaskInv, [Next]_vars
             PROVE  [Lifecycle!Next]_(Lifecycle!vars)
  OBVIOUS
<1>1. CASE LedgerStutter
  BY <1>1, MapStutter
<1>2. ASSUME NEW q \in ApiRuns, LedgerStep(q)
      PROVE  Lifecycle!Next
  BY <1>2, MapStep
<1>3. LedgerStutter \/ \E q \in ApiRuns : LedgerStep(q)
  <2>1. CASE UNCHANGED vars
    BY <2>1 DEF vars, LedgerStutter
  <2>2. CASE Shutdown \/ CloseSinks \/ ForceExit \/ Restart \/ Crash
    BY <2>2 DEF Shutdown, CloseSinks, ForceExit, Restart, Crash, ledger, LedgerStutter
  <2>3. CASE Next
    <3>1. "none" \in Feedback
      BY DEF Feedback
    <3>2. \A q \in Runs : LateGrant(q) => LedgerStutter
      BY LateGrantQuiet DEF LedgerStutter
    <3> QED
      BY <2>2, <2>3, <3>1, <3>2, StepHandlers, StepTask DEF Next
  <2> QED
    BY <2>1, <2>3
<1> QED
  BY <1>1, <1>2, <1>3

\* The service implements the published lifecycle of a run for any number of
\* API and scheduled runs, with crashes and shutdowns included.
THEOREM Implementation == Spec => LifecycleSpec
<1>1. Init => Lifecycle!Init
  BY DEF Init, Lifecycle!Init, Runs
<1> QED
  BY <1>1, LifecycleStep, TypeCorrect, TaskInvariant, PTL
     DEF Spec, LifecycleSpec, Lifecycle!Spec

-----------------------------------------------------------------------------
(* Both drivers of a run: the scheduler's child and the task an approval    *)
(* starts for the run it left at a gate.                                   *)

\* Points of execute_run before its outcome is written.
Driving == {"created", "streaming", "raised", "unwinding"}

\* At most one driver of a run is at work: when an API task is under way, or a session
\* grant is remembered or a thread was left behind, the scheduler's child has at most
\* its checkpointer to close.
\* While a driver has not written its outcome the run is neither completed nor at a
\* gate.
DriverInv(r) ==
  /\ pc["sched"][r] # "created"
  /\ pc["sched"][r] \notin {"none", "pausing"} => pc["api"][r] = "none" /\ r \notin grants
  /\ status[r] = "absent" => r \notin grants
  /\ thread[r] # "none" => status[r] # "absent" /\ pc["sched"][r] \in {"none", "pausing"}
  /\ pc["api"][r] # "none" => r \in active
  /\ \A k \in Drivers :
       /\ cancelReq[k][r] => pc[k][r] # "none"
       /\ status[r] = "absent" => pc[k][r] = "none"
       /\ pc[k][r] \in Driving => status[r] \notin {"completed", "interrupted"}
       /\ pc[k][r] = "closing" => status[r] \in TerminalStatuses

Serving == phase \in {"up", "draining"}

\* Points at which a task will still clear the session grants of its run.
Clearing == {"streaming", "raised", "unwinding", "closing"}

\* While the process serves, only the cancel endpoint cancels tasks, so a task that
\* drives a closed run is being cancelled and only a closed run has a node thread
\* left behind; a grant of a run that is over is one its API task is about to clear
\* or one such a thread has stored.
GrantInv(r) ==
  /\ resume["sched"][r] = "none"
  /\ Serving => /\ ~cancelReq["sched"][r]
                /\ cancelReq["api"][r] => status[r] \in TerminalStatuses
                /\ status[r] \in TerminalStatuses /\ pc["api"][r] \in {"created", "streaming", "raised"}
                     => cancelReq["api"][r]
                /\ thread[r] # "none" => /\ status[r] \in TerminalStatuses
                                         /\ pc["api"][r] \in {"none", "unwinding"}
                /\ r \in grants /\ status[r] \in TerminalStatuses
                     => thread[r] = "stored" \/ pc["api"][r] \in Clearing

DriversInv == \A r \in Runs : DriverInv(r)
GrantsInv == \A r \in Runs : GrantInv(r)

\* Interrupts are answered before the graph goes on; a run at its gate has at most
\* one that is not answered yet.
GateInv(r) ==
  /\ status[r] = "absent" => InterruptsOf(r) = 0
  /\ status[r] = "interrupted" => InterruptsOf(r) =< ApprovalsOf(r) + 1
  /\ (status[r] = "completed" \/ \E k \in Drivers : pc[k][r] \in {"created", "streaming"})
        => InterruptsOf(r) =< ApprovalsOf(r)

GatesInv == \A r \in Runs : GateInv(r)

\* A fresh server has no drivers and no grants.
LEMMA DriversInit == Init => DriversInv /\ GrantsInv
BY DEF Init, DriversInv, DriverInv, GrantsInv, GrantInv, Driving, Clearing

\* Neither does a server that has lost its memory.
LEMMA DriversLoseMemory ==
  ASSUME LoseMemory
  PROVE  DriversInv' /\ GrantsInv'
BY DEF LoseMemory, DriversInv, DriverInv, GrantsInv, GrantInv, Driving, Clearing

\* Shutdowns, forced exits and restarts.
LEMMA DriversServer ==
  ASSUME DriversInv, GrantsInv, Shutdown \/ CloseSinks \/ ForceExit \/ Restart \/ Crash
  PROVE  DriversInv' /\ GrantsInv'
<1>1. CASE Shutdown \/ CloseSinks \/ ForceExit
  <2>1. /\ UNCHANGED <<status, pc, cancelReq, resume, active, grants, thread>>
        /\ Serving' => Serving
    BY <1>1 DEF Shutdown, CloseSinks, ForceExit, ledger, tasks, Serving
  <2> QED
    BY <2>1 DEF DriversInv, DriverInv, GrantsInv, GrantInv
<1>2. CASE Restart \/ Crash
  BY <1>2, DriversLoseMemory DEF Restart, Crash
<1> QED
  BY <1>1, <1>2

\* The endpoints and the scheduler's dispatch.
LEMMA DriversHandlers ==
  ASSUME TypeOK, DriversInv, GrantsInv, NEW q \in Runs, NEW f \in Feedback,
         CreateRun(q) \/ ApproveRun(q, f) \/ CancelRun(q) \/ DispatchRun(q)
           \/ DispatchRunSetupFails(q)
  PROVE  DriversInv' /\ GrantsInv'
<1> USE DEF DriversInv, DriverInv, GrantsInv, GrantInv, Serving, Driving, Clearing, SetStatus,
            TerminalStatuses, Live, server
<1>0. /\ status \in [Runs -> Statuses]
      /\ pc \in [Drivers -> [Runs -> TaskPoints]]
      /\ cancelReq \in [Drivers -> [Runs -> BOOLEAN]]
      /\ resume \in [Drivers -> [Runs -> Feedback]]
      /\ thread \in [Runs -> ThreadPoints]
  BY DEF TypeOK
<1>1. CASE CreateRun(q)
  BY <1>0, <1>1 DEF NewRow, CreateRun, StartRunTask, tasks
<1>2. CASE ApproveRun(q, f)
  <2>1. /\ status[q] = "interrupted"
        /\ status' = [status EXCEPT ![q] = "running"]
        /\ UNCHANGED <<grants, thread, phase>>
    BY <1>2 DEF ApproveRun
  <2>2. CASE UNCHANGED <<pc, cancelReq, resume, active>>
    BY <1>0, <2>1, <2>2
  <2>3. CASE /\ pc' = [pc EXCEPT !["api"][q] = "created"]
             /\ cancelReq' = [cancelReq EXCEPT !["api"][q] = FALSE]
             /\ resume' = [resume EXCEPT !["api"][q] = f]
             /\ active' = active \cup {q}
    <3>1. /\ pc'["api"][q] = "created" /\ pc'["sched"][q] = pc["sched"][q]
          /\ ~cancelReq'["api"][q] /\ cancelReq'["sched"][q] = cancelReq["sched"][q]
          /\ resume'["sched"][q] = resume["sched"][q] /\ status'[q] = "running"
      BY <1>0, <2>1, <2>3
    <3>2. \A r \in Runs \ {q} :
            /\ status'[r] = status[r]
            /\ \A k \in Drivers : /\ pc'[k][r] = pc[k][r]
                                  /\ cancelReq'[k][r] = cancelReq[k][r]
                                  /\ resume'[k][r] = resume[k][r]
      BY <1>0, <2>1, <2>3
    <3>3. pc["sched"][q] \in {"none", "pausing"}
      BY <2>1, <1>0 DEF TaskPoints
    <3>4. DriverInv(q)' /\ GrantInv(q)'
      BY <2>1, <2>3, <3>1, <3>3
    <3>5. \A r \in Runs \ {q} : DriverInv(r)' /\ GrantInv(r)'
      BY <2>1, <2>3, <3>2
    <3> QED
      BY <3>4, <3>5
  <2> QED
    BY <1>2, <2>2, <2>3 DEF ApproveRun, StartRunTask, tasks
<1>3. CASE CancelRun(q)
  <2>1. /\ status[q] \notin TerminalStatuses \cup {"absent"}
        /\ status' = [status EXCEPT ![q] = "cancelled"]
        /\ grants' = grants \ {q}
        /\ UNCHANGED <<pc, resume, active, thread, phase>>
    BY <1>3 DEF CancelRun, ClearSession
  <2>2. \A k \in Drivers, r \in Runs :
          cancelReq'[k][r] => cancelReq[k][r] \/ (k = "api" /\ r = q /\ pc[k][r] # "none")
    BY <1>0, <1>3 DEF CancelRun
  <2>3. /\ \A k \in Drivers, r \in Runs : cancelReq[k][r] => cancelReq'[k][r]
        /\ pc["api"][q] # "none" => cancelReq'["api"][q]
    BY <1>0, <1>3 DEF CancelRun
  <2> QED
    BY <1>0, <2>1, <2>2, <2>3
<1>4. CASE DispatchRun(q)
  BY <1>0, <1>4 DEF NewRow, DispatchRun
<1>5. CASE DispatchRunSetupFails(q)
  BY <1>0, <1>5 DEF NewRow, DispatchRunSetupFails, tasks
<1> QED
  BY <1>1, <1>2, <1>3, <1>4, <1>5

\* The steps of a task.
LEMMA DriversTaskStep ==
  ASSUME TypeOK, DriversInv, GrantsInv, NEW k \in Drivers, NEW q \in Runs,
         TaskStep(k, q) \/ GrantSession(k, q) \/ CancelTask(k, q)
  PROVE  DriversInv' /\ GrantsInv'
<1> USE DEF DriversInv, DriverInv, GrantsInv, GrantInv, Serving, Driving, Clearing, SetStatus,
            TerminalStatuses, Live, server, Running, GoTo, EndTask, ClearSession
<1>0. /\ status \in [Runs -> Statuses]
      /\ pc \in [Drivers -> [Runs -> TaskPoints]]
      /\ cancelReq \in [Drivers -> [Runs -> BOOLEAN]]
      /\ resume \in [Drivers -> [Runs -> Feedback]]
      /\ thread \in [Runs -> ThreadPoints]
  BY DEF TypeOK
<1>1. CASE TaskStart(k, q)
  BY <1>0, <1>1 DEF TaskStart
<1>2. CASE TaskSetupFails(k, q)
  BY <1>0, <1>2 DEF TaskSetupFails, ledger
<1>3. CASE StreamEvent(k, q)
  BY <1>0, <1>3 DEF StreamEvent, tasks
<1>4. CASE GrantSession(k, q)
  BY <1>0, <1>4 DEF GrantSession, tasks, ledger
<1>5. CASE FinishInterrupted(k, q)
  BY <1>0, <1>5 DEF FinishInterrupted
<1>6. ASSUME NEW s \in TerminalStatuses, FinishTerminal(k, q, s)
      PROVE  DriversInv' /\ GrantsInv'
  BY <1>0, <1>6 DEF FinishTerminal
<1>7. CASE GraphRaises(k, q)
  BY <1>0, <1>7 DEF GraphRaises, ledger
<1>8. CASE Return(k, q)
  BY <1>0, <1>8 DEF Return, ledger
<1>9. CASE HandleError(k, q)
  BY <1>0, <1>9 DEF HandleError
<1>10. CASE CancelStream(k, q)
  BY <1>0, <1>10 DEF CancelStream, ledger
<1>11. CASE CancelUnstarted(k, q)
  BY <1>0, <1>11 DEF CancelUnstarted, ledger
<1>12. CASE HandleCancel(k, q)
  BY <1>0, <1>12 DEF HandleCancel
<1>13. CASE CancelTask(k, q)
  BY <1>0, <1>13 DEF CancelTask, ledger
<1> QED
  BY <1>1, <1>2, <1>3, <1>4, <1>5, <1>6, <1>7, <1>8, <1>9, <1>10, <1>11, <1>12, <1>13
     DEF TaskStep

\* Every step.
LEMMA DriversNext ==
  TypeOK /\ DriversInv /\ GrantsInv /\ [Next]_vars => DriversInv' /\ GrantsInv'
<1> SUFFICES ASSUME TypeOK, DriversInv, GrantsInv, [Next]_vars
             PROVE  DriversInv' /\ GrantsInv'
  OBVIOUS
<1>1. CASE UNCHANGED vars
  BY <1>1 DEF vars, DriversInv, DriverInv, GrantsInv, GrantInv, Serving
<1>2. ASSUME NEW q \in Runs,
             \/ CrashWhileDeciding(q)
             \/ \E k \in Drivers, e \in EventKinds, s \in Settled : CrashWhileFinishing(k, q, e, s)
      PROVE  DriversInv' /\ GrantsInv'
  BY <1>2, DriversLoseMemory DEF CrashWhileDeciding, CrashWhileFinishing
<1>3. CASE Next
  <2>1. \A r \in Runs, f \in Feedback :
           CreateRun(r) \/ ApproveRun(r, f) \/ CancelRun(r) \/ DispatchRun(r)
             \/ DispatchRunSetupFails(r) => DriversInv' /\ GrantsInv'
    BY DriversHandlers
  <2>2. \A k \in Drivers, r \in Runs :
           TaskStep(k, r) \/ GrantSession(k, r) \/ CancelTask(k, r) => DriversInv' /\ GrantsInv'
    BY DriversTaskStep
  <2>3. "none" \in Feedback
    BY DEF Feedback
  <2>4. ASSUME NEW q \in Runs, LateGrant(q)
        PROVE  DriversInv' /\ GrantsInv'
    <3>1. thread \in [Runs -> ThreadPoints]
      BY DEF TypeOK
    <3> QED
      BY <2>4, <3>1, LateGrantQuiet
         DEF DriversInv, DriverInv, GrantsInv, GrantInv, Serving, Driving, Clearing
  <2> QED
    BY <1>2, <1>3, <2>1, <2>2, <2>3, <2>4, DriversServer DEF Next
<1> QED
  BY <1>1, <1>3

\* The drivers and the grants of every run, in every reachable state.
LEMMA DriversAlways == Spec => [](TypeOK /\ DriversInv /\ GrantsInv)
<1>1. Init => TypeOK /\ DriversInv /\ GrantsInv
  BY TypeInit, DriversInit
<1>2. TypeOK /\ DriversInv /\ GrantsInv /\ [Next]_vars => (TypeOK /\ DriversInv /\ GrantsInv)'
  BY TypeNext, DriversNext
<1> QED
  BY <1>1, <1>2, PTL DEF Spec

\* A serving process remembers no session grant for a run that is over, except while
\* the run's API task has yet to clear it or when a node thread that outlived its
\* cancelled task stored it after the task's finally clause; and no task that could
\* read what is left drives the run, whichever of the operator's cancel, the thread
\* and the task's own end comes first.
THEOREM GrantsEnd == Spec => []NoGrantOutlivesRun
<1>1. TypeOK /\ DriversInv /\ GrantsInv => NoGrantOutlivesRun
  BY DEF TypeOK, DriversInv, DriverInv, GrantsInv, GrantInv, NoGrantOutlivesRun, Serving,
         Clearing, Live, Running, Drivers
<1> QED
  BY <1>1, DriversAlways, PTL

\* What a driver's finally clause clears belonged to a run that is over.
LEMMA GrantsCleared ==
  ASSUME TypeOK, DriversInv, Next, NEW r \in grants, r \notin grants'
  PROVE  restarts' # restarts \/ status'[r] \in TerminalStatuses
<1>0. /\ status \in [Runs -> Statuses] /\ r \in Runs
      /\ restarts \in Nat
  BY ConstantsAssumption DEF TypeOK
<1>1. CASE LoseMemory
  BY <1>0, <1>1 DEF LoseMemory
<1>2. ASSUME NEW q \in Runs, CancelRun(q)
      PROVE  status'[r] \in TerminalStatuses
  BY <1>0, <1>2 DEF CancelRun, ClearSession, SetStatus, TerminalStatuses
<1>3. ASSUME NEW k \in Drivers, NEW q \in Runs, Return(k, q) \/ HandleError(k, q) \/ HandleCancel(k, q)
      PROVE  status'[r] \in TerminalStatuses
  <2>1. q = r
    BY <1>3 DEF Return, HandleError, HandleCancel, ClearSession
  <2>2. CASE Return(k, q)
    <3>1. pc[k][r] = "closing" /\ status' = status
      BY <2>1, <2>2 DEF Return, Running, ledger
    <3> QED
      BY <1>0, <3>1 DEF DriversInv, DriverInv
  <2>3. CASE HandleError(k, q)
    BY <1>0, <2>1, <2>3 DEF HandleError, SetStatus, TerminalStatuses
  <2>4. CASE HandleCancel(k, q)
    BY <1>0, <2>1, <2>4 DEF HandleCancel, TerminalStatuses
  <2> QED
    BY <1>3, <2>2, <2>3, <2>4
<1>4. \/ LoseMemory
      \/ \E q \in Runs : CancelRun(q)
      \/ \E k \in Drivers, q \in Runs : Return(k, q) \/ HandleError(k, q) \/ HandleCancel(k, q)
      \/ grants \subseteq grants'
  BY DEF Next, CreateRun, ApproveRun, DispatchRun, DispatchRunSetupFails, TaskStep, TaskStart,
         TaskSetupFails, StreamEvent, FinishInterrupted, FinishTerminal, GraphRaises, CancelStream,
         CancelUnstarted, GrantSession, LateGrant, Shutdown, CloseSinks, ForceExit, CancelTask, Restart, Crash,
         CrashWhileFinishing, CrashWhileDeciding
<1> QED
  BY <1>1, <1>2, <1>3, <1>4

\* A session grant is lost only with the process or with the end of its run: the
\* finally clause of one driver never wipes what a later gate of the run relies on.
THEOREM GrantsLast == Spec => GrantKeptWhileOpen
<1>1. TypeOK /\ DriversInv /\ [Next]_vars =>
        [\A r \in grants \ grants' : restarts' # restarts \/ status'[r] \in TerminalStatuses]_vars
  BY GrantsCleared
<1> QED
  BY <1>1, DriversAlways, PTL DEF Spec, GrantKeptWhileOpen

-----------------------------------------------------------------------------
(* No run gets past a gate without an approval.                            *)

\* How often x occurs in the sequence s.
Count(s, x) == Cardinality({i \in DOMAIN s : s[i] = x})

\* One more row counts if it is the one that is looked for.
LEMMA CountAppend ==
  ASSUME NEW S, NEW s \in Seq(S), NEW e \in S, NEW x
  PROVE  /\ Count(s, x) \in Nat
         /\ Count(Append(s, e), x) = IF e = x THEN Count(s, x) + 1 ELSE Count(s, x)
<1> DEFINE old == {i \in DOMAIN s : s[i] = x}
           new == {i \in DOMAIN Append(s, e) : Append(s, e)[i] = x}
<1>1. /\ Len(s) \in Nat /\ DOMAIN s = 1..Len(s)
      /\ DOMAIN Append(s, e) = 1..(Len(s) + 1)
      /\ Append(s, e)[Len(s) + 1] = e
      /\ \A i \in 1..Len(s) : Append(s, e)[i] = s[i]
  OBVIOUS
<1>2. IsFiniteSet(old)
  <2>1. IsFiniteSet(1..Len(s))
    BY <1>1, FS_Interval
  <2>2. old \subseteq 1..Len(s)
    BY <1>1
  <2> QED
    BY <2>1, <2>2, FS_Subset
<1>3. Cardinality(old) \in Nat
  BY <1>2, FS_CardinalityType
<1>4. CASE e = x
  <2>1. new = old \cup {Len(s) + 1}
    BY <1>1, <1>4
  <2>2. Len(s) + 1 \notin old
    BY <1>1
  <2>3. Cardinality(new) = Cardinality(old) + 1
    BY <1>2, <2>1, <2>2, FS_AddElement
  <2> QED
    BY <1>3, <1>4, <2>3 DEF Count
<1>5. CASE e # x
  <2>1. new = old
    BY <1>1, <1>5
  <2> QED
    BY <1>3, <1>5, <2>1 DEF Count
<1> QED
  BY <1>4, <1>5

\* The counts of the invariant are counts of rows.
LEMMA CountsOf ==
  ASSUME NEW r \in Runs
  PROVE  /\ InterruptsOf(r) = Count(events[r], "interrupt")
         /\ InterruptsOf(r)' = Count(events'[r], "interrupt")
         /\ ApprovalsOf(r) = Count(approvals[r], "approved")
         /\ ApprovalsOf(r)' = Count(approvals'[r], "approved")
BY DEF InterruptsOf, ApprovalsOf, Count

\* They are natural numbers.
LEMMA CountsTyped ==
  ASSUME TypeOK, NEW r \in Runs
  PROVE  InterruptsOf(r) \in Nat /\ ApprovalsOf(r) \in Nat
<1>1. events[r] \in Seq(EventKinds) /\ approvals[r] \in Seq(Decisions)
  BY DEF TypeOK
<1>2. "node" \in EventKinds /\ "approved" \in Decisions
  BY DEF EventKinds, Decisions
<1> QED
  BY <1>1, <1>2, CountAppend, CountsOf

\* What one more event, and one more decision, does to them.
LEMMA CountEvent ==
  ASSUME TypeOK, NEW r \in Runs, NEW e \in EventKinds, events'[r] = Append(events[r], e)
  PROVE  InterruptsOf(r)' = IF e = "interrupt" THEN InterruptsOf(r) + 1 ELSE InterruptsOf(r)
<1>1. events[r] \in Seq(EventKinds)
  BY DEF TypeOK
<1>2. Count(Append(events[r], e), "interrupt") =
        IF e = "interrupt" THEN Count(events[r], "interrupt") + 1 ELSE Count(events[r], "interrupt")
  <2>1. \A x : Count(Append(events[r], e), x) =
                IF e = x THEN Count(events[r], x) + 1 ELSE Count(events[r], x)
    BY <1>1, CountAppend
  <2> QED
    BY <2>1
<1>3. InterruptsOf(r) = Count(events[r], "interrupt") /\ InterruptsOf(r)' = Count(events'[r], "interrupt")
  BY CountsOf
<1> QED
  BY <1>2, <1>3, Zenon

LEMMA CountDecision ==
  ASSUME TypeOK, NEW r \in Runs, NEW d \in Decisions, approvals'[r] = Append(approvals[r], d)
  PROVE  ApprovalsOf(r)' = IF d = "approved" THEN ApprovalsOf(r) + 1 ELSE ApprovalsOf(r)
<1>1. approvals[r] \in Seq(Decisions)
  BY DEF TypeOK
<1>2. Count(Append(approvals[r], d), "approved") =
        IF d = "approved" THEN Count(approvals[r], "approved") + 1 ELSE Count(approvals[r], "approved")
  <2>1. \A x : Count(Append(approvals[r], d), x) =
                IF d = x THEN Count(approvals[r], x) + 1 ELSE Count(approvals[r], x)
    BY <1>1, CountAppend
  <2> QED
    BY <2>1
<1>3. ApprovalsOf(r) = Count(approvals[r], "approved") /\ ApprovalsOf(r)' = Count(approvals'[r], "approved")
  BY CountsOf
<1> QED
  BY <1>2, <1>3, Zenon

\* A run that is past all its gates so far.
Passing(r) == status[r] = "completed" \/ \E k \in Drivers : pc[k][r] \in {"created", "streaming"}

\* A step that neither logs an interrupt nor lets the run pass, rest at a gate or be new.
NoInterrupt(r) == InterruptsOf(r)' = InterruptsOf(r)
TrailGrows(r)  == ApprovalsOf(r)' \in {ApprovalsOf(r), ApprovalsOf(r) + 1}

Quiet(r) ==
  /\ NoInterrupt(r)
  /\ TrailGrows(r)
  /\ status'[r] \in {"absent", "interrupted"} => status'[r] = status[r]
  /\ Passing(r)' => Passing(r)

\* It keeps the gate's invariant.
LEMMA QuietGate ==
  ASSUME TypeOK, NEW r \in Runs, GateInv(r), Quiet(r)
  PROVE  GateInv(r)'
BY CountsTyped DEF GateInv, Quiet, NoInterrupt, TrailGrows, Passing

\* What leaves a run's ledger rows alone leaves the counts alone.
LEMMA SameCounts ==
  ASSUME NEW r \in Runs
  PROVE  /\ events'[r] = events[r] => NoInterrupt(r)
         /\ approvals'[r] = approvals[r] => TrailGrows(r)
BY CountsOf DEF NoInterrupt, TrailGrows

\* Any event but an interrupt, and any decision.
LEMMA HarmlessRows ==
  ASSUME TypeOK, NEW r \in Runs
  PROVE  /\ \A e \in EventKinds \ {"interrupt"} : events'[r] = Append(events[r], e) => NoInterrupt(r)
         /\ \A d \in Decisions : approvals'[r] = Append(approvals[r], d) => TrailGrows(r)
BY CountEvent, CountDecision DEF NoInterrupt, TrailGrows

\* A fresh server has asked nobody anything.
LEMMA GatesInit == Init => GatesInv
<1> SUFFICES ASSUME Init, NEW r \in Runs PROVE GateInv(r)
  BY DEF GatesInv
<1>1. events[r] = <<>> /\ status[r] = "absent" /\ \A k \in Drivers : pc[k][r] = "none"
  BY DEF Init
<1>2. {i \in DOMAIN events[r] : events[r][i] = "interrupt"} = {}
  BY <1>1
<1>3. InterruptsOf(r) = 0
  BY <1>2, FS_EmptySet DEF InterruptsOf
<1> QED
  BY <1>1, <1>3 DEF GateInv

\* The steps of the process log no interrupt and start nothing.
LEMMA GatesServer ==
  ASSUME TypeOK, NEW r \in Runs, Shutdown \/ CloseSinks \/ ForceExit \/ Restart \/ Crash
  PROVE  Quiet(r)
<1>1. /\ UNCHANGED ledger
      /\ pc' = pc \/ pc' = [k \in Drivers |-> [q \in Runs |-> "none"]]
  BY DEF Shutdown, CloseSinks, ForceExit, Restart, Crash, LoseMemory, tasks
<1> QED
  BY <1>1, SameCounts DEF Quiet, Passing, ledger

\* An approval answers the interrupt its run rests at; a new run has none.
LEMMA GatesHandlers ==
  ASSUME TypeOK, GatesInv, NEW r \in Runs, NEW q \in Runs, NEW f \in Feedback,
         CreateRun(q) \/ ApproveRun(q, f) \/ CancelRun(q) \/ DispatchRun(q)
           \/ DispatchRunSetupFails(q) \/ CrashWhileDeciding(q)
  PROVE  GateInv(r)'
<1>0. /\ status \in [Runs -> Statuses] /\ pc \in [Drivers -> [Runs -> TaskPoints]]
      /\ events \in [Runs -> Seq(EventKinds)] /\ approvals \in [Runs -> Seq(Decisions)]
      /\ GateInv(r)
  BY DEF TypeOK, GatesInv
<1>1. \/ events' = events
      \/ events' = [events EXCEPT ![q] = Append(@, "status")]
  BY DEF CreateRun, ApproveRun, CancelRun, DispatchRun, DispatchRunSetupFails, CrashWhileDeciding,
         AppendEvent
<1>2. NoInterrupt(r)
  <2>1. "status" \in EventKinds \ {"interrupt"}
    BY DEF EventKinds
  <2>2. events'[r] = events[r] \/ events'[r] = Append(events[r], "status")
    BY <1>0, <1>1
  <2> QED
    BY <2>1, <2>2, SameCounts, HarmlessRows
<1>3. \/ approvals' = approvals
      \/ \E d \in Decisions : approvals' = [approvals EXCEPT ![q] = Append(@, d)]
  BY DEF CreateRun, ApproveRun, CancelRun, DispatchRun, DispatchRunSetupFails, CrashWhileDeciding,
         RecordDecision, Decisions
<1>4. TrailGrows(r)
  <2>1. approvals'[r] = approvals[r] \/ \E d \in Decisions : approvals'[r] = Append(approvals[r], d)
    BY <1>0, <1>3
  <2> QED
    BY <2>1, SameCounts, HarmlessRows
<1>5. /\ \A k \in Drivers : pc'[k][r] \in {"created", "streaming"} =>
           pc[k][r] = pc'[k][r] \/ (r = q /\ (CreateRun(q) \/ ApproveRun(q, f) \/ DispatchRun(q)))
      /\ status'[r] = status[r] \/ status'[r] \in {"queued", "running", "cancelled"}
  BY <1>0
    DEF CreateRun, ApproveRun, CancelRun, DispatchRun, DispatchRunSetupFails, CrashWhileDeciding,
        StartRunTask, tasks, LoseMemory, SetStatus
<1>6. CASE r = q /\ (CreateRun(q) \/ DispatchRun(q))
  <2>1. status[r] = "absent" /\ status'[r] \in {"queued", "running"}
    BY <1>0, <1>6 DEF CreateRun, DispatchRun, NewRow, SetStatus
  <2>2. InterruptsOf(r) = 0
    BY <1>0, <2>1 DEF GateInv
  <2> QED
    BY <1>2, <1>4, <2>1, <2>2, CountsTyped DEF GateInv, NoInterrupt, TrailGrows
<1>7. CASE r = q /\ ApproveRun(q, f)
  <2>1. status[r] = "interrupted" /\ status'[r] = "running"
    BY <1>0, <1>7 DEF ApproveRun, SetStatus
  <2>2. InterruptsOf(r) =< ApprovalsOf(r) + 1
    BY <1>0, <2>1 DEF GateInv
  <2>3. ApprovalsOf(r)' = ApprovalsOf(r) + 1
    <3>1. approvals'[r] = Append(approvals[r], "approved") /\ "approved" \in Decisions
      BY <1>0, <1>7 DEF ApproveRun, RecordDecision, Decisions
    <3> QED
      BY <3>1, CountDecision
  <2> QED
    BY <1>2, <2>1, <2>2, <2>3 DEF GateInv, NoInterrupt
<1>8. CASE ~ (r = q /\ (CreateRun(q) \/ ApproveRun(q, f) \/ DispatchRun(q)))
  <2>1. Quiet(r)
    BY <1>2, <1>4, <1>5, <1>8 DEF Quiet, Passing
  <2> QED
    BY <1>0, <2>1, QuietGate
<1> QED
  BY <1>6, <1>7, <1>8

\* A task that meets a gate rests there.
LEMMA GatesInterrupt ==
  ASSUME TypeOK, DriversInv, GatesInv, NEW r \in Runs, NEW k \in Drivers, NEW q \in Runs,
         FinishInterrupted(k, q)
  PROVE  GateInv(r)'
<1>0. /\ status \in [Runs -> Statuses] /\ pc \in [Drivers -> [Runs -> TaskPoints]]
      /\ events \in [Runs -> Seq(EventKinds)] /\ GateInv(r)
  BY DEF TypeOK, GatesInv
<1>1. /\ pc[k][q] = "streaming" /\ pc' = [pc EXCEPT ![k][q] = "pausing"]
      /\ status' = [status EXCEPT ![q] = "interrupted"]
      /\ events' = [events EXCEPT ![q] = Append(@, "interrupt")]
      /\ approvals' = approvals
  BY DEF FinishInterrupted, Running, GoTo, SetStatus, AppendEvent
<1>2. CASE r # q
  <2>1. events'[r] = events[r] /\ status'[r] = status[r] /\ \A d \in Drivers : pc'[d][r] = pc[d][r]
    BY <1>0, <1>1, <1>2
  <2>2. Quiet(r)
    BY <1>1, <2>1, SameCounts DEF Quiet, Passing
  <2> QED
    BY <1>0, <2>2, QuietGate
<1>3. CASE r = q
  <2>1. InterruptsOf(r) =< ApprovalsOf(r)
    BY <1>0, <1>1, <1>3 DEF GateInv
  <2>2. InterruptsOf(r)' = InterruptsOf(r) + 1
    <3>1. events'[r] = Append(events[r], "interrupt") /\ "interrupt" \in EventKinds
      BY <1>0, <1>1, <1>3 DEF EventKinds
    <3> QED
      BY <3>1, CountEvent
  <2>3. ApprovalsOf(r)' = ApprovalsOf(r)
    BY <1>1, CountsOf
  <2>4. status'[r] = "interrupted" /\ \A d \in Drivers : pc'[d][r] \notin {"created", "streaming"}
    BY <1>0, <1>1, <1>3 DEF DriversInv, DriverInv
  <2> QED
    BY <2>1, <2>2, <2>3, <2>4, CountsTyped DEF GateInv
<1> QED
  BY <1>2, <1>3

\* A crash between the event and the status leaves no task behind, and a run that is
\* neither completed nor at its gate unless the graph said so.
LEMMA GatesCrash ==
  ASSUME TypeOK, DriversInv, GatesInv, NEW r \in Runs, NEW k \in Drivers, NEW q \in Runs,
         NEW e \in EventKinds, NEW s \in Settled, CrashWhileFinishing(k, q, e, s)
  PROVE  GateInv(r)'
<1>0. /\ status \in [Runs -> Statuses] /\ pc \in [Drivers -> [Runs -> TaskPoints]]
      /\ events \in [Runs -> Seq(EventKinds)] /\ GateInv(r)
  BY DEF TypeOK, GatesInv
<1>1. /\ Outcome(pc[k][q], e, s)
      /\ status' = status \/ status' = [status EXCEPT ![q] = s]
      /\ events' = [events EXCEPT ![q] = Append(@, e)]
      /\ approvals' = approvals
      /\ \A d \in Drivers : pc'[d][r] = "none"
  BY DEF CrashWhileFinishing, SetStatus, AppendEvent, LoseMemory
<1>2. CASE r # q
  <2>1. events'[r] = events[r] /\ status'[r] = status[r]
    BY <1>0, <1>1, <1>2
  <2>2. Quiet(r)
    BY <1>1, <2>1, SameCounts DEF Quiet, Passing
  <2> QED
    BY <1>0, <2>2, QuietGate
<1>3. CASE r = q
  <2>1. status[r] \notin {"absent", "completed", "interrupted"}
    BY <1>1, <1>3 DEF DriversInv, DriverInv, Driving, Outcome
  <2>2. events'[r] = Append(events[r], e)
    BY <1>0, <1>1, <1>3
  <2>3. ApprovalsOf(r)' = ApprovalsOf(r)
    BY <1>1, CountsOf
  <2>4. CASE e = "interrupt"
    <3>1. InterruptsOf(r) =< ApprovalsOf(r)
      BY <1>0, <1>1, <1>3, <2>4 DEF GateInv, Outcome
    <3>2. InterruptsOf(r)' = InterruptsOf(r) + 1
      BY <2>2, <2>4, CountEvent
    <3>3. s = "interrupted"
      BY <1>1, <2>4 DEF Outcome
    <3>4. status'[r] \notin {"absent", "completed"}
      BY <1>0, <1>1, <1>3, <2>1, <3>3
    <3> QED
      BY <1>1, <2>3, <3>1, <3>2, <3>4, CountsTyped DEF GateInv
  <2>5. CASE e # "interrupt"
    <3>1. NoInterrupt(r) /\ TrailGrows(r)
      BY <1>1, <2>2, <2>5, HarmlessRows, SameCounts
    <3>2. s \in TerminalStatuses /\ (s = "completed" => pc[k][r] = "streaming")
      BY <1>1, <1>3, <2>5 DEF Outcome, TerminalStatuses
    <3>3. Quiet(r)
      BY <1>0, <1>1, <1>3, <2>1, <3>1, <3>2 DEF Quiet, Passing, TerminalStatuses
    <3> QED
      BY <1>0, <3>3, QuietGate
  <2> QED
    BY <2>4, <2>5
<1> QED
  BY <1>2, <1>3

\* The handlers of a cancellation log statuses and errors, no interrupt.
LEMMA CancelRows ==
  ASSUME TypeOK, NEW r \in Runs, NEW k \in Drivers, NEW q \in Runs, HandleCancel(k, q)
  PROVE  NoInterrupt(r)
<1>0. events \in [Runs -> Seq(EventKinds)]
  BY DEF TypeOK
<1> DEFINE fromRun == IF status[q] \notin TerminalStatuses THEN <<"status">> ELSE <<>>
           fromTop == IF k = "sched" THEN <<"error">> ELSE <<>>
<1>1. events' = [events EXCEPT ![q] = @ \o fromRun \o fromTop]
  BY DEF HandleCancel
<1>2. CASE r # q
  <2>1. events'[r] = events[r]
    BY <1>0, <1>1, <1>2
  <2> QED
    BY <2>1, SameCounts
<1>3. CASE r = q
  <2>1. "status" \in EventKinds /\ "error" \in EventKinds
    BY DEF EventKinds
  <2>2. PICK mid \in Seq(EventKinds) :
          /\ mid = events[r] \o fromRun
          /\ Count(mid, "interrupt") = Count(events[r], "interrupt")
    <3>1. CASE status[q] \in TerminalStatuses
      <4>1. events[r] \o fromRun = events[r]
        BY <1>0, <3>1
      <4> QED
        BY <1>0, <4>1
    <3>2. CASE status[q] \notin TerminalStatuses
      <4>1. events[r] \o fromRun = Append(events[r], "status")
        BY <1>0, <2>1, <3>2
      <4>2. Append(events[r], "status") \in Seq(EventKinds)
        BY <1>0, <2>1
      <4>3. \A x : Count(Append(events[r], "status"), x) =
                    IF "status" = x THEN Count(events[r], x) + 1 ELSE Count(events[r], x)
        BY <1>0, <2>1, CountAppend
      <4> QED
        BY <4>1, <4>2, <4>3
    <3> QED
      BY <3>1, <3>2
  <2>3. events'[r] = mid \o fromTop
    BY <1>0, <1>1, <1>3, <2>2
  <2>4. Count(events'[r], "interrupt") = Count(mid, "interrupt")
    <3>1. CASE k # "sched"
      <4>1. mid \o fromTop = mid
        BY <3>1
      <4> QED
        BY <2>3, <4>1
    <3>2. CASE k = "sched"
      <4>1. mid \o fromTop = Append(mid, "error")
        BY <2>1, <3>2
      <4>2. \A x : Count(Append(mid, "error"), x) =
                    IF "error" = x THEN Count(mid, x) + 1 ELSE Count(mid, x)
        BY <2>1, CountAppend
      <4> QED
        BY <2>3, <4>1, <4>2
    <3> QED
      BY <3>1, <3>2
  <2> QED
    BY <2>2, <2>4, CountsOf DEF NoInterrupt
<1> QED
  BY <1>2, <1>3

\* The other steps of a task.
LEMMA GatesTaskStep ==
  ASSUME TypeOK, DriversInv, GatesInv, NEW r \in Runs, NEW k \in Drivers, NEW q \in Runs,
         TaskStep(k, q) \/ GrantSession(k, q) \/ CancelTask(k, q)
  PROVE  GateInv(r)'
<1>0. /\ status \in [Runs -> Statuses] /\ pc \in [Drivers -> [Runs -> TaskPoints]]
      /\ events \in [Runs -> Seq(EventKinds)] /\ approvals \in [Runs -> Seq(Decisions)]
      /\ GateInv(r)
  BY DEF TypeOK, GatesInv
<1> SUFFICES ASSUME ~FinishInterrupted(k, q)
             PROVE  Quiet(r)
  BY <1>0, GatesInterrupt, QuietGate
<1>1. TrailGrows(r)
  <2>1. approvals' = approvals
    BY DEF TaskStep, TaskStart, TaskSetupFails, StreamEvent, FinishTerminal, GraphRaises, Return,
           HandleError, CancelStream, CancelUnstarted, HandleCancel, GrantSession, CancelTask, ledger
  <2> QED
    BY <2>1, SameCounts
<1>2. NoInterrupt(r)
  <2>1. CASE HandleCancel(k, q)
    BY <2>1, CancelRows
  <2>2. CASE ~HandleCancel(k, q)
    <3>1. \/ events' = events
          \/ \E e \in EventKinds \ {"interrupt"} : events' = [events EXCEPT ![q] = Append(@, e)]
      BY <2>2
        DEF TaskStep, TaskStart, TaskSetupFails, StreamEvent, FinishTerminal, GraphRaises, Return,
            HandleError, CancelStream, CancelUnstarted, GrantSession, CancelTask, ledger,
            AppendEvent, EventKinds
    <3>2. events'[r] = events[r] \/ \E e \in EventKinds \ {"interrupt"} : events'[r] = Append(events[r], e)
      BY <1>0, <3>1
    <3> QED
      BY <3>2, SameCounts, HarmlessRows
  <2> QED
    BY <2>1, <2>2
<1>3. status'[r] \in {"absent", "interrupted"} => status'[r] = status[r]
  BY <1>0
    DEF TaskStep, TaskStart, TaskSetupFails, StreamEvent, FinishTerminal, GraphRaises, Return,
        HandleError, CancelStream, CancelUnstarted, HandleCancel, GrantSession, CancelTask, ledger,
        SetStatus, TerminalStatuses
<1>4. Passing(r)' => Passing(r)
  <2>1. \A d \in Drivers :
          pc'[d][r] = pc[d][r] \/ pc'[d][r] \notin {"created", "streaming"} \/ pc[d][r] = "created"
    <3>1. \/ pc' = pc
          \/ pc' = [pc EXCEPT ![k][q] = "streaming"] /\ pc[k][q] = "created"
          \/ \E p \in {"none", "closing", "raised", "unwinding"} : pc' = [pc EXCEPT ![k][q] = p]
      BY DEF TaskStep, TaskStart, TaskSetupFails, StreamEvent, FinishTerminal, GraphRaises, Return,
             HandleError, CancelStream, CancelUnstarted, HandleCancel, GrantSession, CancelTask,
             tasks, GoTo, EndTask, Running
    <3>2. pc \in [Drivers -> [Runs -> TaskPoints]]
      BY <1>0
    <3>3. CASE pc' = pc
      BY <3>3
    <3>4. CASE pc' = [pc EXCEPT ![k][q] = "streaming"] /\ pc[k][q] = "created"
      BY <3>2, <3>4
    <3>5. ASSUME NEW p \in {"none", "closing", "raised", "unwinding"}, pc' = [pc EXCEPT ![k][q] = p]
          PROVE  \A d \in Drivers : pc'[d][r] = pc[d][r] \/ pc'[d][r] = p
      BY <3>2, <3>5
    <3> QED
      BY <3>1, <3>3, <3>4, <3>5
  <2>2. status'[r] = "completed" => status[r] = "completed" \/ pc[k][r] = "streaming"
    BY <1>0
      DEF TaskStep, TaskStart, TaskSetupFails, StreamEvent, FinishTerminal, GraphRaises, Return,
          HandleError, CancelStream, CancelUnstarted, HandleCancel, GrantSession, CancelTask, ledger,
          SetStatus, Running
  <2> QED
    BY <2>1, <2>2 DEF Passing
<1> QED
  BY <1>1, <1>2, <1>3, <1>4 DEF Quiet

\* Every step.
LEMMA GatesNext == TypeOK /\ DriversInv /\ GatesInv /\ [Next]_vars => GatesInv'
<1> SUFFICES ASSUME TypeOK, DriversInv, GatesInv, [Next]_vars, NEW r \in Runs
             PROVE  GateInv(r)'
  BY DEF GatesInv
<1>0. GateInv(r)
  BY DEF GatesInv
<1>1. CASE UNCHANGED vars
  <2>1. Quiet(r)
    BY <1>1, SameCounts DEF vars, Quiet, Passing
  <2> QED
    BY <1>0, <2>1, QuietGate
<1>2. CASE Shutdown \/ CloseSinks \/ ForceExit \/ Restart \/ Crash
  BY <1>0, <1>2, GatesServer, QuietGate
<1>3. CASE Next
  <2>1. \A q \in Runs, f \in Feedback :
           CreateRun(q) \/ ApproveRun(q, f) \/ CancelRun(q) \/ DispatchRun(q)
             \/ DispatchRunSetupFails(q) \/ CrashWhileDeciding(q) => GateInv(r)'
    BY GatesHandlers
  <2>2. \A k \in Drivers, q \in Runs :
           TaskStep(k, q) \/ GrantSession(k, q) \/ CancelTask(k, q) => GateInv(r)'
    BY GatesTaskStep
  <2>3. "none" \in Feedback
    BY DEF Feedback
  <2>4. ASSUME NEW q \in Runs, LateGrant(q)
        PROVE  GateInv(r)'
    <3>1. Quiet(r)
      BY <2>4, LateGrantQuiet, SameCounts DEF Quiet, Passing
    <3> QED
      BY <1>0, <3>1, QuietGate
  <2> QED
    BY <1>2, <1>3, <2>1, <2>2, <2>3, <2>4, GatesCrash DEF Next
<1> QED
  BY <1>1, <1>3

\* Whoever drives a run past a gate, and whenever it is completed, every interrupt in
\* its log was answered by its own approval in the audit trail, for any number of
\* runs, gates, approvals, crashes and restarts.
THEOREM GatesNeedApproval == Spec => []GateNeedsApproval
<1>1. Init => GatesInv
  BY GatesInit
<1>2. GatesInv => GateNeedsApproval
  BY DEF GatesInv, GateInv, GateNeedsApproval
<1> QED
  BY <1>1, <1>2, GatesNext, DriversAlways, PTL DEF Spec

-----------------------------------------------------------------------------
(* The end of a run is announced once.                                     *)

EndInv(r) ==
  /\ \A i \in DOMAIN notices[r] : notices[r][i] \in TerminalNotices =>
        /\ i = Len(notices[r])
        /\ status[r] \in TerminalStatuses
        /\ notices[r][i] = NoticeOf(status[r])
  /\ (status[r] \in TerminalStatuses /\ restarts = 0 /\ phase # "closed")
        => \E i \in DOMAIN notices[r] : notices[r][i] \in TerminalNotices

\* How a step treats the notices of a run that was open: the run stays open and no end
\* is announced, it ends and its end is announced, or nobody is there to announce it.
Announces(r) ==
  \/ /\ status'[r] \notin TerminalStatuses
     /\ \/ notices'[r] = notices[r]
        \/ \E n \in Notices \ TerminalNotices : notices'[r] = Append(notices[r], n)
  \/ /\ status'[r] \in TerminalStatuses
     /\ notices'[r] = Append(notices[r], NoticeOf(status'[r]))
  \/ notices'[r] = notices[r] /\ (phase' = "closed" \/ restarts' # 0)

\* The notice of a terminal status is a terminal notice.
LEMMA NoticeOfTerminal ==
  ASSUME NEW s \in TerminalStatuses
  PROVE  /\ NoticeOf(s) \in TerminalNotices
         /\ NoticeOf(s) \in Notices
         /\ NoticeOf("cancelled") = "run.cancelled" /\ NoticeOf("error") = "run.failed"
BY DEF NoticeOf, TerminalNotices, TerminalStatuses, Notices

\* Either way the invariant is kept.
LEMMA EndOpen ==
  ASSUME TypeOK, NEW r \in ApiRuns, EndInv(r), status[r] \notin TerminalStatuses, Announces(r)
  PROVE  EndInv(r)'
<1>0. notices[r] \in Seq(Notices)
  BY DEF TypeOK, Runs
<1>1. \A i \in DOMAIN notices[r] : notices[r][i] \notin TerminalNotices
  BY DEF EndInv
<1>2. CASE notices'[r] = notices[r] /\ (status'[r] \notin TerminalStatuses \/ phase' = "closed" \/ restarts' # 0)
  BY <1>1, <1>2 DEF EndInv
<1>3. ASSUME NEW n \in Notices, notices'[r] = Append(notices[r], n)
      PROVE  /\ DOMAIN notices'[r] = 1..(Len(notices[r]) + 1)
             /\ Len(notices'[r]) = Len(notices[r]) + 1
             /\ Len(notices[r]) \in Nat
             /\ notices'[r][Len(notices[r]) + 1] = n
             /\ \A i \in 1..Len(notices[r]) : notices'[r][i] \notin TerminalNotices
  <2>1. \A i \in 1..Len(notices[r]) : notices'[r][i] = notices[r][i]
    BY <1>0, <1>3
  <2> QED
    BY <1>0, <1>1, <1>3, <2>1
<1>4. ASSUME status'[r] \notin TerminalStatuses,
             NEW n \in Notices \ TerminalNotices, notices'[r] = Append(notices[r], n)
      PROVE  EndInv(r)'
  <2>1. \A i \in DOMAIN notices'[r] : notices'[r][i] \notin TerminalNotices
    BY <1>3, <1>4
  <2> QED
    BY <1>4, <2>1 DEF EndInv
<1>5. CASE status'[r] \in TerminalStatuses /\ notices'[r] = Append(notices[r], NoticeOf(status'[r]))
  <2>1. NoticeOf(status'[r]) \in Notices /\ NoticeOf(status'[r]) \in TerminalNotices
    BY <1>5, NoticeOfTerminal
  <2>2. \A i \in DOMAIN notices'[r] : notices'[r][i] \in TerminalNotices => i = Len(notices'[r])
    BY <1>3, <1>5, <2>1
  <2>3. Len(notices'[r]) \in DOMAIN notices'[r] /\ notices'[r][Len(notices'[r])] = NoticeOf(status'[r])
    BY <1>3, <1>5, <2>1
  <2> QED
    BY <1>5, <2>1, <2>2, <2>3 DEF EndInv
<1> QED
  BY <1>2, <1>4, <1>5 DEF Announces

\* A run that is over keeps its record, and a server that closed its sinks does not
\* open them again.
LEMMA EndClosed ==
  ASSUME TypeOK, NEW r \in ApiRuns, EndInv(r), SameRecord(r),
         phase' = "closed" \/ phase # "closed" \/ restarts' # 0,
         restarts' = 0 => restarts = 0
  PROVE  EndInv(r)'
BY DEF EndInv, SameRecord

\* A notice that is sent, or dropped by a closed sink.
LEMMA EmitEffect ==
  ASSUME TypeOK, NEW r \in Runs, NEW q \in Runs, NEW n \in Notices, Emit(q, n)
  PROVE  /\ r # q => notices'[r] = notices[r]
         /\ phase = "closed" => notices'[r] = notices[r]
         /\ r = q /\ phase # "closed" => notices'[r] = Append(notices[r], n)
BY DEF TypeOK, Emit

\* The endpoints and the scheduler's dispatch.
LEMMA AnnounceHandlers ==
  ASSUME TypeOK, ApiTaskInv, NEW r \in ApiRuns, status[r] \notin TerminalStatuses,
         NEW q \in Runs, NEW f \in Feedback,
         CreateRun(q) \/ ApproveRun(q, f) \/ CancelRun(q) \/ DispatchRun(q)
           \/ DispatchRunSetupFails(q) \/ CrashWhileDeciding(q)
  PROVE  Announces(r)
<1>0. status \in [Runs -> Statuses] /\ r \in Runs /\ restarts \in Nat
  BY ConstantsAssumption DEF TypeOK, Runs
<1>1. ASSUME NEW n \in Notices \ TerminalNotices, NEW s \in Statuses \ TerminalStatuses,
             SetStatus(q, s), Emit(q, n)
      PROVE  Announces(r)
  <2>1. status'[r] \notin TerminalStatuses
    BY <1>0, <1>1 DEF SetStatus
  <2>2. notices'[r] = notices[r] \/ notices'[r] = Append(notices[r], n)
    BY <1>0, <1>1, EmitEffect
  <2> QED
    BY <1>1, <2>1, <2>2 DEF Announces
<1>2. CASE CreateRun(q)
  BY <1>1, <1>2 DEF CreateRun, Notices, TerminalNotices, Statuses, TerminalStatuses
<1>3. CASE ApproveRun(q, f)
  BY <1>1, <1>3 DEF ApproveRun, Notices, TerminalNotices, Statuses, TerminalStatuses
<1>4. CASE CancelRun(q)
  <2>1. /\ phase # "closed" /\ status' = [status EXCEPT ![q] = "cancelled"]
        /\ Emit(q, "run.cancelled")
    BY <1>4 DEF CancelRun, SetStatus
  <2>2. "run.cancelled" \in Notices /\ "cancelled" \in TerminalStatuses
    BY DEF Notices, TerminalStatuses
  <2>3. CASE r = q
    BY <1>0, <2>1, <2>2, <2>3, EmitEffect, NoticeOfTerminal DEF Announces
  <2>4. CASE r # q
    BY <1>0, <2>1, <2>2, <2>4, EmitEffect DEF Announces
  <2> QED
    BY <2>3, <2>4
<1>5. CASE DispatchRun(q) \/ DispatchRunSetupFails(q)
  BY <1>0, <1>5 DEF DispatchRun, DispatchRunSetupFails, SetStatus, Announces, TerminalStatuses
<1>6. CASE CrashWhileDeciding(q)
  BY <1>0, <1>6 DEF CrashWhileDeciding, LoseMemory, Announces
<1> QED
  BY <1>2, <1>3, <1>4, <1>5, <1>6

\* The steps of a task and a crash in its last ones.
LEMMA AnnounceTaskStep ==
  ASSUME TypeOK, ApiTaskInv, NEW r \in ApiRuns, status[r] \notin TerminalStatuses,
         NEW k \in Drivers, NEW q \in Runs,
         \/ TaskStep(k, q) \/ GrantSession(k, q) \/ CancelTask(k, q)
         \/ \E e \in EventKinds, s \in Settled : CrashWhileFinishing(k, q, e, s)
  PROVE  Announces(r)
<1>0. status \in [Runs -> Statuses] /\ r \in Runs /\ restarts \in Nat
  BY ConstantsAssumption DEF TypeOK, Runs
<1>1. ASSUME NEW s \in TerminalStatuses, SetStatus(q, s), Emit(q, NoticeOf(s)), phase' = phase
      PROVE  Announces(r)
  <2>1. NoticeOf(s) \in Notices
    BY NoticeOfTerminal
  <2>2. CASE r = q
    <3>1. status'[r] = s
      BY <1>0, <1>1, <2>2 DEF SetStatus
    <3>2. CASE phase = "closed"
      BY <1>0, <1>1, <2>1, <3>2, EmitEffect DEF Announces
    <3>3. CASE phase # "closed"
      BY <1>0, <1>1, <2>1, <2>2, <3>1, <3>3, EmitEffect DEF Announces
    <3> QED
      BY <3>2, <3>3
  <2>3. CASE r # q
    BY <1>0, <1>1, <2>1, <2>3, EmitEffect DEF SetStatus, Announces
  <2> QED
    BY <2>2, <2>3
<1>2. CASE \/ TaskStart(k, q) \/ TaskSetupFails(k, q) \/ StreamEvent(k, q) \/ GraphRaises(k, q)
           \/ Return(k, q) \/ CancelStream(k, q) \/ CancelUnstarted(k, q) \/ GrantSession(k, q)
           \/ CancelTask(k, q)
  <2>1. /\ notices' = notices
        /\ status' = status \/ status' = [status EXCEPT ![q] = "running"]
    BY <1>2 DEF TaskStart, TaskSetupFails, StreamEvent, GraphRaises, Return, CancelStream,
                CancelUnstarted, GrantSession, CancelTask, ledger, SetStatus
  <2> QED
    BY <1>0, <2>1 DEF Announces, TerminalStatuses
<1>3. CASE FinishInterrupted(k, q)
  <2>1. Emit(q, "run.interrupted") /\ status' = [status EXCEPT ![q] = "interrupted"]
    BY <1>3 DEF FinishInterrupted, SetStatus
  <2>2. "run.interrupted" \in Notices \ TerminalNotices
    BY DEF Notices, TerminalNotices
  <2>3. notices'[r] = notices[r] \/ notices'[r] = Append(notices[r], "run.interrupted")
    BY <1>0, <2>1, <2>2, EmitEffect
  <2>4. status'[r] \notin TerminalStatuses
    BY <1>0, <2>1 DEF TerminalStatuses
  <2> QED
    BY <2>2, <2>3, <2>4 DEF Announces
<1>4. ASSUME NEW s \in TerminalStatuses, FinishTerminal(k, q, s)
      PROVE  Announces(r)
  BY <1>1, <1>4 DEF FinishTerminal, server
<1>5. CASE HandleError(k, q)
  <2>1. "error" \in TerminalStatuses
    BY DEF TerminalStatuses
  <2> QED
    BY <1>1, <1>5, <2>1, NoticeOfTerminal DEF HandleError, server
<1>6. CASE HandleCancel(k, q)
  <2>1. "cancelled" \in TerminalStatuses /\ "run.cancelled" \in Notices
    BY DEF TerminalStatuses, Notices
  <2>2. CASE r = q
    <3>1. k = "api"
      BY <1>6, <2>2 DEF HandleCancel, ApiTaskInv
    <3>2. SetStatus(q, "cancelled") /\ Emit(q, "run.cancelled") /\ phase' = phase
      BY <1>6, <2>2, <3>1 DEF HandleCancel, SetStatus, server
    <3> QED
      BY <1>1, <2>1, <3>2, NoticeOfTerminal
  <2>3. CASE r # q
    <3>1. status'[r] = status[r]
      BY <1>0, <1>6, <2>3 DEF HandleCancel
    <3>2. notices' = notices \/ Emit(q, "run.cancelled")
      BY <1>6 DEF HandleCancel
    <3>3. notices'[r] = notices[r]
      BY <1>0, <2>1, <2>3, <3>2, EmitEffect
    <3> QED
      BY <3>1, <3>3 DEF Announces
  <2> QED
    BY <2>2, <2>3
<1>7. ASSUME NEW e \in EventKinds, NEW s \in Settled, CrashWhileFinishing(k, q, e, s)
      PROVE  Announces(r)
  BY <1>0, <1>7 DEF CrashWhileFinishing, LoseMemory, Announces
<1> QED
  BY <1>2, <1>3, <1>4, <1>5, <1>6, <1>7 DEF TaskStep

\* Only the server's own steps and crashes change where the process is.
LEMMA ServerSteps ==
  ASSUME [Next]_vars
  PROVE  UNCHANGED <<phase, restarts>> \/ Shutdown \/ CloseSinks \/ ForceExit \/ LoseMemory
<1>1. ASSUME NEW q \in Runs, NEW f \in Feedback,
             CreateRun(q) \/ ApproveRun(q, f) \/ CancelRun(q) \/ DispatchRun(q)
               \/ DispatchRunSetupFails(q)
      PROVE  UNCHANGED <<phase, restarts>>
  BY <1>1 DEF CreateRun, ApproveRun, CancelRun, DispatchRun, DispatchRunSetupFails, server
<1>2. ASSUME NEW k \in Drivers, NEW q \in Runs,
             TaskStep(k, q) \/ GrantSession(k, q) \/ CancelTask(k, q)
      PROVE  UNCHANGED <<phase, restarts>>
  BY <1>2, Zenon
    DEF TaskStep, TaskStart, TaskSetupFails, StreamEvent, FinishInterrupted, FinishTerminal,
        GraphRaises, Return, HandleError, CancelStream, CancelUnstarted, HandleCancel, GrantSession,
        CancelTask, server
<1>3. ASSUME Restart \/ Crash \/ \E q \in Runs : \/ CrashWhileDeciding(q)
                                              \/ \E k \in Drivers, e \in EventKinds, s \in Settled :
                                                   CrashWhileFinishing(k, q, e, s)
      PROVE  LoseMemory
  BY <1>3 DEF Restart, Crash, CrashWhileDeciding, CrashWhileFinishing
<1>4. CASE UNCHANGED vars
  BY <1>4 DEF vars
<1>5. CASE Next
  <2>1. "none" \in Feedback
    BY DEF Feedback
  <2> QED
    BY <1>1, <1>2, <1>3, <1>5, <2>1, LateGrantQuiet DEF Next
<1> QED
  BY <1>4, <1>5

\* Every step.
LEMMA EndNext ==
  ASSUME TypeOK, ApiTaskInv, EndAnnouncedOnce, [Next]_vars, NEW r \in ApiRuns
  PROVE  EndInv(r)'
<1>0. EndInv(r) /\ restarts \in Nat
  BY ConstantsAssumption DEF EndAnnouncedOnce, EndInv, TypeOK
<1>1. CASE status[r] \in TerminalStatuses
  <2>1. SameRecord(r)
    BY <1>1, RecordNext
  <2>2. \/ UNCHANGED <<phase, restarts>>
        \/ Shutdown \/ CloseSinks \/ ForceExit \/ LoseMemory
    BY ServerSteps
  <2>3. /\ phase' = "closed" \/ phase # "closed" \/ restarts' # 0
        /\ restarts' = 0 => restarts = 0
    BY <1>0, <2>2 DEF Shutdown, CloseSinks, ForceExit, LoseMemory
  <2> QED
    BY <1>0, <2>1, <2>3, EndClosed
<1>2. CASE status[r] \notin TerminalStatuses
  <2>1. ASSUME UNCHANGED vars \/ Shutdown \/ CloseSinks \/ ForceExit \/ Restart \/ Crash
        PROVE  Announces(r)
    <3>1. status' = status /\ notices' = notices
      BY <2>1 DEF vars, ledger, Shutdown, CloseSinks, ForceExit, Restart, Crash
    <3> QED
      BY <1>2, <3>1 DEF Announces
  <2>2. Announces(r)
    <3>1. "none" \in Feedback
      BY DEF Feedback
    <3>2. \A q \in Runs : LateGrant(q) => Announces(r)
      BY <1>2, LateGrantQuiet DEF Announces
    <3> QED
      BY <1>2, <2>1, <3>1, <3>2, AnnounceHandlers, AnnounceTaskStep DEF Next
  <2> QED
    BY <1>0, <1>2, <2>2, EndOpen
<1> QED
  BY <1>1, <1>2

\* Subscribers hear of the end of an API run at most once, last and under its right
\* name, and hear of it unless the process was closing its sinks or crashed, however
\* the cancel endpoint, the graph's end and a late cancellation interleave.
THEOREM EndIsAnnouncedOnce == Spec => []EndAnnouncedOnce
<1>1. Init => EndAnnouncedOnce
  BY DEF Init, EndAnnouncedOnce, Runs, TerminalStatuses
<1>2. TypeOK /\ ApiTaskInv /\ EndAnnouncedOnce /\ [Next]_vars => EndAnnouncedOnce'
  BY EndNext DEF EndAnnouncedOnce, EndInv
<1> QED
  BY <1>1, <1>2, TypeCorrect, TaskInvariant, PTL DEF Spec

=============================================================================
