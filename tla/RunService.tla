----------------------------- MODULE RunService -----------------------------
(***************************************************************************)
(* The run lifecycle of the Runtime API: the run ledger (agent_os/runs.py),*)
(* the asyncio tasks that drive execute_run (agent_os/server/              *)
(* run_executor.py), the HTTP handlers that create, approve and cancel     *)
(* runs (agent_os/server/api.py), the in-memory session grants keyed by    *)
(* run id (LocalPolicy) and the scheduler's dispatch of a `run' schedule   *)
(* (agent_os/scheduler.py).                                                *)
(*                                                                         *)
(* All of this runs on one event loop, so one action is one stretch of     *)
(* Python between two awaits.  The graph is external here: a stream of     *)
(* node events ending in an interrupt, a result or an exception.           *)
(***************************************************************************)
EXTENDS Naturals, Sequences, FiniteSets

CONSTANTS ApiRuns,             \* runs created by POST /api/runs
          SchedRuns,           \* runs created by dispatch_schedule
          MaxRuns,             \* bound: runs created
          MaxNodeEvents,       \* bound: node events one run may log
          MaxApprovals,        \* bound: approvals one run may receive
          MaxRestarts,         \* bound: server restarts (clean or by crash)
          ApproveWhileClosing, \* may an approval reach a run whose interrupted
                               \* task is still closing its checkpointer?
          SetupMayFail         \* may execute_run raise before its try block?

ASSUME ConstantsAssumption ==
  /\ ApiRuns \cap SchedRuns = {}
  /\ MaxRuns \in Nat
  /\ MaxNodeEvents \in Nat
  /\ MaxApprovals \in Nat
  /\ MaxRestarts \in Nat
  /\ ApproveWhileClosing \in BOOLEAN
  /\ SetupMayFail \in BOOLEAN

Runs == ApiRuns \cup SchedRuns

\* Who awaits execute_run: a task of ACTIVE_RUN_TASKS, or a scheduler child.
Drivers == {"api", "sched"}

TerminalStatuses == {"completed", "error", "cancelled"}
Statuses == {"absent", "queued", "running", "interrupted"} \cup TerminalStatuses

\* Statuses at which a run rests until somebody acts on it.
Settled == TerminalStatuses \cup {"interrupted"}

\* Types of run_events; `node' stands for the streamed ones, node and token.
EventKinds == {"node", "interrupt", "result", "error", "status"}
Decisions  == {"approved", "cancelled"}
Notices    == {"run.created", "run.interrupted", "run.approved",
               "run.completed", "run.failed", "run.cancelled"}
TerminalNotices == {"run.completed", "run.failed", "run.cancelled"}

\* The server process: serving; draining the scheduler's children after a stop
\* signal; closed, the event sinks are closed and the loop cancels what is left;
\* forced, the loop cancels everything while the sinks are still open.
Phases == {"up", "draining", "closed", "forced"}

\* A resumed run carries the operator's feedback; only the choice `session'
\* makes the policy engine remember a grant for the rest of the run.
Feedback == {"none", "session", "other"}

\* Where a task is suspended:
\*   created   scheduled by create_task, its first step has not run
\*   streaming inside the checkpointer's context, driving the graph
\*   closing   outcome written, awaiting the checkpointer's exit
\*   pausing   the same after an interrupt (preserve_session is True)
\*   raised    the graph raised, awaiting the checkpointer's exit
\*   unwinding CancelledError is propagating through the checkpointer's exit
TaskPoints == {"none", "created", "streaming", "closing", "pausing",
               "raised", "unwinding"}

\* The node thread a cancelled task left behind: there is none, it is on its way
\* to approve_session, or it has been there.
ThreadPoints == {"none", "running", "stored"}

VARIABLES status,     \* runs.status, `absent' when there is no row
          events,     \* run_events, in seq order
          approvals,  \* run_approvals, in seq order
          notices,    \* lifecycle events handed to the event sinks
          pc,         \* pc[driver][run]
          cancelReq,  \* task.cancel() was called and is not yet delivered
          resume,     \* resume_feedback of the driver's task
          active,     \* keys of ACTIVE_RUN_TASKS
          grants,     \* session keys (run ids) with remembered approvals
          lastStatus, \* schedules.last_status of the run's schedule
          thread,     \* thread[run], a node thread that outlives its task
          phase,      \* where the server process is
          restarts    \* restarts so far

vars == <<status, events, approvals, notices, pc, cancelReq, resume, active,
          grants, lastStatus, thread, phase, restarts>>
ledger == <<status, events, approvals, notices>>
tasks  == <<pc, cancelReq, resume, active>>
server == <<thread, phase, restarts>>

TypeOK ==
  /\ status \in [Runs -> Statuses]
  /\ events \in [Runs -> Seq(EventKinds)]
  /\ approvals \in [Runs -> Seq(Decisions)]
  /\ notices \in [Runs -> Seq(Notices)]
  /\ pc \in [Drivers -> [Runs -> TaskPoints]]
  /\ cancelReq \in [Drivers -> [Runs -> BOOLEAN]]
  /\ resume \in [Drivers -> [Runs -> Feedback]]
  /\ active \in SUBSET Runs
  /\ grants \in SUBSET Runs
  /\ lastStatus \in [Runs -> Statuses]
  /\ thread \in [Runs -> ThreadPoints]
  /\ phase \in Phases
  /\ restarts \in 0..MaxRestarts

Init ==
  /\ status = [r \in Runs |-> "absent"]
  /\ events = [r \in Runs |-> <<>>]
  /\ approvals = [r \in Runs |-> <<>>]
  /\ notices = [r \in Runs |-> <<>>]
  /\ pc = [k \in Drivers |-> [r \in Runs |-> "none"]]
  /\ cancelReq = [k \in Drivers |-> [r \in Runs |-> FALSE]]
  /\ resume = [k \in Drivers |-> [r \in Runs |-> "none"]]
  /\ active = {}
  /\ grants = {}
  /\ lastStatus = [r \in Runs |-> "absent"]
  /\ thread = [r \in Runs |-> "none"]
  /\ phase = "up"
  /\ restarts = 0

-----------------------------------------------------------------------------
(* The run ledger.                                                         *)

\* runs.set_status: an unconditional UPDATE.
SetStatus(r, s) == status' = [status EXCEPT ![r] = s]

\* runs.append_event: one row, numbered MAX(seq) + 1.
AppendEvent(r, kind) == events' = [events EXCEPT ![r] = Append(@, kind)]

\* emit_run_lifecycle_event hands the event to the workspace's sinks; a closed
\* sink drops it.
Emit(r, notice) ==
  notices' = IF phase = "closed" THEN notices
             ELSE [notices EXCEPT ![r] = Append(@, notice)]

\* The row record_approval_and_transition and
\* record_cancellation_and_transition add to run_approvals.
RecordDecision(r, d) == approvals' = [approvals EXCEPT ![r] = Append(@, d)]

\* LocalPolicy.clear_session(run_id).
ClearSession(r) == grants' = grants \ {r}

-----------------------------------------------------------------------------
(* Task bookkeeping.                                                       *)

\* The row the INSERT of create_run adds.
NewRow(r) ==
  /\ status[r] = "absent"
  /\ Cardinality({q \in Runs : status[q] # "absent"}) < MaxRuns

Live(k, r) == pc[k][r] # "none"

\* _start_run_task returns early while the registered task is not done.
StartRunTask(r, f) ==
  IF r \in active /\ Live("api", r)
  THEN UNCHANGED tasks
  ELSE /\ pc' = [pc EXCEPT !["api"][r] = "created"]
       /\ cancelReq' = [cancelReq EXCEPT !["api"][r] = FALSE]
       /\ resume' = [resume EXCEPT !["api"][r] = f]
       /\ active' = active \cup {r}

GoTo(k, r, point) ==
  /\ pc' = [pc EXCEPT ![k][r] = point]
  /\ UNCHANGED <<cancelReq, resume, active>>

\* The task is done; runner()'s finally pops an API task from ACTIVE_RUN_TASKS.
EndTask(k, r) ==
  /\ pc' = [pc EXCEPT ![k][r] = "none"]
  /\ cancelReq' = [cancelReq EXCEPT ![k][r] = FALSE]
  /\ active' = IF k = "api" THEN active \ {r} ELSE active
  /\ UNCHANGED resume

\* dispatch_schedule reports to the schedule store; an API task does not.
RecordScheduleResult(k, r, s) ==
  lastStatus' = IF k = "sched" THEN [lastStatus EXCEPT ![r] = s] ELSE lastStatus

-----------------------------------------------------------------------------
(* The HTTP handlers.  Each one runs to its end without an await.          *)

CreateRun(r) ==
  /\ phase = "up"
  /\ r \in ApiRuns
  /\ NewRow(r)
  /\ SetStatus(r, "queued")
  /\ Emit(r, "run.created")
  /\ StartRunTask(r, "none")
  /\ UNCHANGED <<events, approvals, grants, lastStatus, server>>

ApprovalsOf(r) == Cardinality({i \in DOMAIN approvals[r] : approvals[r][i] = "approved"})

\* Mutant: the status moves without a row in the audit trail.
ApproveUnrecorded(r, f) ==
  /\ phase = "up"
  /\ status[r] = "interrupted"
  /\ SetStatus(r, "running")
  /\ Emit(r, "run.approved")
  /\ StartRunTask(r, f)
  /\ UNCHANGED <<events, approvals, grants, lastStatus, server>>

\* A run that is already running gets the idempotent answer, any other a 409:
\* neither changes anything.
ApproveRun(r, f) ==
  /\ phase = "up"
  /\ status[r] = "interrupted"
  /\ ApprovalsOf(r) < MaxApprovals
  /\ ApproveWhileClosing \/ \A k \in Drivers : ~Live(k, r)
  /\ RecordDecision(r, "approved")
  /\ SetStatus(r, "running")
  /\ Emit(r, "run.approved")
  /\ StartRunTask(r, f)
  /\ UNCHANGED <<events, grants, lastStatus, server>>

\* Mutant: the ledger says cancelled, the task is left running.
CancelLedgerOnly(r) ==
  /\ phase = "up"
  /\ status[r] \notin TerminalStatuses \cup {"absent"}
  /\ RecordDecision(r, "cancelled")
  /\ SetStatus(r, "cancelled")
  /\ AppendEvent(r, "status")
  /\ Emit(r, "run.cancelled")
  /\ ClearSession(r)
  /\ UNCHANGED <<tasks, lastStatus, server>>

\* Mutant: the cancel handler does not ask whether the run is terminal.
CancelTerminalToo(r) ==
  /\ phase = "up"
  /\ status[r] # "absent"
  /\ RecordDecision(r, "cancelled")
  /\ SetStatus(r, "cancelled")
  /\ cancelReq' = [cancelReq EXCEPT !["api"][r] = @ \/ (r \in active /\ Live("api", r))]
  /\ AppendEvent(r, "status")
  /\ Emit(r, "run.cancelled")
  /\ ClearSession(r)
  /\ UNCHANGED <<pc, resume, active, lastStatus, server>>

CancelRun(r) ==
  /\ phase = "up"
  /\ status[r] \notin TerminalStatuses \cup {"absent"}
  /\ RecordDecision(r, "cancelled")
  /\ SetStatus(r, "cancelled")
  /\ cancelReq' = [cancelReq EXCEPT !["api"][r] = @ \/ (r \in active /\ Live("api", r))]
  /\ AppendEvent(r, "status")
  /\ Emit(r, "run.cancelled")
  /\ ClearSession(r)
  /\ UNCHANGED <<pc, resume, active, lastStatus, server>>

-----------------------------------------------------------------------------
(* The scheduler's child task up to its first await inside execute_run.    *)

DispatchRun(r) ==
  /\ phase = "up"
  /\ r \in SchedRuns
  /\ NewRow(r)
  /\ SetStatus(r, "running")
  /\ pc' = [pc EXCEPT !["sched"][r] = "streaming"]
  /\ UNCHANGED <<events, approvals, notices, cancelReq, resume, active, grants,
                 lastStatus, server>>

\* execute_run raised before its try block: the row is written, the schedule
\* gets its error, nobody touches the run again.
DispatchRunSetupFails(r) ==
  /\ SetupMayFail
  /\ phase = "up"
  /\ r \in SchedRuns
  /\ NewRow(r)
  /\ SetStatus(r, "queued")
  /\ RecordScheduleResult("sched", r, "error")
  /\ UNCHANGED <<events, approvals, notices, tasks, grants, server>>

-----------------------------------------------------------------------------
(* execute_run, driven by k for run r.                                     *)

\* Running(k, r, point): the task's next step is at point and no CancelledError
\* is waiting for it.
Running(k, r, point) == pc[k][r] = point /\ ~cancelReq[k][r]

TaskStart(k, r) ==
  /\ Running(k, r, "created")
  /\ SetStatus(r, "running")
  /\ GoTo(k, r, "streaming")
  /\ UNCHANGED <<events, approvals, notices, grants, lastStatus, server>>

\* runtime_config or the workspace's policy raises outside the try block;
\* runner() only pops the task.
TaskSetupFails(k, r) ==
  /\ SetupMayFail
  /\ Running(k, r, "created")
  /\ EndTask(k, r)
  /\ UNCHANGED <<ledger, grants, lastStatus, server>>

NodeEventsOf(r) == Cardinality({i \in DOMAIN events[r] : events[r][i] = "node"})

StreamEvent(k, r) ==
  /\ Running(k, r, "streaming")
  /\ NodeEventsOf(r) < MaxNodeEvents
  /\ AppendEvent(r, "node")
  /\ UNCHANGED <<status, approvals, notices, tasks, grants, lastStatus, server>>

\* A node thread resumed with `session' remembers the grant while its task waits
\* for it.  The thread does not see that the task is asked to stop.
GrantSession(k, r) ==
  /\ pc[k][r] = "streaming"
  /\ resume[k][r] = "session"
  /\ r \notin grants
  /\ grants' = grants \cup {r}
  /\ UNCHANGED <<ledger, tasks, lastStatus, server>>

FinishInterrupted(k, r) ==
  /\ Running(k, r, "streaming")
  /\ AppendEvent(r, "interrupt")
  /\ SetStatus(r, "interrupted")
  /\ Emit(r, "run.interrupted")
  /\ GoTo(k, r, "pausing")
  /\ UNCHANGED <<approvals, grants, lastStatus, server>>

\* Mutant: the notice is named after the status.
NoticeFromStatus(s) ==
  CASE s = "completed" -> "run.completed"
    [] s = "cancelled" -> "run.cancelled"
    [] OTHER           -> "run.error"

\* The lifecycle notice for a terminal status.
NoticeOf(s) ==
  CASE s = "completed" -> "run.completed"
    [] s = "cancelled" -> "run.cancelled"
    [] OTHER           -> "run.failed"

\* The graph ended: completed, or the status terminal_tool_failure reads from
\* an unsuccessful tool result.
FinishTerminal(k, r, s) ==
  /\ Running(k, r, "streaming")
  /\ AppendEvent(r, "result")
  /\ SetStatus(r, s)
  /\ Emit(r, NoticeOf(s))
  /\ GoTo(k, r, "closing")
  /\ UNCHANGED <<approvals, grants, lastStatus, server>>

GraphRaises(k, r) ==
  /\ Running(k, r, "streaming")
  /\ GoTo(k, r, "raised")
  /\ UNCHANGED <<ledger, grants, lastStatus, server>>

\* Mutant: the finally clause forgets the session grants.
ReturnKeepsGrants(k, r) ==
  /\ \E point \in {"closing", "pausing"} : Running(k, r, point)
  /\ EndTask(k, r)
  /\ RecordScheduleResult(k, r, status[r])
  /\ UNCHANGED <<ledger, grants, server>>

\* Mutant: preserve_session is not looked at.
ReturnDropsGrants(k, r) ==
  /\ \E point \in {"closing", "pausing"} : Running(k, r, point)
  /\ ClearSession(r)
  /\ EndTask(k, r)
  /\ RecordScheduleResult(k, r, status[r])
  /\ UNCHANGED <<ledger, server>>

\* Mutant: dispatch_schedule does not report how the run went.
ReturnUnreported(k, r) ==
  /\ \/ Running(k, r, "closing") /\ ClearSession(r)
     \/ Running(k, r, "pausing") /\ UNCHANGED grants
  /\ EndTask(k, r)
  /\ UNCHANGED <<ledger, lastStatus, server>>

\* The checkpointer is closed and execute_run returns; a paused run keeps its
\* session grants.
Return(k, r) ==
  /\ \/ Running(k, r, "closing") /\ ClearSession(r)
     \/ Running(k, r, "pausing") /\ UNCHANGED grants
  /\ EndTask(k, r)
  /\ RecordScheduleResult(k, r, status[r])
  /\ UNCHANGED <<ledger, server>>

\* Mutant: the handler logs the error and leaves the status alone.
HandleErrorLogsOnly(k, r) ==
  /\ Running(k, r, "raised")
  /\ AppendEvent(r, "error")
  /\ Emit(r, "run.failed")
  /\ ClearSession(r)
  /\ EndTask(k, r)
  /\ RecordScheduleResult(k, r, "error")
  /\ UNCHANGED <<status, approvals, server>>

HandleError(k, r) ==
  /\ Running(k, r, "raised")
  /\ AppendEvent(r, "error")
  /\ SetStatus(r, "error")
  /\ Emit(r, "run.failed")
  /\ ClearSession(r)
  /\ EndTask(k, r)
  /\ RecordScheduleResult(k, r, "error")
  /\ UNCHANGED <<approvals, server>>

\* CancelledError at the await inside the stream: the checkpointer closes next.
\* The node's executor thread is not stopped; one resumed with `session' may
\* still be on its way to approve_session.
CancelStream(k, r) ==
  /\ pc[k][r] = "streaming" /\ cancelReq[k][r]
  /\ GoTo(k, r, "unwinding")
  /\ \/ resume[k][r] = "session" /\ thread' = [thread EXCEPT ![r] = "running"]
     \/ UNCHANGED thread
  /\ UNCHANGED <<ledger, grants, lastStatus, phase, restarts>>

\* That thread stores its grant, before or after the task's finally clause has
\* called clear_session.
LateGrant(r) ==
  /\ thread[r] = "running"
  /\ thread' = [thread EXCEPT ![r] = "stored"]
  /\ grants' = grants \cup {r}
  /\ UNCHANGED <<ledger, tasks, lastStatus, phase, restarts>>

\* A task cancelled before its first step never enters runner(), so nothing
\* takes it out of ACTIVE_RUN_TASKS.
CancelUnstarted(k, r) ==
  /\ pc[k][r] = "created" /\ cancelReq[k][r]
  /\ pc' = [pc EXCEPT ![k][r] = "none"]
  /\ cancelReq' = [cancelReq EXCEPT ![k][r] = FALSE]
  /\ UNCHANGED <<ledger, resume, active, grants, lastStatus, server>>

\* Mutant: the handler of CancelledError does not look at the status first.
HandleCancelBlindly(k, r) ==
  /\ cancelReq[k][r]
  /\ pc[k][r] \in {"unwinding", "closing", "raised", "pausing"}
  /\ ClearSession(r)
  /\ SetStatus(r, "cancelled")
  /\ AppendEvent(r, "status")
  /\ Emit(r, "run.cancelled")
  /\ EndTask(k, r)
  /\ RecordScheduleResult(k, r, "error")
  /\ UNCHANGED <<approvals, server>>

\* The handlers of CancelledError, innermost first: execute_run's, then
\* runner()'s (by then the status is terminal) or dispatch_schedule's, which
\* adds its own error whatever the status.
HandleCancel(k, r) ==
  LET write   == status[r] \notin TerminalStatuses
      fromRun == IF write THEN <<"status">> ELSE <<>>
      fromTop == IF k = "sched" THEN <<"error">> ELSE <<>>
  IN
  /\ cancelReq[k][r]
  /\ \/ pc[k][r] \in {"unwinding", "closing", "raised"} /\ ClearSession(r)
     \/ pc[k][r] = "pausing" /\ UNCHANGED grants
  /\ status' = [status EXCEPT ![r] = IF k = "sched" THEN "error"
                                     ELSE IF write THEN "cancelled" ELSE @]
  /\ events' = [events EXCEPT ![r] = @ \o fromRun \o fromTop]
  /\ IF write THEN Emit(r, "run.cancelled") ELSE UNCHANGED notices
  /\ EndTask(k, r)
  /\ RecordScheduleResult(k, r, "error")
  /\ UNCHANGED <<approvals, server>>

-----------------------------------------------------------------------------
(* The life of the server process.                                         *)

NoTask(k) == \A r \in Runs : ~Live(k, r)

\* A stop signal: no more requests, SchedulerService.stop drains its children.
Shutdown ==
  /\ phase = "up" /\ restarts < MaxRestarts
  /\ phase' = "draining"
  /\ UNCHANGED <<ledger, tasks, grants, lastStatus, thread, restarts>>

\* The children are done: the lifespan closes the sinks and the loop ends.
CloseSinks ==
  /\ phase = "draining" /\ NoTask("sched")
  /\ phase' = "closed"
  /\ UNCHANGED <<ledger, tasks, grants, lastStatus, thread, restarts>>

\* A second signal: uvicorn skips the lifespan's shutdown.
ForceExit ==
  /\ phase = "draining"
  /\ phase' = "forced"
  /\ UNCHANGED <<ledger, tasks, grants, lastStatus, thread, restarts>>

\* asyncio.run cancels the tasks that are left when its main coroutine returns.
CancelTask(k, r) ==
  /\ phase \in {"closed", "forced"}
  /\ Live(k, r) /\ ~cancelReq[k][r]
  /\ cancelReq' = [cancelReq EXCEPT ![k][r] = TRUE]
  /\ UNCHANGED <<ledger, pc, resume, active, grants, lastStatus, server>>

\* A new process: the databases survive, everything in memory is gone.
LoseMemory ==
  /\ restarts < MaxRestarts
  /\ restarts' = restarts + 1
  /\ phase' = "up"
  /\ pc' = [k \in Drivers |-> [r \in Runs |-> "none"]]
  /\ cancelReq' = [k \in Drivers |-> [r \in Runs |-> FALSE]]
  /\ resume' = [k \in Drivers |-> [r \in Runs |-> "none"]]
  /\ active' = {}
  /\ grants' = {}
  /\ thread' = [r \in Runs |-> "none"]
  /\ UNCHANGED lastStatus

Restart ==
  /\ phase \in {"closed", "forced"} /\ \A k \in Drivers : NoTask(k)
  /\ LoseMemory
  /\ UNCHANGED ledger

Crash ==
  /\ LoseMemory
  /\ UNCHANGED ledger

\* Every ledger call is a transaction of its own, so a crash can fall between
\* append_event and set_status, or between set_status and the notice.
Outcome(point, e, s) ==
  \/ point = "streaming" /\ e = "interrupt" /\ s = "interrupted"
  \/ point = "streaming" /\ e = "result" /\ s \in TerminalStatuses
  \/ point = "raised" /\ e = "error" /\ s = "error"

CrashWhileFinishing(k, r, e, s) ==
  /\ ~cancelReq[k][r]
  /\ Outcome(pc[k][r], e, s)
  /\ AppendEvent(r, e)
  /\ UNCHANGED status \/ SetStatus(r, s)
  /\ LoseMemory
  /\ UNCHANGED <<approvals, notices>>

\* A decision and its transition are one transaction; what follows may be lost.
CrashWhileDeciding(r) ==
  /\ phase = "up"
  /\ \/ /\ status[r] = "interrupted"
        /\ ApprovalsOf(r) < MaxApprovals
        /\ RecordDecision(r, "approved")
        /\ SetStatus(r, "running")
     \/ /\ status[r] \notin TerminalStatuses \cup {"absent"}
        /\ RecordDecision(r, "cancelled")
        /\ SetStatus(r, "cancelled")
  /\ LoseMemory
  /\ UNCHANGED <<events, notices>>

-----------------------------------------------------------------------------
\* What the event loop does by itself for one task.
TaskStep(k, r) ==
  \/ TaskStart(k, r)
  \/ TaskSetupFails(k, r)
  \/ StreamEvent(k, r)
  \/ FinishInterrupted(k, r)
  \/ \E s \in TerminalStatuses : FinishTerminal(k, r, s)
  \/ GraphRaises(k, r)
  \/ Return(k, r)
  \/ HandleError(k, r)
  \/ CancelStream(k, r)
  \/ CancelUnstarted(k, r)
  \/ HandleCancel(k, r)

Next ==
  \/ \E r \in Runs : CreateRun(r)
  \/ \E r \in Runs, f \in Feedback \ {"none"} : ApproveRun(r, f)
  \/ \E r \in Runs : CancelRun(r)
  \/ \E r \in Runs : DispatchRun(r)
  \/ \E r \in Runs : DispatchRunSetupFails(r)
  \/ \E k \in Drivers, r \in Runs : TaskStep(k, r)
  \/ \E k \in Drivers, r \in Runs : GrantSession(k, r)
  \/ \E r \in Runs : LateGrant(r)
  \/ Shutdown
  \/ CloseSinks
  \/ ForceExit
  \/ \E k \in Drivers, r \in Runs : CancelTask(k, r)
  \/ Restart
  \/ Crash
  \/ \E k \in Drivers, r \in Runs, e \in EventKinds, s \in Settled :
       CrashWhileFinishing(k, r, e, s)
  \/ \E r \in Runs : CrashWhileDeciding(r)

Spec == Init /\ [][Next]_vars

\* The event loop keeps stepping ready tasks; nobody has to send requests.
Fairness == \A k \in Drivers, r \in Runs : WF_vars(TaskStep(k, r))

FairSpec == Spec /\ Fairness

-----------------------------------------------------------------------------
(* Properties.                                                             *)

\* Once a run of the API is completed, cancelled or in error, its record is
\* closed: no later step of a handler, of its task, of a cancellation that
\* arrives late or of a crash changes its status, its events, its audit trail
\* or its notices.  (execute_run's set_status calls are unconditional.)
TerminalFinal ==
  [][\A r \in ApiRuns : status[r] \in TerminalStatuses =>
        /\ status'[r] = status[r]
        /\ events'[r] = events[r]
        /\ approvals'[r] = approvals[r]
        /\ notices'[r] = notices[r]]_vars

\* Why late steps cannot reopen an API run: which statuses the ledger can show
\* for each point of its task.  Only a task that is being cancelled may be under
\* way with the run already closed; only a pausing task coexists with a run at
\* its gate, or with one that was approved or cancelled there.
ApiTaskInv ==
  \A r \in ApiRuns :
    LET p == pc["api"][r]
        c == cancelReq["api"][r]
    IN  /\ pc["sched"][r] = "none"
        /\ p # "none" => r \in active
        /\ c => p # "none"
        /\ p = "created" => status[r] \in {"queued", "running"} \/ (c /\ status[r] = "cancelled")
        /\ p \in {"streaming", "raised"} => status[r] = "running" \/ (c /\ status[r] = "cancelled")
        /\ p = "unwinding" => c /\ status[r] \in {"running", "cancelled"}
        /\ p = "closing" => status[r] \in TerminalStatuses
        /\ p = "pausing" => status[r] \in {"interrupted", "running", "cancelled"}

\* Subscribers hear of the end of an API run at most once, as the last notice
\* and under the name of the status the ledger shows; while the server lives
\* they always hear of it, whoever of the cancel handler, the task's handlers
\* and the graph's outcome ended the run.
EndAnnouncedOnce ==
  \A r \in ApiRuns :
    /\ \A i \in DOMAIN notices[r] : notices[r][i] \in TerminalNotices =>
          /\ i = Len(notices[r])
          /\ status[r] \in TerminalStatuses
          /\ notices[r][i] = NoticeOf(status[r])
    /\ (status[r] \in TerminalStatuses /\ restarts = 0 /\ phase # "closed")
          => \E i \in DOMAIN notices[r] : notices[r][i] \in TerminalNotices

InterruptsOf(r) == Cardinality({i \in DOMAIN events[r] : events[r][i] = "interrupt"})

\* No run gets past a gate without a decision in the audit trail: whenever a
\* task is about to drive or drives the graph, and whenever a run has completed,
\* each interrupt logged for it was answered by its own `approved' row, even
\* across crashes that lose what follows a decision.
GateNeedsApproval ==
  \A r \in Runs :
    (status[r] = "completed" \/ \E k \in Drivers : pc[k][r] \in {"created", "streaming"})
      => InterruptsOf(r) <= ApprovalsOf(r)

\* `approve for this session' ends with its run: in a serving process a closed
\* run has remembered grants only while a task of it has yet to clean up, or when
\* a node thread that outlived its cancelled task put them back after
\* clear_session.  And no task reads what is left: none that will drive the graph
\* of that run is under way.
NoGrantOutlivesRun ==
  phase \in {"up", "draining"} =>
    \A r \in grants : status[r] \in TerminalStatuses =>
      /\ thread[r] = "stored" \/ \E k \in Drivers : Live(k, r)
      /\ \A k \in Drivers : ~Running(k, r, "created") /\ ~Running(k, r, "streaming")

\* A session grant is not lost while its run is open: the finally clause of one
\* driver may not wipe what a later gate of the same run relies on.
GrantKeptWhileOpen ==
  [][\A r \in grants \ grants' : restarts' # restarts \/ status'[r] \in TerminalStatuses]_vars

\* A run the ledger calls queued or running has a task that will end it.
OpenRunHasTask ==
  \A r \in Runs : status[r] \in {"queued", "running"} => \E k \in Drivers : Live(k, r)

\* Every run that is queued or running comes to rest: interrupted or terminal.
RunSettles ==
  \A r \in Runs : status[r] \in {"queued", "running"} ~> status[r] \in Settled

\* Every dispatched schedule eventually gets a result, and the result is one at
\* which the run had come to rest.
ScheduleReported ==
  \A r \in SchedRuns : Live("sched", r) ~> lastStatus[r] \in Settled

\* What the ledger shows of the API's runs.
Lifecycle == INSTANCE RunLifecycle WITH
               Runs      <- ApiRuns,
               status    <- [r \in ApiRuns |-> status[r]],
               approvals <- [r \in ApiRuns |-> approvals[r]]

\* The service implements the published lifecycle: an API run moves only along
\* its edges, and every resume and every operator's cancel comes with exactly
\* one row of the audit trail, in the same step.
LifecycleSpec == Lifecycle!Spec
=============================================================================
