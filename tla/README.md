# A TLA+ model of Agent OS

Agent OS runs tasks through a LangGraph agent graph behind a Runtime API, with
human approval gates, a run ledger, a scheduler and webhook delivery of lifecycle
events. Around that core are a command line and a browser chat over the same
threads, learning from labelled outcomes, registration of skills and a public
concierge. This directory holds TLA+ models of these parts, the TLC
configurations that check them, and TLAPS proofs of the main results.
`PROJECT.json` maps every definition to the lines it models.

## 1. The system

| Part | State | Operations | Talks to |
|---|---|---|---|
| Run ledger (`runs.py`) | `runs`, `run_events`, `run_approvals` | create, set status, append event, approve or cancel in one transaction | API, executor, scheduler, SSE |
| Run executor (`server/run_executor.py`) | none of its own | `execute_run`: start, stream, pause, finish, error, cancelled | ledger, graph, sinks, session grants |
| Runtime API (`server/api.py`) | `ACTIVE_RUN_TASKS` | create, approve, cancel, stream events, lifespan | ledger, executor, scheduler service |
| Agent graph (`graph.py`, `routing.py`, `nodes/`) | the thread's channels and pending interrupt (checkpointer) | planner, supervisor, dispatcher, architect, human gate, executor | models, tools, policy |
| Policy (`policy.py`, `memory_gate.py`, `permission_store.py`) | session grants in memory, standing rules in sqlite | evaluate, ask, remember, clear | dispatcher, executor |
| Schedules (`schedules.py`, `schedule_recurrence.py`) | one row per schedule | create, remove, enable, claim, record result | scheduler service, CLI |
| Scheduler service (`scheduler.py`) | loop task, child tasks | start, tick, dispatch, stop | schedules, executor, ledger |
| Webhook sink (`webhooks.py`) | bounded queue, worker threads | emit, deliver with retries, close | API, executor, endpoint |
| Sessions and chat (`cli/app.py`, `sessions.py`, `bindings.py`, the websocket of `server/api.py`) | the thread's checkpoint, one session row, each driver's prompt | run, chat, resume, rebind, connect, delete | graph, checkpointer |
| Learning (`observations.py`, `strategies.py`, `skill_candidates.py`) | observations, labels, strategy assignments | select, assign, capture, label, mine | executor, graph input, API, CLI |
| Skill authoring (`skill_authoring.py`, `skill_packages.py`) | requests, staged drafts, `skill-packages/`, `workspace.toml` | brief, submit, cancel, confirm and promote | API, workspace composition |
| Public concierge (`public_concierge.py`, `public_concierge_ai.py`, its endpoint) | rate-limit buckets, sessions, leads | accept or refuse, record, resolve, run Hermes, bind | Hermes process |
| Migrations, connectors, backends, MCP, context, validation, sandbox, tools | configuration and I/O | | |

### What is hard here

Everything of the server runs on one event loop, so the units of interleaving
are stretches of Python between two awaits. The ledger is written by synchronous
calls; the checkpointer is asynchronous. That leaves these difficulties, each a
hazard in `PROJECT.json`:

* a task is still alive after it has written its outcome (the checkpointer's
  `__aexit__` awaits), so handlers meet a run whose status and task disagree;
* `set_status` is unconditional, three handlers can see one cancellation, and a
  run may be driven by an API task and by a scheduler child;
* a crash falls between ledger transactions, or between a claim and its dispatch;
* LangGraph runs an interrupted node again from its first line, and channels of a
  thread survive from one run to the next;
* several `serve` processes claim from one schedule store;
* the SSE generator is suspended between reading rows and reading the status;
* a bounded queue is full when a worker or `close()` needs it;
* endpoints that are plain functions run in threads, and skill registration and
  the concierge take no lock across their steps;
* files and rows are changed in several steps that a crash may separate;
* an operator's answer is applied to a state that may have changed since the
  prompt was shown: another gate, another rule, another driver of the thread.

### What makes each part correct

* Ledger and executor: statuses move along the published lifecycle, a closed run
  stays closed, every gate has its approval, every end is announced once.
* Graph: gated work rests on an operator's approval, of that very brief or call
  unless the code lets another one in its place; every invocation ends; completed means something was done.
* Scheduler: an occurrence is dispatched at most once, the schedule does not
  drift, a due schedule is eventually claimed.
* Event stream: in order, no gap, no duplicate; a request delivers what there was.
* Webhooks: each event is in one place, attempts are bounded, order and drain.
* Policy: nothing is executed without an operator's word that counts for it; a
  denial wins over whoever reads it.
* Sessions: an answer reaches the gate that was shown; a resumed thread keeps its
  backends.
* Learning: only labels teach, more acceptance never hurts, exploration is even.
* Skill authoring: what is registered is there and loads, a failed promotion
  leaves nothing, the workspace can always be composed.
* Concierge: one visitor per conversation, the rate limit, dead sessions expire.

## 2. Modules

| Module | Models | Runs |
|---|---|---|
| `RunService` | ledger, executor, run endpoints, session grants, dispatch of run schedules, process life | `run_safety`, `run_liveness`, `lost_resume` |
| `RunLifecycle` | abstract: the status machine with its audit trail | implemented by `RunService` (`LifecycleSpec`) |
| `RunServiceProofs` | theorems about `RunService` | |
| `EventStream` | `GET /api/runs/{id}/events` against the ledger's writers | `event_stream` |
| `AgentGraph` | graph, routing, gates, channels of one thread | `agent_graph` |
| `AgentGraphProofs` | theorems about `AgentGraph` | |
| `Scheduler` | schedule store, recurrence, several scheduler services | `scheduler` |
| `SchedulerProofs` | theorems about `Scheduler` | |
| `WebhookSink` | the webhook sink | `webhook_sink` |
| `WebhookSinkProofs` | theorems about `WebhookSink` | |
| `PolicyGate` | evaluation, interrupt and resume of a proposed action; rules and session grants | `policy_gate` |
| `PolicyGateProofs` | theorems about `PolicyGate` | |
| `ThreadSessions` | the drivers of one conversation thread: `run`, `chat`, websocket, `session delete` | `thread_sessions` |
| `ThreadSessionsProofs` | theorems about `ThreadSessions` | |
| `SkillAuthoring` | requests for skills, drafts, promotion into the workspace | `skill_authoring` |
| `Learning` | strategy selection, observations, labels, skill candidates | `learning` |
| `SkillProofs` | theorems about `SkillAuthoring` and `Learning` | |
| `PublicConcierge` | chat endpoint, rate limit, session table, Hermes turns | `public_concierge` |
| `EndpointProofs` | theorems about `PublicConcierge` and `EventStream` | |

Two of the proof modules are about two components each, and extend both: the two
endpoints with state of their own, and the two halves of how a workspace learns
(`Learning` mines the candidates that `SkillAuthoring` turns into skills). For that
`EventStream` and `Learning` name their specification after themselves
(`StreamInit`, `StreamNext`, `StreamSpec`, `StreamTypeOK`; `LearningInit` and so on).

`MC*` modules add the values of function-valued constants. Operators whose comment begins
with "Mutant:" are faulty variants of the definition that follows them; no
specification uses them. They document which error each property would notice.

### RunService

One action is one stretch between two awaits. `pc[driver][run]` is the await at
which a task is suspended: `created` (scheduled, not yet run), `streaming`,
`closing` and `pausing` (outcome written, the checkpointer is closing), `raised`,
`unwinding` (a CancelledError is passing through the checkpointer's exit).
`cancelReq` is a cancellation asked for and not yet delivered. The handlers
(`CreateRun`, `ApproveRun`, `CancelRun`) contain no await and are one action each.
The HTTP handlers' second look at the status (a failed conditional UPDATE) cannot
be reached within one process and has no action. `notices` is what was handed to
the sinks; a closed sink drops it. Token and node events of the stream are both
`node`. The graph is external: it streams, then pauses, ends or raises.

Process life: `Shutdown` (drain scheduler children), `CloseSinks`, `ForceExit` (a
second signal skips the lifespan), `CancelTask` (asyncio.run cancels what is
left), `Restart`, `Crash`, and crashes inside a multi-transaction step.

`thread[r]` is a node's executor thread that a cancellation has left behind. asyncio
stops waiting for it and does not stop it, so a dispatcher resumed with `session`
may reach `approve_session` after the task's finally clause has called
`clear_session` (`CancelStream`, `LateGrant`). That grant stays until the process
ends; `NoGrantOutlivesRun` says that this is the only way a grant survives its run,
and that no task which could read it is under way.

Two constants are assumptions on the environment. `ApproveWhileClosing` lets an
approval arrive while the paused task is still closing its checkpointer;
`SetupMayFail` lets `execute_run` raise before its `try`. Safety runs have both
TRUE. `run_liveness` has both FALSE: with either, a run can stay open for ever,
which `lost_resume` shows for the first; the second has no retry in the code.

### EventStream

A run's events are 1..last because `append_event` numbers them `MAX(seq) + 1`.
`AppendEvent` and `SetStatus` are the ledger's writers. Neither looks at the status
it finds: a scheduled run cancelled over HTTP goes on logging after its terminal
status, and `dispatch_schedule` may put another one over it. A yield
suspends the generator until the server has taken the chunk; with uvicorn that
happens under back-pressure, and the ledger may in addition be written by another
process (`agent-os run`), so rows can appear between any two chunks.
`RequestDelivers` is what one request promises. A console that stops at `end` may
miss events (section 3); one that asks again gets what the log had by then.

### AgentGraph

One action is one superstep. `budget` counts the supersteps LangGraph still
grants: with `recursion_limit = 7` the loop has limit + 2, two of which a new
input spends on the input and on START, while a resume has them all. The limit is
looked at before "is there anything left to run", so a graph that ends exactly
with its last superstep is an error as well (`RecursionError`). `okd[r]` records
which prompts were on the screen of run r's operator when they said yes: the
prompt of the run's latest interrupt event. `work` records what gated tools and
the executor did and for whom.

Runs share the thread freely: `StartRun` may begin while another run is at its
gate, and then overwrites its state; `shared` remembers it. When the dispatcher runs
again for an answer the router model is asked again and may choose another call;
`rerouted` collects the gated calls done on the answer to another prompt. `passed`
are the briefs the human gate let through. `OnlyApprovedWork` says what holds in
every case and what holds besides while no runs met at a gate. Answers that leave a standing permission (`session`,
`always_approve`, `always_deny`) are the subject of `PolicyGate`.

### Scheduler

`TickBegins` reads the clock, `TickClaims` is the BEGIN IMMEDIATE transaction; the
clock and other processes move in between. The UPDATE of a claim is
`CoalesceNextRun` on every selected row. A cron schedule is the set of times at
which it fires (uneven, as across a change of daylight saving time). `claims` is a
history variable. The result a dispatch records is in `RunService`.

### WebhookSink

`emit` and `close` run on the event loop and exclude each other; workers are
threads. An attempt may arrive although its answer does not. `close` puts its
sentinels one by one (workers take items in between) and joins with a deadline.
`ProcessExit` may come at any moment: in the shutdown of the server it follows a
`close()` that returned, in time or not; a command of the command line closes no
sink; a process may be killed. The workers are daemon threads and end with it, so
every other action needs the process `Alive`.

### PolicyGate

A call is one `ActionProposal` of a run. An evaluation is two steps: `Look` reads
the store, `Propose` or `Resume` reads the run's grants and decides. `Answer` is the
operator; with it the node runs again from its first line, so the call is evaluated
anew and the answer is looked at (`Decide`) only if approval is still required.
`Decide` writes the store in a transaction of its own. Other calls, revocations and
the end of the run come between any two of these steps; `stale` remembers the calls
whose rule was written or deleted after they read it, `taught` the rows that held an
approval. A read that fails is `unreadable` and counts as no rule, a write that
fails refuses the call.

`LocalEvaluate` keeps the order of `LocalPolicy.evaluate`; `Evaluate` adds the
plugins of `CompositePolicyEngine`. `_stream_pass` of the command line binds the
workspace's policy only if it is a plain `LocalPolicy`, and otherwise a new one in
manual mode on the standalone store: `Replaced`, and through it `Mode`, `Plugins` and
`Slot`. `Engines` are the compositions of the workspace: mode, plugins, and whether
`AGENT_OS_PERMISSIONS_DB` puts all rules into one database. A proposal is its side
effect, its permission key (only memory writes have one) and whether it is one of the
built-in exceptions. The approve and deny counters of a rule decide nothing and are
left out.

### ThreadSessions

One thread, several drivers: processes of the command line and browser
connections. `thread` is the latest checkpoint (in the middle, at a gate, ended)
with its backend binding, `row` the session index. A pass is `Stream` followed by
`PassEnds` or `PassStops`; the nodes inside it are `AgentGraph`'s subject. Gates
are numbered, `answered` pairs the gate that received an answer with the one whose
prompt was shown. `overlapped` remembers that two drivers were there at once: the
code does not exclude that, and the properties that need it say so.
`upsert_session` is two steps because it reads and writes without a transaction.
A session log is never written (see the disagreements), so a chat's exit leaves
the thread alone.

### SkillAuthoring

The endpoints run in threads without a lock. `pc` splits
`confirm_registration` and `promote_and_register` wherever they look at or change
what somebody else can change: row, draft, `skill-packages/`, `workspace.toml`,
the cached composition. A digest stands for the contents. `CheckConfig` and
`Reload` may fail although all packages load (clashing aliases). `Crash` is
possible between any two steps. Updates of a row are unconditional, as in the
code.

### Learning

`SelectRead` reads the labels, `SelectAssign` stores the choice in a later
transaction; runs and labels come in between. Scores are exact fractions
multiplied out, where the code has floating point. `Complete`, `Fail` and
`EndUncaptured` are the ends that do and do not leave an observation; storing one
is best effort. The API and the command line label independently.

### PublicConcierge

A request is one POST in a thread of its own. Tokens and Hermes sessions are
named after the request that opened them. `Purge`, `Reuse`/`Insert` and `Bind` are
separate transactions; `Purge` reads the clock once for both. A browser can only
present tokens that answers have carried (`Issued`). Rate-limit buckets live in
memory and are lost in a `Crash`; the code only filters and counts their
timestamps, so a bucket is a set of `Stamp`s, each named after its request.

## 3. What the runs show

Passing runs:

* `run_safety`: one run, created over HTTP or dispatched by the scheduler (and then
  driven by an API task as well), three approvals, two restarts, everything may
  fail.
  A closed record stays closed (`TerminalFinal`); the reason is `ApiTaskInv`,
  which statuses go with which point of the task. `EndAnnouncedOnce`: one notice
  for the end of a run, under the right name. `GateNeedsApproval`: as many
  `approved` rows as interrupts passed, crashes included. `NoGrantOutlivesRun`,
  `GrantKeptWhileOpen`: session grants live as long as the open run, and one that a
  left-behind thread puts back later is read by nobody.
  `LifecycleSpec`: refinement of `RunLifecycle`.
* `run_liveness`: one API and one scheduled run come to rest; schedules get a
  result.
* `event_stream`: five events, two broken connections, a status that may change back
  and forth. `NoGapNoDuplicate`; `RequestDelivers`: a request delivers every event
  logged before it, later ones arrive or the console is told `end`.
* `agent_graph`: two runs, in turn or beside each other, two gated calls and a free one, three briefs,
  the real limit of seven, a router that answers differently the second time.
* `scheduler`: two processes, an interval and a cron schedule, capacity one, one
  stop or crash.
* `webhook_sink`: two workers, a queue of two, three events, two attempts.
  `RetriesInPlace`: a worker finishes an event, with at most the configured
  attempts, before it takes a later one. `AcceptedIsResolved`: an accepted event is
  delivered or given up, unless the process exits without a `close()` in time.
* `policy_gate`: two calls of a server run and one of a command line run, five
  kinds of proposals, five compositions of the policy, two stores.
  `OnlyAuthorised`: under the policy bound to it, a call goes ahead only if its tier
  and the plugins admit it and, where it changes something, on an operator's word for
  this call, for its key in this run, or stored for its key. `DenyWins`: a rule that
  denies also wins over an answer given before it was taught; it comes too late only
  for a call that read the store before. `StandingAuthority`: a call nobody was asked
  about does not go ahead on a rule revoked before its evaluation or on the grants
  of another run.
* `thread_sessions`: two drivers, three starts, two bindings of which one is valid.
  `AnswerFits`, `ResumedIsBound`, `SocketKeepsGate`, `TurnsNotOvercounted`.
* `skill_authoring`: two requests for the same name or two, two threads, one edit
  of a draft, one crash. `RegisteredIsInstalled`, `InstalledLoads` and
  `ListedIsInstalled` hold across the crash; `AbortLeavesNothing` without one (a
  crash leaves a package that nothing lists). Two promotions at the same time may
  overwrite each other's `workspace.toml`, therefore `overlapped`.
* `learning`: three workflow runs with three strategies. `BalancedExploration`,
  `OnlyLabelsTeach`, `AcceptNeverDemotes`.
* `public_concierge`: three overlapping requests, one with contact details, two
  visitors. `OneVisitorPerSession`, `WindowLimit`, `DeadSessionGivenUp`.

### Disagreements between the code and what its documents say

`lost_resume` (expected violation): an approval during the closing of the paused
task is recorded and never acted on; the run stays `running` without a task.
`findings` quotes the line.

The following were met while modelling. The models take the code's behaviour; the
properties are stated so that they hold next to it.

* Cancelling a run that the scheduler drives does not stop it, and its outcome
  overwrites `cancelled` (`server/run_executor.py:235`;
  `docs/design/v1.7-run-ledger-runtime-api.md:14` "mark run `cancelled` and do not
  resume"). `TerminalFinal` is therefore about runs of the API.
* A failed `tool_result` from the dispatcher's escalation is still in the state
  when the executor succeeds, and the run ends in error
  (`server/run_executor.py:233`; `docs/architecture.md:94`).
* A resumed dispatcher asks the router model again; the answer to one call is
  applied to the other (`nodes/tool_dispatcher.py:105`; `docs/EXTENDING.md:221`
  "Grants access only for the immediate action"). `OnlyApprovedWork` names these calls
  (`rerouted`).
* Two runs may share a thread, a run that starts overwrites the state of one that
  waits, and an approval goes to whatever interrupt the thread holds
  (`server/run_executor.py:198`; `docs/architecture.md:178` "prevents unapproved
  plans from entering the Executor phase"). The plan was then approved, but perhaps
  by the operator of the other run, who was shown another one: `OnlyApprovedWork`
  promises the run's own operator only while not `shared`.
* A session grant stored by a thread that outlives its cancelled task is not cleared
  (`policy.py:156`, `server/run_executor.py:297`; `docs/EXTENDING.md:222` "It is
  cleared when that session ends."). `NoGrantOutlivesRun` says how it comes about
  and that nobody reads it.
* The status is read after a batch that may be older than the last event, and a
  scheduled run goes on logging after a cancellation, so a console that stops at
  `end` can miss events (`server/api.py:783`;
  `docs/design/v1.7-run-ledger-runtime-api.md:15` "a reconnecting console never loses
  events"). `RequestDelivers` is about each request.
* `close()` of the webhook sink drops a sentinel when the queue is full; that
  worker is never stopped, `close()` times out and the exit of the process loses what
  is queued (`webhooks.py:327` against its docstring, "Drain queued webhook events and
  stop background workers.").
* A confirmation or a submission that read the row before a cancellation writes
  over it (`skill_authoring.py:179`, `:331`; `tests/test_skill_authoring.py:184`
  "cancelled request is inert").
* A call the operator rejected is executed if a rule or a grant for its key allows
  it by the time it is evaluated again (`policy.py:422`; `docs/EXTENDING.md:225`
  "Cancels the action execution"). `OnlyAuthorised` then finds the other word.
* Two waiting calls may both read no rule; one teaches `always_deny`, the other
  overwrites it with `always_approve` and is executed (`policy.py:223`, `:534`;
  `docs/EXTENDING.md:224` "Persists a deny rule"). `DenyWins` exempts calls that read
  too early (`stale`), and no others.
* The command line replaces a composed policy with plugins by a plain one on the
  standalone store, so neither the plugins nor the workspace's rules count there
  (`cli/app.py:598`, `:972`; `docs/architecture.md:198` "The CLI graph stream and
  server run executor bind the composed workspace policy").
* The same replacement drops the mode of the workspace; a composed policy in `off`
  mode is manual on the command line.
* A run whose set-up fails before the `try` of `execute_run`, or whose server dies,
  stays queued or running: nothing picks it up (`server/run_executor.py:168`).
* A policy plugin that answers `require_approval` changes nothing
  (`CompositePolicyEngine`; `docs/EXTENDING.md:213` "or require human approval").
* A chat resumed at a gate does not look at the checkpoint after its first answer:
  if the graph pauses again, the next message starts it anew and the gate is gone
  (`cli/app.py:801`; `docs/architecture.md:136`).
* The session log at the end of a chat imports `sessions._get_db`, which does not
  exist; only a warning is printed (`cli/app.py:931`; `CHANGELOG.md:165`). The
  title of a new session is looked for after the pass that created its checkpoint,
  so it is always the default one.

More consequences can be read off the models: a plan approved without the optional
feedback ends in error (`HumanGateRaises`); a thread that has escalated once sends
the next task past the dispatcher, because `StartRun` leaves `escalated` alone; a
console that does not ask again after `end` may miss the run's last events
(`TailBatchDone` reads the status only); and a completed run of a native command
is credited to the default strategy (`SelectUnrecorded`, `Complete`).

### Bounds

Runs are independent in `RunService` (tasks, rows and grants are keyed by run id;
the only shared state is the process), so one run at a time, of either kind,
shows the interleavings of its drivers, and the liveness run has one of each;
three approvals cover approve, pause, approve again and a decision lost by a
crash; two restarts cover a crash after the recovery from a crash. Five
stream events make batches of several rows that grow while they are sent. Three
briefs are plan, replan, and a second run's plan. A clock of three units lets an
interval of two be claimed late, off its grid, and cron times be missed; that any
number of missed intervals is skipped is the lemma `CoalesceAhead`. Three webhook
events overflow a queue of two before a worker wakes up. Two calls of a
server run and one of a command line run are what a grant, a rule and a race of two
answers need; one key is enough because rules and grants of different keys do not
meet, and the five compositions have every mode, every word of a plugin that matters
and both layouts of the stores. The two calls of the server run are interchangeable
(symmetry).
Three starts of two drivers cover a pass that dies, a resume and a third driver;
two gates make an answer that could go to the wrong one. Two requests in two
threads meet in every step of a promotion, and one edit falls between any two
looks at a draft. `MinLabelled` is 1 instead of 5, so three runs reach a winner
with a lead; the other thresholds are the code's, as percentages. Three requests
open a session, resume it and expire it with a TTL of one tick, and exceed a limit
of two in a window of two ticks.

`MaxRuns`, `MaxNodeEvents`, `MaxApprovals`, `MaxRestarts`, `MaxEvents`,
`MaxDrops`, `MaxPlans`, `MaxTime`, `MaxStops`, `MaxStarts`, `MaxGates`, `MaxTurns`
and `MaxEdits` are bounds of the models, and so is the single crash of
`SkillAuthoring` and `PublicConcierge`; `RecursionLimit`, `Capacity`,
`QueueSize`, `MaxRetries`, `MinLabelled` and the like, `Limit`, `Window` and `Ttl`
are parameters of the code. Symmetry is used where the sets' members are
interchangeable, never with a liveness property. Every module states its types in
`TypeOK` (`StreamTypeOK`, `LearningTypeOK`); `run_safety` checks that of `RunService`, and it is proved for
every module. Deadlock checking is off except in
`event_stream`: the other systems stop when the bounds are used up or nobody sends a
request.

### Fairness

* `RunService`: weak fairness for each task's steps: asyncio runs ready
  callbacks in FIFO order, and the graph ends because of its recursion limit. No
  fairness for requests, approvals, shutdown or crashes.
* `EventStream`: the generator is resumed, chunks arrive or the connection breaks
  finitely often, a console whose connection broke asks again. Nobody has to ask
  after `end`.
* `AgentGraph`: an invocation keeps stepping; operators may never answer.
* `Scheduler`: the loop ticks, dispatches end, a stopped server is started again
  by its supervisor. Strong fairness for the claim: it may fail on the lock again
  and again, but not always (30 s of `busy_timeout` against transactions of
  milliseconds).
* `WebhookSink`: while the process lives threads are scheduled, requests have a
  timeout, and `close()` goes on once called; nobody has to call it, and the process
  may exit at any moment.
* `PolicyGate`, `ThreadSessions`, `SkillAuthoring`, `Learning`,
  `PublicConcierge`: none. Everything in them waits for a person, an external
  process or a request, and only safety is checked.

## 4. What is proved

For every set of runs, processes, schedules, drivers, workers, calls, requests and strategies and every
value of the bounds:

| Theorem | Says |
|---|---|
| `RunServiceProofs!TypeCorrect` | `Spec => []TypeOK` |
| `RunServiceProofs!TaskInvariant` | `Spec => []ApiTaskInv` |
| `RunServiceProofs!TerminalIsFinal` | `Spec => TerminalFinal` |
| `RunServiceProofs!Implementation` | `Spec => LifecycleSpec` |
| `RunServiceProofs!GrantsEnd` | `Spec => []NoGrantOutlivesRun` |
| `RunServiceProofs!GrantsLast` | `Spec => GrantKeptWhileOpen` |
| `RunServiceProofs!GatesNeedApproval` | `Spec => []GateNeedsApproval` |
| `RunServiceProofs!EndIsAnnouncedOnce` | `Spec => []EndAnnouncedOnce` |
| `EndpointProofs!StreamTyped` | `StreamSpec => []StreamTypeOK` |
| `EndpointProofs!StreamIsExact` | `StreamSpec => []NoGapNoDuplicate` |
| `EndpointProofs!ConciergeTyped` | `Spec => []TypeOK` |
| `EndpointProofs!ConversationsApart` | `Spec => []OneVisitorPerSession` |
| `EndpointProofs!DeadSessionsEnd` | `Spec => DeadSessionGivenUp` |
| `EndpointProofs!RateIsLimited` | `Spec => []WindowLimit` |
| `AgentGraphProofs!GraphTyped` | `Spec => []TypeOK` |
| `AgentGraphProofs!CompletionIsEarned` | `Spec => []CompletedHasWork` |
| `AgentGraphProofs!WorkIsApproved` | `Spec => []OnlyApprovedWork` |
| `AgentGraphProofs!LimitIsEnough` | `Spec => []LimitOnlyStopsRetries`, if `RecursionLimit >= 6` |
| `PolicyGateProofs!GateTyped` | `Spec => []TypeOK` |
| `PolicyGateProofs!NothingUnauthorised` | `Spec => []OnlyAuthorised` |
| `PolicyGateProofs!DenyAlwaysWins` | `Spec => DenyWins` |
| `PolicyGateProofs!AuthorityStands` | `Spec => StandingAuthority` |
| `ThreadSessionsProofs!ThreadTyped` | `Spec => []TypeOK` |
| `ThreadSessionsProofs!AnswersFit` | `Spec => []AnswerFits` |
| `ThreadSessionsProofs!ResumedStaysBound` | `Spec => []ResumedIsBound` |
| `ThreadSessionsProofs!NoTurnTooMany` | `Spec => []TurnsNotOvercounted` |
| `ThreadSessionsProofs!SocketAnswersGate` | `Spec => SocketKeepsGate` |
| `SchedulerProofs!SchedulerTyped` | `Spec => []TypeOK` |
| `SchedulerProofs!ClaimedOnce` | `Spec => []OncePerOccurrence` |
| `SchedulerProofs!NoDrift` | `Spec => []NextIsFirstFuture` |
| `WebhookSinkProofs!SinkTyped` | `Spec => []TypeOK` |
| `WebhookSinkProofs!EventsInOnePlace` | `Spec => []EachEventOnce` |
| `WebhookSinkProofs!CloseLeavesNothing` | `Spec => []CleanClose` |
| `WebhookSinkProofs!RetriesKeepOrder` | `Spec => []RetriesInPlace` |
| `SkillProofs!AuthoringTypes` | `Spec => []TypeOK` |
| `SkillProofs!RegisteredStays` | `Spec => []RegisteredIsInstalled` |
| `SkillProofs!InstalledAlwaysLoads` | `Spec => []InstalledLoads` |
| `SkillProofs!WorkspaceComposes` | `Spec => []ListedIsInstalled` |
| `SkillProofs!NothingLeftBehind` | `Spec => []AbortLeavesNothing` |
| `SkillProofs!LearningTyped` | `LearningSpec => []LearningTypeOK` |
| `SkillProofs!ExplorationIsEven` | `LearningSpec => []BalancedExploration` |
| `SkillProofs!LabelsAloneTeach` | `LearningSpec => OnlyLabelsTeach` |
| `SkillProofs!AcceptanceIsSafe` | `LearningSpec => AcceptNeverDemotes` |

Assumptions, all evaluated by the TLC runs: `ConstantsAssumption` (API and
scheduled runs are disjoint, bounds are natural numbers), `StreamAssumption`
(bounds), `GraphAssumption` (an action is either gated or free, and none is called
like the dispatcher's other outcomes), `GateAssumption` (every call has a run, only
writes are learned, `None` and `unreadable` are neither keys nor answers),
`ThreadAssumption` and `NoCheckpoint` (`None` is neither a binding nor a
checkpoint), `ScheduleAssumption` (positive intervals, a cron schedule always fires
again, positive capacity), `SinkAssumption` (a finite pool that is not empty,
`max_queue_size` and `max_retries` positive), `AuthoringAssumption` (loadable
versions are versions, `None` is none of the values), `ConciergeAssumption` (a
window that is not empty, natural limits, `None` is neither a visitor nor a
request) and `LearningAssumption` with `NoRow` (finitely many runs and strategies,
the fallback is one of them, thresholds are percentages, a lead is positive, `Unset`
is no row). The recursion limit of the code is 7.

*RunService.* `TerminalFinal` is not inductive: that a late step of a task does
not touch a closed run depends on where the task is. `TypeOK /\ ApiTaskInv` is
inductive. It says that a task under way coexists with a closed run only if its
cancellation has been asked for, so the writes of `TaskStart`, `FinishTerminal`
and `HandleError`, which need `~cancelReq`, never meet one, and `HandleCancel`
looks at the status first. The refinement uses the same invariant: each action
is an edge of the abstract machine on one run (`LedgerStep`) or leaves the API
runs' ledger alone (`LedgerStutter`). The grants need both drivers of a run, the
API task and the scheduler's child: `DriversInv` says where each may be, and
`GrantsInv` which driver is still to clear a grant of a closed run, or that a thread
left behind has stored it.
`GateNeedsApproval` counts entries of the audit trail; `GatesInv` says that a run at
its gate is at most one approval short and a run whose graph goes on is not, and `CountAppend` and
its companions what an append does to a count. `EndAnnouncedOnce` is inductive
beside `ApiTaskInv`.

*EventStream.* The property speaks of what the console has and what is in flight;
the next chunk continues both because of the generator's cursor (`CursorInv`), and
a new request may start from an empty wire because `end` is the last chunk and
follows the return of the generator (`WireInv`, `QuietInv`).

*AgentGraph.* `GraphInv` has two halves. `SharedInv` holds whoever shares the
thread: `NodeInv` says what the channels hold before each node, `PassedInv` that an
approval in the state was given at the gate of the brief in the state, `AskedInv` that
one on its way was given by the caller's operator, `SuccessInv` that results come from
some run. `ThreadInv` holds while no run has started beside one at its gate:
`OwnerInv` says that a run that is not over is the thread's caller; `GateInv` that the
saved interrupt is the one the caller's operator was shown and belongs to the node
that will run again; `AnswerInv` and `ConsentInv` that an approval, on its way or in
the state, is one of that brief or call; `ResultInv` that the results in the state
are the caller's own. The recursion limit is a ranking argument: `Need` is the
number of supersteps from a node to the end or to the next interrupt if the
executor does not fail, it falls by one with every node, and `BudgetInv` says that
the budget is never below it.

*PolicyGate.* `GrantInv`, `RuleInv` and `SeenInv` trace what the session, the stores
and an evaluation under way hold to a word that was given, `AuthorityInv` gives every
call that goes ahead one of these. `DecidingInv` carries what an evaluation found
over to the step that takes the answer. For `DenyWins` and `StandingAuthority`,
`FreshInv` says that an evaluation holds the rule that stands, unless that was
changed since or could not be read; the rest follows from the step that lets a call
go.

*ThreadSessions.* As long as no two drivers overlapped there is one (`OneDriver`),
its prompt is the pending gate (`PromptInv`) and the checkpoint has its binding
(`BoundInv`). The turn count holds with overlaps too: `CountInv` leaves room for
every chat that has finished a turn and not yet written it, both above the row and
above what that chat has read of it, so two chats that count at once lose a turn
and never invent one.

*Scheduler.* `OncePerOccurrence` speaks of neighbouring claims; what makes the
next claim safe is `Ahead`: `next_run_at` lies after the occurrence and after the
moment of the latest claim, and only rows that exist have claims. `CoalesceAhead`
is the arithmetic: `coalesce_next_run` is strictly after `now` on the interval's
grid and for cron. Because a claim with an old `now` finds the row not due, the
order in which processes get the lock does not matter. For `NextIsFirstFuture`,
`GridInv` says that `next_run_at` is a multiple of the interval away from the
creation, after the latest claim and by no more than one interval, or the next
cron time; `MultiplesApart` makes that the first such moment.

*WebhookSink.* `PlaceInv` keeps the places of an event apart, `OrderInv` says that
the queue is first in, first out with the sentinels behind the events and
everything taken off it older than what is still there, `ArrivalInv` that each
attempt of a worker posts once. `CleanClose` rests on a count: the sentinels in
the queue, those still to be put and the workers that have ended never exceed the
pool (`SentinelsFit`), so when all workers have ended there is none left, and no
event either, because a worker ends only on a sentinel.

*SkillAuthoring.* What the properties leave out is ownership. From the move to
the end of its handlers a thread owns the destination (`Owning`); `IInv` says that
the package is there, that nobody else owns it (`Holds`), that no registered
request has it (`Released`), that the copy was loaded before it is moved
(`CopyLoads`) and that served requests have a brief (`Briefed`). Only `Move` gains
a destination, only `RemoveMoved` and `MarkRegistered` give it up, and every other
step satisfies `OwnersKept` and `RegisteredKept`. For `ListedIsInstalled`,
`ListInv` adds what the one promoting thread knows of `workspace.toml`: the text it
read, which does not list its package, or that text with the package. For
`AbortLeavesNothing`, `LeftInv` says that what is installed and not listed is owned
by a thread.

*PublicConcierge.* `OneVisitorPerSession` speaks of what a Hermes session has
heard; what keeps the next message out is what the table and the requests under way
hold. `SessionInv` follows the identity of the visitor through them: a row belongs
to the visitor of the request that inserted it, and so does the Hermes session
bound to it (`RowInv`); a request holds only tokens and sessions of its own visitor,
between its transactions too (`HeldInv`); and everybody a session has heard is the
visitor of the request that opened it (`HeardInv`). `RowInv` also says that a row is
never newer than its session's last answer, which gives `DeadSessionGivenUp`: a
failed turn reads the row and does not renew it. `WindowLimit` counts requests, the
code counts what it has kept of a bucket. `RateInv` says that every request accepted
in the window that ends now still has its stamp, so requests of that window inject
into the bucket and number at most `Limit` before the next one is let in. A window
that begins at any other moment only grows while it contains the present, and then
the requests in it lie in the window that ends now.

*Learning.* `PhaseInv` says when a run may have a row, a hint or an observation.
`BalancedExploration` is then inductive: rows are only added, an exploring run adds
to a strategy with the fewest, and a row of any other kind ends the promise.
`OnlyLabelsTeach` needs that what a run's end captures is unlabelled
(`NewsIsUnlabelled`), so the sets behind every count stay as they are
(`CountsStay`). `AcceptNeverDemotes` is arithmetic over exact fractions: an
acceptance, new or in place of another label, adds points and does not lower the
score (`AcceptCounts`, `Better`), a score that grew keeps its lead over every
other strategy (`ScoreGrows`, `LeadGrows`), and because a positive lead cannot be
mutual (`LeadIsOneWay`) there is one winner at a time (`OneWinner`) and the old one
stays it.

Only model-checked: the liveness properties `RunSettles`, `ScheduleReported`,
`RequestDelivers`, `InvocationEnds`, `DueIsClaimed` and `AcceptedIsResolved`
(fairness and ENABLED are beyond the prover). Every invariant and every action
property of the passing runs is proved. What a recursive definition computes for
every input could not be proved either; the models have none.

## 5. Not modelled

Payloads, wording, ids, timestamps and actors; signing and address validation of
webhooks; the retry and fallback of model backends (an answer, or an exception);
concurrent invocations on one thread, which LangGraph does not order (the graph
module takes invocations one at a time); node threads that outlive a cancelled
task, except for the session grant they may store. Brief and callback schedules
simply end. Several processes on one ledger (`agent-os run` beside `serve`) only
meet in `EventStream` and `ThreadSessions`. Text of briefs, prompts, answers and
notes; vault files and search of the connectors; backends' processes; migrations,
which run once at start under one sqlite lock; the update check; parsing of
arguments and configuration, except that a workspace composes or does not. `stores/sqlite_schedules.py` passes `now_utc=` to a function
whose parameter is `now`; nothing in the server calls it, so it is not in the
model.

## 6. Plan

1. `PolicyGate` composed with `AgentGraph` in place of `PolicyAsks`,
   `PolicyDenies` and `PolicyAnswered`.
2. `Dispatch`: brief and app_callback schedules, run-once, overlapping dispatches
   and their results.
3. `Migrations`: versions, backup, crash and rerun.
