----------------------------- MODULE AgentGraph -----------------------------
(***************************************************************************)
(* The agent graph on one LangGraph thread: the nodes and edges of          *)
(* agent_os/graph.py, route_from_state, the three-tier dispatcher, the      *)
(* policy gate in front of a tool, the human gate in front of the executor,  *)
(* and how execute_run turns the end of an invocation into the status of   *)
(* the run that asked for it.                                              *)
(*                                                                         *)
(* One action is one superstep: a node runs to its end, or to interrupt(),  *)
(* and the checkpointer saves what it returned.  On resume LangGraph runs   *)
(* the interrupted node again from its first line.  Several runs may use    *)
(* one thread; invocations are taken one at a time.  Models, tools and the  *)
(* operators are external and answer anything.                             *)
(***************************************************************************)
EXTENDS Naturals, FiniteSets

CONSTANTS Runs,            \* runs that share the thread
          GatedActions,    \* tool calls the policy gates (memory_write to a ref)
          FreeActions,     \* tool calls it does not
          RecursionLimit,  \* DEFAULT_RECURSION_LIMIT
          MaxPlans         \* bound: briefs the architect writes on the thread

ASSUME GraphAssumption ==
  /\ GatedActions \cap FreeActions = {}
  /\ RecursionLimit \in Nat \ {0}
  /\ MaxPlans \in Nat
  /\ {"malformed", "unclear", "escalate", "fault"} \cap (GatedActions \cup FreeActions) = {}

Actions == GatedActions \cup FreeActions

\* What a task asks of the dispatcher: a native command (tier 1), one that does
\* not parse, or text only the router model can classify.
Requests == Actions \cup {"malformed", "unclear"}

\* What an operator can send as feedback; `empty' is a request without any.  (The
\* answers that leave a standing permission behind, `session' and `always_...',
\* are not among them: GatedActions have none.)
Answers == {"approved", "rejected", "empty", "other"}

Nodes == {"planner", "supervisor", "tool_dispatcher", "architect", "human_gate",
          "executor"}

\* What a gate shows: brief number n, or a tool call.
Prompts == [kind : {"plan"}, what : 1..MaxPlans] \cup [kind : {"policy"}, what : GatedActions]
NoPrompt == [kind |-> "none", what |-> 0]

NoPlan == 0
NoRun  == "no run"

VARIABLES plan,       \* number of the ArchitectBrief in state, NoPlan for text
          execOut,    \* status of executor_output
          feedback,   \* human_feedback
          escalated,  \* router_escalated
          toolResult, \* tool_result: none, ok, or its unsuccessful outcome
          request,    \* task
          node,       \* the thread's next node, `end' when there is none
          pending,    \* the interrupt saved with the thread's next node
          busy,       \* an invocation of the graph is under way
          caller,     \* the run execute_run drives
          budget,     \* supersteps this invocation still has
          answer,     \* feedback of the latest approval
          fresh,      \* that feedback has not been consumed by a gate
          plans,      \* briefs written so far
          status,     \* ledger: status of each run
          prompt,     \* ledger: latest interrupt event of each run
          okd,        \* prompts the operators approved, by run
          work,       \* gated work that was done: who asked, what it was
          outcomes,   \* what tools and executors reported, by run
          failure,    \* why the latest invocation raised
          passed,     \* history: briefs the human gate let through
          rerouted,   \* history: gated calls done on an answer to another prompt
          shared      \* history: a run started while another was at its gate

vars == <<plan, execOut, feedback, escalated, toolResult, request, node, pending,
          busy, caller, budget, answer, fresh, plans, status, prompt, okd, work,
          outcomes, failure, passed, rerouted, shared>>
channels == <<plan, execOut, feedback, escalated, toolResult>>
ledger   == <<status, prompt, okd>>
history  == <<work, outcomes, passed, rerouted, shared>>

TypeOK ==
  /\ plan \in 0..MaxPlans
  /\ execOut \in {"none", "completed", "failed"}
  /\ feedback \in {"none", "approved", "rejected"}
  /\ escalated \in BOOLEAN
  /\ toolResult \in {"none", "ok", "failed", "cancelled"}
  /\ request \in Requests
  /\ node \in Nodes \cup {"end"}
  /\ pending \in Prompts \cup {NoPrompt}
  /\ busy \in BOOLEAN
  /\ caller \in Runs \cup {NoRun}
  /\ budget \in 0..RecursionLimit + 2
  /\ answer \in Answers
  /\ fresh \in BOOLEAN
  /\ plans \in 0..MaxPlans
  /\ status \in [Runs -> {"new", "running", "interrupted", "completed", "error", "cancelled"}]
  /\ prompt \in [Runs -> Prompts \cup {NoPrompt}]
  /\ okd \in [Runs -> SUBSET Prompts]
  /\ work \in SUBSET [by : Runs, what : Prompts]
  /\ outcomes \in SUBSET (Runs \X {"tool ok", "executor completed", "executor failed"})
  /\ failure \in {"none", "limit", "node"}
  /\ passed \in SUBSET (0..MaxPlans)
  /\ rerouted \in SUBSET [by : Runs, what : Prompts]
  /\ shared \in BOOLEAN

Init ==
  /\ plan = NoPlan
  /\ execOut = "none"
  /\ feedback = "none"
  /\ escalated = FALSE
  /\ toolResult = "none"
  /\ request = "unclear"
  /\ node = "end"
  /\ pending = NoPrompt
  /\ busy = FALSE
  /\ caller = NoRun
  /\ budget = 0
  /\ answer = "approved"
  /\ fresh = FALSE
  /\ plans = 0
  /\ status = [r \in Runs |-> "new"]
  /\ prompt = [r \in Runs |-> NoPrompt]
  /\ okd = [r \in Runs |-> {}]
  /\ work = {}
  /\ outcomes = {}
  /\ failure = "none"
  /\ passed = {}
  /\ rerouted = {}
  /\ shared = FALSE

-----------------------------------------------------------------------------
(* Invocations.                                                            *)

\* The loop of LangGraph runs recursion_limit + 2 supersteps, of which a new input
\* and START take two; a resume has them all for nodes.
Invoke(r, first, supersteps) ==
  /\ busy' = TRUE
  /\ caller' = r
  /\ budget' = supersteps
  /\ node' = first
  /\ status' = [status EXCEPT ![r] = "running"]
  /\ failure' = "none"

\* execute_run with initial_state: the listed channels are overwritten,
\* router_escalated and tool_result keep what the thread had, and a pending
\* interrupt is dropped with the superstep it belonged to.  Nothing looks whether
\* another run of the thread waits at its gate.
StartRun(r, q) ==
  /\ ~busy
  /\ status[r] = "new"
  /\ Invoke(r, "planner", RecursionLimit)
  /\ plan' = NoPlan /\ execOut' = "none" /\ feedback' = "none"
  /\ request' = q
  /\ pending' = NoPrompt
  /\ fresh' = FALSE
  /\ shared' = (shared \/ \E other \in Runs : status[other] = "interrupted")
  /\ UNCHANGED <<escalated, toolResult, answer, plans, prompt, okd, work, outcomes, passed,
                 rerouted>>

\* POST /approve: the operator has the prompt of the run's latest interrupt
\* event in front of them; Command(resume=...) goes to the thread.
ResumeRun(r, a) ==
  /\ ~busy
  /\ status[r] = "interrupted"
  /\ Invoke(r, node, RecursionLimit + 2)
  /\ answer' = a /\ fresh' = TRUE
  /\ okd' = [okd EXCEPT ![r] = IF a = "approved" THEN @ \cup {prompt[r]} ELSE @]
  /\ UNCHANGED <<channels, request, pending, plans, prompt, history>>

\* Mutant: the graph is invoked without its recursion limit.
AdvanceUnlimited(n, to) ==
  /\ busy /\ node = n
  /\ node' = to
  /\ pending' = NoPrompt
  /\ fresh' = FALSE
  /\ UNCHANGED <<request, busy, caller, budget, answer, prompt, okd, status, failure>>

\* A node ran and returned; whatever is left of the feedback goes with its
\* superstep.
Advance(n, to) ==
  /\ busy /\ node = n
  /\ budget > 0
  /\ node' = to
  /\ budget' = budget - 1
  /\ pending' = NoPrompt
  /\ fresh' = FALSE
  /\ UNCHANGED <<request, busy, caller, answer, prompt, okd, status, failure>>

\* interrupt(): the superstep is saved with its prompt and execute_run writes
\* the interrupt event and the status.
Interrupt(n, p) ==
  /\ busy /\ node = n
  /\ budget > 0
  /\ pending' = p
  /\ busy' = FALSE
  /\ status' = [status EXCEPT ![caller] = "interrupted"]
  /\ prompt' = [prompt EXCEPT ![caller] = p]
  /\ UNCHANGED <<channels, request, node, caller, budget, answer, fresh, plans, okd,
                 history, failure>>

\* A node raised: nothing it did is saved, the run is in error.
Raise(n) ==
  /\ busy /\ node = n
  /\ budget > 0
  /\ busy' = FALSE
  /\ status' = [status EXCEPT ![caller] = "error"]
  /\ failure' = "node"
  /\ UNCHANGED <<channels, request, node, pending, caller, budget, answer, fresh,
                 plans, prompt, okd>>

\* GraphRecursionError: the budget is looked at before the question whether any
\* node is left to run, so a graph that ends with its last superstep fails too.
RecursionError ==
  /\ busy /\ budget = 0
  /\ busy' = FALSE
  /\ status' = [status EXCEPT ![caller] = "error"]
  /\ failure' = "limit"
  /\ UNCHANGED <<channels, request, node, pending, caller, budget, answer, fresh,
                 plans, prompt, okd, history>>

\* Mutant: every graph that ends counts as completed.
FinishCompleted ==
  /\ busy /\ node = "end"
  /\ budget > 0
  /\ busy' = FALSE
  /\ status' = [status EXCEPT ![caller] = "completed"]
  /\ UNCHANGED <<channels, request, node, pending, caller, budget, answer, fresh,
                 plans, prompt, okd, history, failure>>

\* The graph has ended: terminal_tool_failure reads the thread's tool_result.
Finish ==
  /\ busy /\ node = "end"
  /\ budget > 0
  /\ busy' = FALSE
  /\ status' = [status EXCEPT ![caller] =
                  CASE toolResult = "failed"    -> "error"
                    [] toolResult = "cancelled" -> "cancelled"
                    [] OTHER                    -> "completed"]
  /\ UNCHANGED <<channels, request, node, pending, caller, budget, answer, fresh,
                 plans, prompt, okd, history, failure>>

-----------------------------------------------------------------------------
(* The nodes.                                                              *)

\* The planner puts the task into plan unless a brief is there.
Planner ==
  /\ Advance("planner", "supervisor")
  /\ UNCHANGED <<channels, plans, history>>

\* Mutant: router_escalated is not looked at.
RouteIgnoresEscalation ==
  CASE execOut = "completed"  -> "end"
    [] execOut # "completed" /\ feedback = "approved" -> "executor"
    [] execOut # "completed" /\ feedback = "rejected" -> "architect"
    [] execOut # "completed" /\ feedback = "none" /\ plan # NoPlan -> "end"
    [] OTHER -> "tool_dispatcher"

\* route_from_state, in its order of precedence, as the node it maps to.  (Text
\* in executor_output, which only old checkpoints hold, also ends the graph.)
Route ==
  CASE execOut = "completed"  -> "end"
    [] execOut # "completed" /\ feedback = "approved" -> "executor"
    [] execOut # "completed" /\ feedback = "rejected" -> "architect"
    [] execOut # "completed" /\ feedback = "none" /\ plan # NoPlan -> "end"
    [] execOut # "completed" /\ feedback = "none" /\ plan = NoPlan /\ escalated -> "architect"
    [] OTHER -> "tool_dispatcher"

Supervisor ==
  /\ Advance("supervisor", Route)
  /\ UNCHANGED <<channels, plans, history>>

\* What tier 1 or the router model makes of the task when the dispatcher runs:
\* a tool call, `escalate' (no tool or low confidence) or `fault' (the parser or
\* the model raised).  The model is asked anew when the node runs again for an
\* answer, and may say something else than before.
Decision(d) ==
  CASE request = "malformed" -> d = "fault"
    [] request = "unclear"   -> d \in Actions \cup {"escalate", "fault"}
    [] OTHER                 -> d = request

\* _escalate(): back to the supervisor; an error leaves a failed tool_result.
Escalate(fault) ==
  /\ Advance("tool_dispatcher", "supervisor")
  /\ escalated' = TRUE
  /\ toolResult' = IF fault THEN "failed" ELSE toolResult
  /\ UNCHANGED <<plan, execOut, feedback, plans, history>>

\* _invoke_skill() returned: the result goes straight to END.
ToolDone(outcome, newWork) ==
  /\ Advance("tool_dispatcher", "end")
  /\ escalated' = FALSE
  /\ toolResult' = outcome
  /\ work' = work \cup newWork
  /\ rerouted' = rerouted \cup {w \in newWork : w.what # pending}
  /\ outcomes' = IF outcome = "ok" THEN outcomes \cup {<<caller, "tool ok">>} ELSE outcomes
  /\ UNCHANGED <<plan, execOut, feedback, plans, passed, shared>>

DispatcherEscalates == \E d \in {"escalate", "fault"} : Decision(d) /\ Escalate(d = "fault")

\* The handler runs without asking: it succeeds, reports a failure or raises.
FreeTool ==
  \E a \in FreeActions :
    /\ Decision(a)
    /\ \/ \E outcome \in {"ok", "failed"} : ToolDone(outcome, {})
       \/ Escalate(TRUE)

\* apply_policy: require_approval interrupts on the first pass ...
PolicyAsks ==
  \E a \in GatedActions :
    /\ Decision(a) /\ ~fresh
    /\ Interrupt("tool_dispatcher", [kind |-> "policy", what |-> a])

\* ... a denial, or a connector without the mode, needs no answer and does not
\* look at one ...
PolicyDenies ==
  \E a \in GatedActions : Decision(a) /\ ToolDone("failed", {})

Write(a) == [by |-> caller, what |-> [kind |-> "policy", what |-> a]]

\* Mutant: whatever is not a rejection is an approval.
PolicyTakesAnyAnswer ==
  \E a \in GatedActions :
    /\ Decision(a) /\ fresh
    /\ IF answer # "rejected"
       THEN \E outcome \in {"ok", "failed", "cancelled"} : ToolDone(outcome, {Write(a)})
       ELSE ToolDone("cancelled", {})

\* ... and the answer lets the write happen once or cancels it.  The write may be
\* refused by the connector or raise.
PolicyAnswered ==
  \E a \in GatedActions :
    /\ Decision(a) /\ fresh
    /\ IF answer = "approved"
       THEN \/ \E outcome \in {"ok", "failed", "cancelled"} : ToolDone(outcome, {Write(a)})
            \/ Escalate(TRUE)
       ELSE ToolDone("cancelled", {})

\* The architect writes a new brief; human_feedback and executor_output stay.
Architect ==
  /\ plans < MaxPlans
  /\ Advance("architect", "human_gate")
  /\ plans' = plans + 1
  /\ plan' = plans + 1
  /\ UNCHANGED <<execOut, feedback, escalated, toolResult, history>>

ArchitectFails == Raise("architect") /\ UNCHANGED history

\* get_router_mode() refuses an unknown ROUTER_MODE.
DispatcherFails ==
  /\ request = "unclear"
  /\ Raise("tool_dispatcher")
  /\ UNCHANGED history

HumanGateAsks ==
  /\ ~fresh
  /\ plan # NoPlan
  /\ Interrupt("human_gate", [kind |-> "plan", what |-> plan])

\* normalize_human_feedback accepts an approval or a rejection ...
HumanGateAnswered ==
  /\ fresh
  /\ answer \in {"approved", "rejected"}
  /\ Advance("human_gate", "supervisor")
  /\ feedback' = answer
  /\ passed' = IF answer = "approved" THEN passed \cup {plan} ELSE passed
  /\ UNCHANGED <<plan, execOut, escalated, toolResult, plans, work, outcomes, rerouted, shared>>

\* ... and raises ValueError on everything else.
HumanGateRaises ==
  /\ fresh
  /\ answer \notin {"approved", "rejected"}
  /\ Raise("human_gate")
  /\ UNCHANGED history

Did == [by |-> caller, what |-> [kind |-> "plan", what |-> plan]]

\* The executor works on the brief in state, with a fallback backend if the
\* first one is out of quota, and reports success or failure ...
Executor(outcome) ==
  /\ plan # NoPlan
  /\ Advance("executor", "supervisor")
  /\ execOut' = outcome
  /\ work' = work \cup {Did}
  /\ outcomes' = outcomes \cup {<<caller, IF outcome = "completed" THEN "executor completed"
                                         ELSE "executor failed">>}
  /\ UNCHANGED <<plan, feedback, escalated, toolResult, plans, passed, rerouted, shared>>

\* ... or raises, possibly with part of the work done; without a brief, at once.
ExecutorFails ==
  /\ Raise("executor")
  /\ work' = IF plan # NoPlan THEN work \cup {Did} ELSE work
  /\ UNCHANGED <<outcomes, passed, rerouted, shared>>

-----------------------------------------------------------------------------
Step ==
  \/ Planner
  \/ Supervisor
  \/ DispatcherEscalates
  \/ FreeTool
  \/ PolicyAsks
  \/ PolicyDenies
  \/ PolicyAnswered
  \/ Architect
  \/ ArchitectFails
  \/ DispatcherFails
  \/ HumanGateAsks
  \/ HumanGateAnswered
  \/ HumanGateRaises
  \/ \E outcome \in {"completed", "failed"} : Executor(outcome)
  \/ ExecutorFails
  \/ RecursionError
  \/ Finish

Next ==
  \/ \E r \in Runs, q \in Requests : StartRun(r, q)
  \/ \E r \in Runs, a \in Answers : ResumeRun(r, a)
  \/ Step

Spec == Init /\ [][Next]_vars

\* The event loop drives an invocation; operators may stay away.
FairSpec == Spec /\ WF_vars(Step)

-----------------------------------------------------------------------------
(* Properties.                                                             *)

\* Gated work is done only with an operator's consent.  Whatever shares the
\* thread, the executor executes only a brief the human gate let through on an
\* approval that came after it (a brief that was replaced after a rejection does
\* not pass on its predecessor's), and a gated tool call is done only for a run
\* whose operator approved something.  While no run started with another one at
\* its gate, work rests on the approval of that very brief or call, shown to an
\* operator of that very run; the one exception is a call the router model chose
\* anew when the dispatcher ran again for the answer, which rests on the approval
\* of the call shown instead.
OnlyApprovedWork ==
  \A w \in work :
    /\ IF w.what.kind = "plan" THEN w.what.what \in passed ELSE okd[w.by] # {}
    /\ ~shared => IF w \in rerouted THEN \E p \in okd[w.by] : p.kind = "policy"
                                    ELSE w.what \in okd[w.by]

\* The recursion limit of seven stops retries of a failing executor only: a
\* task that escalates, is planned, rejected, replanned, approved and executed
\* never runs into it.
LimitOnlyStopsRetries == failure = "limit" => <<caller, "executor failed">> \in outcomes

\* A run is completed only if a tool or the executor succeeded on its thread; it
\* was the run's own while no run started with another one at its gate.
CompletedHasWork ==
  \A r \in Runs : status[r] = "completed" =>
    \E o \in {"tool ok", "executor completed"} :
      \E by \in IF shared THEN Runs ELSE {r} : <<by, o>> \in outcomes

\* Every invocation comes to an end: no loop of supervisor, architect and
\* executor outlives the recursion limit.
InvocationEnds == busy ~> ~busy

=============================================================================
