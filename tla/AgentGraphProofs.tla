-------------------------- MODULE AgentGraphProofs --------------------------
(***************************************************************************)
(* Theorems about AgentGraph, for every set of runs and tool calls, every   *)
(* number of briefs and every recursion limit that their statements allow. *)
(***************************************************************************)
EXTENDS AgentGraph, TLAPS

-----------------------------------------------------------------------------
(* The inductive invariant.                                                *)

\* An invocation has a caller, and an interrupted run has a prompt to answer.
CallerInv ==
  /\ busy => caller \in Runs
  /\ \A r \in Runs : status[r] = "interrupted" => prompt[r] \in Prompts

TypeInv == TypeOK /\ CallerInv

\* The thread stands at a gate for its latest caller.
Waiting == ~busy /\ caller \in Runs /\ status[caller] = "interrupted"

\* What the thread holds belongs to its caller.
Live == busy \/ Waiting

\* While no run has started beside one at its gate, a run that is not over is the
\* thread's caller.
OwnerInv ==
  /\ busy => status[caller] = "running"
  /\ \A r \in Runs : status[r] \in {"running", "interrupted"} => caller = r
  /\ \A r \in Runs : status[r] = "running" => busy

\* What the channels hold when the thread stands before a node, whoever left it
\* there and whoever finds it.
NodeInv ==
  /\ node = "planner" => execOut = "none" /\ feedback = "none" /\ plan = NoPlan
  /\ node = "supervisor" => (feedback = "none" => plan = NoPlan)
  /\ node = "tool_dispatcher" => feedback = "none" /\ plan = NoPlan
  /\ node = "architect" => feedback # "approved"
  /\ node = "human_gate" => feedback # "approved" /\ plan # NoPlan
  /\ node = "executor" => feedback = "approved"

\* An approval in state was given at the gate of the brief in state ...
PassedInv == feedback = "approved" => plan \in passed

\* ... and one on its way to a gate was given by the caller's operator.
AskedInv == busy /\ fresh /\ answer = "approved" => okd[caller] # {}

\* A success in state is some run's, and a thread that was used does not stand at
\* the end of the graph without a result.
SuccessInv ==
  /\ execOut = "completed" => \E by \in Runs : <<by, "executor completed">> \in outcomes
  /\ toolResult = "ok" => \E by \in Runs : <<by, "tool ok">> \in outcomes
  /\ node = "end" => \/ execOut = "completed" \/ toolResult # "none"
                     \/ ~busy /\ \A r \in Runs : status[r] = "new"

\* Only tool calls are chosen anew.
ReroutedInv == \A w \in rerouted : w.what.kind = "policy"

\* What holds of the thread whoever shares it.
SharedInv == NodeInv /\ PassedInv /\ AskedInv /\ SuccessInv /\ ReroutedInv

PlanPrompt == [kind |-> "plan", what |-> plan]

\* The saved interrupt is the one the caller's operator was shown, and belongs to
\* the node that will run again: the brief in state, or the tool call the task
\* names.
GateInv ==
  Waiting \/ (busy /\ fresh) =>
    /\ pending = prompt[caller]
    /\ \/ node = "human_gate" /\ pending = PlanPrompt
       \/ /\ node = "tool_dispatcher"
          /\ pending.kind = "policy"
          /\ request # "unclear" => pending.what = request

\* An approval on its way to a gate is one of the prompt saved there.
AnswerInv == busy /\ fresh /\ answer = "approved" => pending \in okd[caller]

\* The feedback in state speaks of the brief in state.
ConsentInv == Live /\ feedback = "approved" => PlanPrompt \in okd[caller]

\* The results in state are the caller's own.
ResultInv ==
  Live => /\ execOut = "completed" => <<caller, "executor completed">> \in outcomes
          /\ execOut = "failed" => <<caller, "executor failed">> \in outcomes
          /\ node = "end" => \/ execOut = "completed"
                             \/ toolResult \in {"failed", "cancelled"}
                             \/ <<caller, "tool ok">> \in outcomes

\* Supersteps the invocation may still need, to its end or to its next interrupt,
\* if the executor does not fail.
Need ==
  IF node = "planner" THEN 6
  ELSE IF node = "supervisor"
       THEN IF execOut = "completed" THEN 2
            ELSE IF feedback = "approved" THEN 4
            ELSE IF feedback = "rejected" \/ escalated THEN 3 ELSE 5
  ELSE IF node = "tool_dispatcher" THEN 4
  ELSE IF node = "architect" THEN 2
  ELSE IF node = "human_gate" THEN IF fresh THEN 5 ELSE 1
  ELSE IF node = "executor" THEN 3
  ELSE 1

BudgetInv == busy /\ <<caller, "executor failed">> \notin outcomes => budget >= Need

\* A completed run succeeded itself.
OwnSuccess ==
  \A r \in Runs : status[r] = "completed" =>
                  \E o \in {"tool ok", "executor completed"} : <<r, o>> \in outcomes

\* What holds of the thread's one open run while no run has started beside one at
\* its gate.
ThreadInv ==
  /\ OwnerInv
  /\ NodeInv
  /\ GateInv
  /\ AnswerInv
  /\ ConsentInv
  /\ ResultInv

GraphInv == TypeInv /\ SharedInv /\ CompletedHasWork /\ (~shared => ThreadInv /\ OwnSuccess)

-----------------------------------------------------------------------------
(* Type correctness.                                                       *)

\* Flags, counters, what the nodes write, and what the loop around them does.
TypeFlags ==
  /\ escalated \in BOOLEAN
  /\ busy \in BOOLEAN
  /\ fresh \in BOOLEAN
  /\ shared \in BOOLEAN

TypeCounts ==
  /\ plan \in 0..MaxPlans
  /\ plans \in 0..MaxPlans
  /\ budget \in 0..RecursionLimit + 2

TypeState ==
  /\ execOut \in {"none", "completed", "failed"}
  /\ feedback \in {"none", "approved", "rejected"}
  /\ toolResult \in {"none", "ok", "failed", "cancelled"}
  /\ work \in SUBSET [by : Runs, what : Prompts]
  /\ outcomes \in SUBSET (Runs \X {"tool ok", "executor completed", "executor failed"})
  /\ passed \in SUBSET (0..MaxPlans)
  /\ rerouted \in SUBSET [by : Runs, what : Prompts]

TypeLoop ==
  /\ request \in Requests
  /\ node \in Nodes \cup {"end"}
  /\ pending \in Prompts \cup {NoPrompt}
  /\ caller \in Runs \cup {NoRun}
  /\ answer \in Answers
  /\ status \in [Runs -> {"new", "running", "interrupted", "completed", "error", "cancelled"}]
  /\ prompt \in [Runs -> Prompts \cup {NoPrompt}]
  /\ okd \in [Runs -> SUBSET Prompts]
  /\ failure \in {"none", "limit", "node"}

\* The type invariant in its parts.
LEMMA TypeParts ==
  /\ TypeOK <=> TypeFlags /\ TypeCounts /\ TypeState /\ TypeLoop
  /\ TypeOK' <=> TypeFlags' /\ TypeCounts' /\ TypeState' /\ TypeLoop'
BY DEF TypeOK, TypeFlags, TypeCounts, TypeState, TypeLoop

\* The limits are natural numbers.
LEMMA Numbers == MaxPlans \in Nat /\ RecursionLimit \in Nat
BY GraphAssumption

\* A thread nobody has used is typed.
LEMMA TypeInit == Init => TypeInv
<1> SUFFICES ASSUME Init PROVE TypeInv
  OBVIOUS
<1>1. TypeFlags
  BY Zenon DEF Init, TypeFlags
<1>2. TypeCounts
  BY Numbers DEF Init, TypeCounts, NoPlan
<1>3. TypeState
  BY DEF Init, TypeState
<1>4. TypeLoop
  BY DEF Init, TypeLoop, Requests, Answers
<1>5. CallerInv
  BY DEF Init, CallerInv
<1> QED
  BY <1>1, <1>2, <1>3, <1>4, <1>5, TypeParts DEF TypeInv

\* A new run and an approval keep the types.
LEMMA TypeInvoke ==
  ASSUME TypeInv, NEW r \in Runs,
         \/ \E q \in Requests : StartRun(r, q)
         \/ \E a \in Answers : ResumeRun(r, a)
  PROVE  TypeInv'
<1>0. TypeFlags /\ TypeCounts /\ TypeState /\ TypeLoop /\ CallerInv
  BY TypeParts DEF TypeInv
<1>1. ASSUME NEW q \in Requests, StartRun(r, q)
      PROVE  TypeInv'
  <2>1. TypeFlags'
    BY <1>0, <1>1, Zenon DEF TypeFlags, StartRun, Invoke
  <2>2. TypeCounts'
    <3>1. plan' = 0 /\ plans' = plans /\ budget' = RecursionLimit
      BY <1>1 DEF StartRun, Invoke, NoPlan
    <3> QED
      BY <1>0, <3>1, Numbers DEF TypeCounts
  <2>3. TypeState'
    BY <1>0, <1>1 DEF TypeState, StartRun, history
  <2>4. TypeLoop'
    BY <1>0, <1>1 DEF TypeLoop, StartRun, Invoke, Nodes
  <2>5. CallerInv'
    BY <1>0, <1>1 DEF TypeLoop, CallerInv, StartRun, Invoke
  <2> QED
    BY <2>1, <2>2, <2>3, <2>4, <2>5, TypeParts DEF TypeInv
<1>2. ASSUME NEW a \in Answers, ResumeRun(r, a)
      PROVE  TypeInv'
  <2>1. TypeFlags'
    BY <1>0, <1>2, Zenon DEF TypeFlags, ResumeRun, Invoke, channels, history
  <2>2. TypeCounts'
    <3>1. plan' = plan /\ plans' = plans /\ budget' = RecursionLimit + 2
      BY <1>2 DEF ResumeRun, Invoke, channels
    <3> QED
      BY <1>0, <3>1, Numbers DEF TypeCounts
  <2>3. TypeState'
    BY <1>0, <1>2 DEF TypeState, ResumeRun, channels, history
  <2>4. okd' \in [Runs -> SUBSET Prompts]
    <3>1. prompt[r] \in Prompts
      BY <1>0, <1>2 DEF CallerInv, ResumeRun
    <3> QED
      BY <1>0, <1>2, <3>1 DEF TypeLoop, ResumeRun
  <2>5. TypeLoop'
    BY <1>0, <1>2, <2>4 DEF TypeLoop, ResumeRun, Invoke
  <2>6. CallerInv'
    BY <1>0, <1>2 DEF TypeLoop, CallerInv, ResumeRun, Invoke
  <2> QED
    BY <2>1, <2>2, <2>3, <2>5, <2>6, TypeParts DEF TypeInv
<1> QED
  BY <1>1, <1>2

\* What a superstep that ends in another node assigns outside the channels ...
LEMMA TypeAdvance ==
  ASSUME TypeInv, NEW n \in Nodes, NEW to \in Nodes \cup {"end"}, Advance(n, to)
  PROVE  /\ busy' \in BOOLEAN /\ fresh' \in BOOLEAN
         /\ budget' \in 0..RecursionLimit + 2
         /\ TypeLoop' /\ CallerInv'
<1>0. TypeFlags /\ TypeCounts /\ TypeLoop /\ CallerInv
  BY TypeParts DEF TypeInv
<1>1. busy' \in BOOLEAN /\ fresh' \in BOOLEAN
  BY <1>0, Zenon DEF TypeFlags, Advance
<1>2. budget' \in 0..RecursionLimit + 2
  <2>1. budget > 0 /\ budget' = budget - 1
    BY DEF Advance
  <2> QED
    BY <1>0, <2>1, Numbers DEF TypeCounts
<1>3. TypeLoop'
  BY <1>0 DEF TypeLoop, Advance
<1>4. CallerInv'
  BY <1>0 DEF CallerInv, Advance
<1> QED
  BY <1>1, <1>2, <1>3, <1>4

\* ... one that ends in an interrupt, which changes no channel ...
LEMMA TypeInterrupt ==
  ASSUME TypeInv, NEW n \in Nodes, NEW p \in Prompts, Interrupt(n, p)
  PROVE  TypeInv'
<1>0. TypeFlags /\ TypeCounts /\ TypeState /\ TypeLoop /\ CallerInv
  BY TypeParts DEF TypeInv
<1>1. TypeFlags'
  BY <1>0, Zenon DEF TypeFlags, Interrupt, channels, history
<1>2. TypeCounts' /\ TypeState'
  BY <1>0 DEF TypeCounts, TypeState, Interrupt, channels, history
<1>3. TypeLoop'
  BY <1>0 DEF TypeLoop, Interrupt
<1>4. CallerInv'
  BY <1>0 DEF CallerInv, TypeLoop, Interrupt
<1> QED
  BY <1>1, <1>2, <1>3, <1>4, TypeParts DEF TypeInv

\* How an invocation stops that is not interrupted.
Stop ==
  /\ busy
  /\ busy' = FALSE
  /\ \E s \in {"completed", "error", "cancelled"} : status' = [status EXCEPT ![caller] = s]
  /\ UNCHANGED <<channels, request, node, pending, caller, budget, answer, fresh, plans,
                 prompt, okd>>

\* A node that raises, the recursion limit and the end of the graph stop it.
LEMMA StopEffect ==
  ASSUME RecursionError \/ Finish \/ \E n \in Nodes : Raise(n)
  PROVE  Stop
<1>1. CASE RecursionError \/ \E n \in Nodes : Raise(n)
  BY <1>1 DEF RecursionError, Raise, Stop
<1>2. CASE Finish
  <2> DEFINE s == CASE toolResult = "failed"    -> "error"
                    [] toolResult = "cancelled" -> "cancelled"
                    [] OTHER                    -> "completed"
  <2>1. s \in {"completed", "error", "cancelled"}
    OBVIOUS
  <2>2. status' = [status EXCEPT ![caller] = s]
    BY <1>2 DEF Finish
  <2> HIDE DEF s
  <2> QED
    BY <1>2, <2>1, <2>2 DEF Finish, Stop
<1> QED
  BY <1>1, <1>2

\* ... and one that stops the invocation.
LEMMA TypeStop ==
  ASSUME TypeInv, Stop, failure' \in {failure, "limit", "node"}, shared' = shared
  PROVE  TypeFlags' /\ TypeCounts' /\ TypeLoop' /\ CallerInv'
<1>0. TypeFlags /\ TypeCounts /\ TypeLoop /\ CallerInv
  BY TypeParts DEF TypeInv
<1>1. TypeFlags'
  BY <1>0, Zenon DEF TypeFlags, Stop, channels
<1>2. TypeCounts'
  BY <1>0 DEF TypeCounts, Stop, channels
<1>3. TypeLoop'
  BY <1>0 DEF TypeLoop, Stop
<1>4. CallerInv'
  BY <1>0 DEF CallerInv, TypeLoop, Stop
<1> QED
  BY <1>1, <1>2, <1>3, <1>4

-----------------------------------------------------------------------------
(* What a superstep is.                                                    *)

\* The dispatcher hands the task back to the supervisor.
GivesUp ==
  /\ Advance("tool_dispatcher", "supervisor")
  /\ escalated' = TRUE
  /\ toolResult' \in {toolResult, "failed"}
  /\ UNCHANGED <<plan, execOut, feedback, plans, history>>

\* It ends without gated work, or with a call that the answer allows.
EndsUngated == \E outcome \in {"ok", "failed", "cancelled"} : ToolDone(outcome, {})

EndsWithWrite ==
  \E a \in GatedActions :
    /\ Decision(a) /\ fresh /\ answer = "approved"
    /\ \E outcome \in {"ok", "failed", "cancelled"} : ToolDone(outcome, {Write(a)})

\* An escalation with or without a fault is a step back to the supervisor.
LEMMA EscalateEffect ==
  ASSUME NEW fault \in BOOLEAN, Escalate(fault)
  PROVE  GivesUp
<1>1. toolResult' = IF fault THEN "failed" ELSE toolResult
  BY Zenon DEF Escalate
<1>2. toolResult' \in {toolResult, "failed"}
  BY <1>1, Zenon
<1> QED
  BY <1>2, Zenon DEF Escalate, GivesUp

\* What the dispatcher and its policy gate can do, PolicyAsks apart.
LEMMA DispatcherEffect ==
  ASSUME DispatcherEscalates \/ FreeTool \/ PolicyDenies \/ PolicyAnswered
  PROVE  GivesUp \/ EndsUngated \/ EndsWithWrite
<1>1. CASE DispatcherEscalates
  <2>1. PICK d \in {"escalate", "fault"} : Escalate(d = "fault")
    BY <1>1, Zenon DEF DispatcherEscalates
  <2>2. (d = "fault") \in BOOLEAN
    BY Zenon
  <2> QED
    BY <2>1, <2>2, EscalateEffect
<1>2. CASE FreeTool
  <2>1. (\E outcome \in {"ok", "failed"} : ToolDone(outcome, {})) \/ Escalate(TRUE)
    BY <1>2, Zenon DEF FreeTool
  <2>2. TRUE \in BOOLEAN
    BY Zenon
  <2> QED
    BY <2>1, <2>2, EscalateEffect, Zenon DEF EndsUngated
<1>3. CASE PolicyDenies
  BY <1>3, Zenon DEF PolicyDenies, EndsUngated
<1>4. CASE PolicyAnswered
  <2>1. PICK a \in GatedActions :
          /\ Decision(a) /\ fresh
          /\ IF answer = "approved"
             THEN \/ \E outcome \in {"ok", "failed", "cancelled"} :
                       ToolDone(outcome, {Write(a)})
                  \/ Escalate(TRUE)
             ELSE ToolDone("cancelled", {})
    BY <1>4, Zenon DEF PolicyAnswered
  <2>2. TRUE \in BOOLEAN
    BY Zenon
  <2>3. CASE answer = "approved"
    BY <2>1, <2>2, <2>3, EscalateEffect, Zenon DEF EndsWithWrite
  <2>4. CASE answer # "approved"
    BY <2>1, <2>4, Zenon DEF EndsUngated
  <2> QED
    BY <2>3, <2>4
<1> QED
  BY <1>1, <1>2, <1>3, <1>4

\* Where route_from_state sends the thread.
LEMMA RouteIsNode == Route \in Nodes \cup {"end"}
BY DEF Route, Nodes

\* Work on a brief is a piece of work.
LEMMA DidTyped ==
  ASSUME TypeCounts, caller \in Runs, plan # NoPlan
  PROVE  Did \in [by : Runs, what : Prompts]
<1>1. plan \in 1..MaxPlans
  BY Numbers DEF TypeCounts, NoPlan
<1> QED
  BY <1>1 DEF Did, Prompts

\* An ordinary superstep keeps the types.
LEMMA TypeNodes ==
  ASSUME TypeInv, Planner \/ Supervisor \/ Architect \/ HumanGateAnswered \/ GivesUp
  PROVE  TypeInv'
<1>0. TypeFlags /\ TypeCounts /\ TypeState /\ TypeLoop /\ CallerInv
  BY TypeParts DEF TypeInv
<1>1. PICK n \in Nodes, to \in Nodes \cup {"end"} : Advance(n, to)
  <2>1. CASE Supervisor
    BY <2>1, RouteIsNode, "supervisor" \in Nodes DEF Supervisor, Nodes
  <2>2. CASE Planner \/ Architect \/ HumanGateAnswered \/ GivesUp
    BY <2>2 DEF Planner, Architect, HumanGateAnswered, GivesUp, Nodes
  <2> QED
    BY <2>1, <2>2
<1>2. /\ busy' \in BOOLEAN /\ fresh' \in BOOLEAN
      /\ budget' \in 0..RecursionLimit + 2
      /\ TypeLoop' /\ CallerInv'
  BY <1>1, TypeAdvance
<1>3. escalated' \in BOOLEAN /\ shared' \in BOOLEAN
  BY <1>0, Zenon
    DEF TypeFlags, Planner, Supervisor, Architect, HumanGateAnswered, GivesUp, channels, history
<1>4. plan' \in 0..MaxPlans /\ plans' \in 0..MaxPlans
  <2>1. \/ plan' = plan /\ plans' = plans
        \/ plans < MaxPlans /\ plan' = plans + 1 /\ plans' = plans + 1
    BY DEF Planner, Supervisor, Architect, HumanGateAnswered, GivesUp, channels
  <2> QED
    BY <1>0, <2>1, Numbers DEF TypeCounts
<1>5. TypeState'
  BY <1>0
    DEF TypeCounts, TypeState, Planner, Supervisor, Architect, HumanGateAnswered, GivesUp, channels, history
<1> QED
  BY <1>2, <1>3, <1>4, <1>5, TypeParts DEF TypeInv, TypeFlags, TypeCounts

\* The end of a tool call and a run of the executor keep the types.
LEMMA TypeWork ==
  ASSUME TypeInv,
         EndsUngated \/ EndsWithWrite \/ \E outcome \in {"completed", "failed"} : Executor(outcome)
  PROVE  TypeInv'
<1>0. TypeFlags /\ TypeCounts /\ TypeState /\ TypeLoop /\ CallerInv
  BY TypeParts DEF TypeInv
<1>1. ASSUME NEW outcome \in {"ok", "failed", "cancelled"},
             NEW newWork \in SUBSET [by : Runs, what : Prompts],
             ToolDone(outcome, newWork)
      PROVE  TypeInv'
  <2>1. /\ busy' \in BOOLEAN /\ fresh' \in BOOLEAN
        /\ budget' \in 0..RecursionLimit + 2
        /\ TypeLoop' /\ CallerInv'
    BY <1>1, TypeAdvance DEF ToolDone, Nodes
  <2>2. TypeFlags'
    BY <1>0, <1>1, <2>1, Zenon DEF ToolDone, TypeFlags
  <2>3. TypeCounts'
    BY <1>0, <1>1, <2>1 DEF ToolDone, TypeCounts
  <2>4. caller \in Runs
    BY <1>0, <1>1 DEF CallerInv, ToolDone, Advance
  <2>5. outcomes' \in SUBSET (Runs \X {"tool ok", "executor completed", "executor failed"})
    <3>1. outcomes' = outcomes \/ outcomes' = outcomes \cup {<<caller, "tool ok">>}
      BY <1>1, Zenon DEF ToolDone
    <3>2. <<caller, "tool ok">> \in Runs \X {"tool ok", "executor completed", "executor failed"}
      BY <2>4
    <3> QED
      BY <1>0, <3>1, <3>2, Zenon DEF TypeState
  <2>6. work' \in SUBSET [by : Runs, what : Prompts]
    <3>1. work' = work \cup newWork
      BY <1>1 DEF ToolDone
    <3> QED
      BY <1>0, <3>1 DEF TypeState
  <2>7. rerouted' \in SUBSET [by : Runs, what : Prompts]
    <3>1. rerouted' = rerouted \cup {w \in newWork : w.what # pending}
      BY <1>1 DEF ToolDone
    <3> QED
      BY <1>0, <3>1 DEF TypeState
  <2>8. TypeState'
    BY <1>0, <1>1, <2>5, <2>6, <2>7, Zenon DEF ToolDone, TypeState
  <2> QED
    BY <2>1, <2>2, <2>3, <2>8, TypeParts DEF TypeInv
<1>2. CASE EndsUngated
  BY <1>1, <1>2 DEF EndsUngated
<1>3. CASE EndsWithWrite
  <2>1. PICK a \in GatedActions, outcome \in {"ok", "failed", "cancelled"} :
          ToolDone(outcome, {Write(a)})
    BY <1>3 DEF EndsWithWrite
  <2>2. caller \in Runs
    BY <1>0, <2>1 DEF CallerInv, ToolDone, Advance
  <2>3. {Write(a)} \in SUBSET [by : Runs, what : Prompts]
    BY <2>2 DEF Write, Prompts
  <2> QED
    BY <1>1, <2>1, <2>3
<1>4. ASSUME NEW outcome \in {"completed", "failed"}, Executor(outcome)
      PROVE  TypeInv'
  <2>1. /\ busy' \in BOOLEAN /\ fresh' \in BOOLEAN
        /\ budget' \in 0..RecursionLimit + 2
        /\ TypeLoop' /\ CallerInv'
    BY <1>4, TypeAdvance DEF Executor, Nodes
  <2>2. TypeFlags'
    BY <1>0, <1>4, <2>1, Zenon DEF Executor, TypeFlags
  <2>3. TypeCounts'
    BY <1>0, <1>4, <2>1 DEF Executor, TypeCounts
  <2>4. caller \in Runs
    BY <1>0, <1>4 DEF CallerInv, Executor, Advance
  <2>5. Did \in [by : Runs, what : Prompts]
    BY <1>0, <1>4, <2>4, DidTyped DEF Executor
  <2>6. TypeState'
    <3>1. work' \in SUBSET [by : Runs, what : Prompts]
      <4>1. work' = work \cup {Did}
        BY <1>4 DEF Executor
      <4> QED
        BY <1>0, <2>5, <4>1 DEF TypeState
    <3>2. outcomes' \in SUBSET (Runs \X {"tool ok", "executor completed", "executor failed"})
      <4>1. PICK o \in {"executor completed", "executor failed"} :
              outcomes' = outcomes \cup {<<caller, o>>}
        BY <1>4, Zenon DEF Executor
      <4>2. <<caller, o>> \in Runs \X {"tool ok", "executor completed", "executor failed"}
        BY <2>4
      <4> QED
        BY <1>0, <4>1, <4>2, Zenon DEF TypeState
    <3> QED
      BY <1>0, <1>4, <3>1, <3>2, Zenon DEF Executor, TypeState
  <2> QED
    BY <2>1, <2>2, <2>3, <2>6, TypeParts DEF TypeInv
<1> QED
  BY <1>2, <1>3, <1>4

\* Interrupts and stops keep the types.
LEMMA TypeEnds ==
  ASSUME TypeInv,
         \/ PolicyAsks \/ HumanGateAsks \/ ArchitectFails \/ DispatcherFails
         \/ HumanGateRaises \/ ExecutorFails \/ RecursionError \/ Finish
  PROVE  TypeInv'
<1>0. TypeFlags /\ TypeCounts /\ TypeState /\ TypeLoop /\ CallerInv
  BY TypeParts DEF TypeInv
<1>1. CASE PolicyAsks
  <2>1. PICK a \in GatedActions : Interrupt("tool_dispatcher", [kind |-> "policy", what |-> a])
    BY <1>1 DEF PolicyAsks
  <2>2. [kind |-> "policy", what |-> a] \in Prompts
    BY DEF Prompts
  <2> QED
    BY <2>1, <2>2, TypeInterrupt DEF Nodes
<1>2. CASE HumanGateAsks
  <2>1. [kind |-> "plan", what |-> plan] \in Prompts
    BY <1>0, <1>2, Numbers DEF Prompts, TypeCounts, HumanGateAsks, NoPlan
  <2> QED
    BY <1>2, <2>1, TypeInterrupt DEF HumanGateAsks, Nodes
<1>3. CASE ArchitectFails \/ DispatcherFails \/ HumanGateRaises \/ ExecutorFails
            \/ RecursionError \/ Finish
  <2>1. RecursionError \/ Finish \/ \E n \in Nodes : Raise(n)
    BY <1>3 DEF ArchitectFails, DispatcherFails, HumanGateRaises, ExecutorFails, Nodes
  <2>2. Stop
    BY <2>1, StopEffect
  <2>3. failure' \in {failure, "limit", "node"}
    BY <2>1, Zenon DEF RecursionError, Finish, Raise
  <2>5. UNCHANGED <<outcomes, passed, rerouted, shared>>
    BY <1>3, Zenon
      DEF ArchitectFails, DispatcherFails, HumanGateRaises, ExecutorFails, RecursionError, Finish,
          history
  <2>4. TypeFlags' /\ TypeCounts' /\ TypeLoop' /\ CallerInv'
    BY <2>2, <2>3, <2>5, TypeStop
  <2>6. work' \in SUBSET [by : Runs, what : Prompts]
    <3>1. CASE ExecutorFails
      <4>1. caller \in Runs
        BY <1>0, <3>1 DEF CallerInv, ExecutorFails, Raise
      <4>2. plan # NoPlan => Did \in [by : Runs, what : Prompts]
        BY <1>0, <4>1, DidTyped
      <4> QED
        BY <1>0, <3>1, <4>2 DEF ExecutorFails, TypeState
    <3>2. CASE work' = work
      BY <1>0, <3>2 DEF TypeState
    <3>3. ExecutorFails \/ work' = work
      BY <1>3, Zenon
        DEF ArchitectFails, DispatcherFails, HumanGateRaises, RecursionError, Finish, history
    <3> QED
      BY <3>1, <3>2, <3>3
  <2>7. TypeState'
    BY <1>0, <2>2, <2>5, <2>6 DEF TypeState, Stop, channels
  <2> QED
    BY <2>4, <2>7, TypeParts DEF TypeInv
<1> QED
  BY <1>1, <1>2, <1>3

\* Every step keeps the types.
LEMMA TypeNext == TypeInv /\ [Next]_vars => TypeInv'
<1> SUFFICES ASSUME TypeInv, [Next]_vars PROVE TypeInv'
  OBVIOUS
<1>1. CASE UNCHANGED vars
  <2>1. TypeFlags /\ TypeCounts /\ TypeState /\ TypeLoop /\ CallerInv
    BY TypeParts DEF TypeInv
  <2>2. TypeFlags' /\ TypeCounts' /\ TypeState'
    BY <1>1, <2>1, Zenon DEF vars, TypeFlags, TypeCounts, TypeState
  <2>3. TypeLoop'
    BY <1>1, <2>1, Zenon DEF vars, TypeLoop
  <2>4. CallerInv'
    BY <1>1, <2>1 DEF vars, CallerInv
  <2> QED
    BY <2>2, <2>3, <2>4, TypeParts DEF TypeInv
<1>2. CASE Next
  BY <1>2, TypeInvoke, TypeNodes, TypeWork, TypeEnds, DispatcherEffect, Zenon DEF Next, Step
<1> QED
  BY <1>1, <1>2

\* In every behaviour the thread, the ledger and the history have their types: an
\* invocation always has a caller, whatever the operators, the tools and the models
\* answer.
THEOREM GraphTyped == Spec => []TypeOK
<1>1. TypeInv => TypeOK
  BY DEF TypeInv
<1> QED
  BY <1>1, TypeInit, TypeNext, PTL DEF Spec

-----------------------------------------------------------------------------
(* While no run has started beside one at its gate.                        *)

\* A thread nobody has used has no open run.
LEMMA ThreadInit == Init => ThreadInv /\ OwnSuccess
<1> SUFFICES ASSUME Init PROVE ThreadInv /\ OwnSuccess
  OBVIOUS
<1>1. ~busy /\ node = "end" /\ \A r \in Runs : status[r] = "new"
  BY DEF Init
<1>2. ~Live /\ ~Waiting
  BY <1>1 DEF Live, Waiting
<1> QED
  BY <1>1, <1>2
    DEF ThreadInv, OwnerInv, NodeInv, GateInv, AnswerInv, ConsentInv, ResultInv, OwnSuccess

\* A run that may start finds no other open run, and the channels it reads before
\* they are written are the ones initial_state overwrites.
LEMMA ThreadStart ==
  ASSUME TypeInv, ThreadInv, OwnSuccess,
         NEW r \in Runs, NEW q \in Requests, StartRun(r, q), ~shared'
  PROVE  ThreadInv' /\ OwnSuccess'
<1>1. /\ ~busy /\ \A other \in Runs : status[other] # "interrupted"
      /\ busy' /\ caller' = r /\ node' = "planner" /\ ~fresh'
      /\ status' = [status EXCEPT ![r] = "running"]
      /\ plan' = NoPlan /\ execOut' = "none" /\ feedback' = "none"
      /\ outcomes' = outcomes
  BY DEF StartRun, Invoke
<1>2. status \in [Runs -> {"new", "running", "interrupted", "completed", "error", "cancelled"}]
  BY TypeParts DEF TypeInv, TypeLoop
<1>3. OwnerInv'
  BY <1>1, <1>2 DEF ThreadInv, OwnerInv
<1>4. NodeInv' /\ ConsentInv' /\ ResultInv'
  BY <1>1 DEF NodeInv, ConsentInv, ResultInv
<1>5. GateInv' /\ AnswerInv'
  BY <1>1 DEF GateInv, AnswerInv, Waiting
<1>6. OwnSuccess'
  BY <1>1, <1>2 DEF OwnSuccess
<1> QED
  BY <1>3, <1>4, <1>5, <1>6 DEF ThreadInv

\* An approval reaches the thread its run left behind.
LEMMA ThreadResume ==
  ASSUME TypeInv, ThreadInv, OwnSuccess,
         NEW r \in Runs, NEW a \in Answers, ResumeRun(r, a)
  PROVE  ThreadInv' /\ OwnSuccess'
<1>1. /\ ~busy /\ status[r] = "interrupted"
      /\ busy' /\ caller' = r /\ node' = node /\ answer' = a /\ fresh'
      /\ status' = [status EXCEPT ![r] = "running"]
      /\ okd' = [okd EXCEPT ![r] = IF a = "approved" THEN @ \cup {prompt[r]} ELSE @]
      /\ plan' = plan /\ execOut' = execOut /\ feedback' = feedback /\ toolResult' = toolResult
      /\ request' = request /\ pending' = pending /\ prompt' = prompt /\ outcomes' = outcomes
  BY DEF ResumeRun, Invoke, channels, history
<1>2. /\ status \in [Runs -> {"new", "running", "interrupted", "completed", "error", "cancelled"}]
      /\ okd \in [Runs -> SUBSET Prompts]
  BY TypeParts DEF TypeInv, TypeLoop
<1>3. caller = r /\ Waiting /\ Live
  BY <1>1 DEF ThreadInv, OwnerInv, Waiting, Live
<1>4. OwnerInv'
  BY <1>1, <1>2, <1>3 DEF ThreadInv, OwnerInv
<1>5. NodeInv' /\ ResultInv'
  BY <1>1, <1>3 DEF ThreadInv, NodeInv, ResultInv
<1>6. GateInv'
  BY <1>1, <1>3 DEF ThreadInv, GateInv, PlanPrompt
<1>7. okd[r] \subseteq okd'[r] /\ (a = "approved" => prompt[r] \in okd'[r])
  BY <1>1, <1>2
<1>8. AnswerInv'
  <2>1. pending = prompt[r]
    BY <1>3 DEF ThreadInv, GateInv
  <2> QED
    BY <1>1, <1>7, <2>1 DEF AnswerInv
<1>9. ConsentInv'
  BY <1>1, <1>3, <1>7 DEF ThreadInv, ConsentInv, PlanPrompt
<1>10. OwnSuccess'
  BY <1>1, <1>2 DEF OwnSuccess
<1> QED
  BY <1>4, <1>5, <1>6, <1>8, <1>9, <1>10 DEF ThreadInv

\* Between two nodes no answer is under way and the runs keep their statuses.
LEMMA ThreadAdvance ==
  ASSUME ThreadInv, NEW n, NEW to, Advance(n, to)
  PROVE  /\ OwnerInv' /\ GateInv' /\ AnswerInv'
         /\ Live /\ node = n /\ node' = to /\ caller' = caller /\ okd' = okd
<1>1. /\ busy /\ node = n /\ node' = to /\ busy' = busy /\ ~fresh'
      /\ status' = status /\ caller' = caller /\ okd' = okd
  BY DEF Advance
<1>2. OwnerInv'
  BY <1>1 DEF ThreadInv, OwnerInv
<1>3. GateInv' /\ AnswerInv'
  BY <1>1 DEF GateInv, AnswerInv, Waiting
<1>4. Live
  BY <1>1 DEF Live
<1> QED
  BY <1>1, <1>2, <1>3, <1>4

\* A run that is completed keeps its successes.
LEMMA CompletedKept ==
  ASSUME OwnSuccess, status' = status, outcomes \subseteq outcomes'
  PROVE  OwnSuccess'
BY DEF OwnSuccess

\* What each destination of route_from_state says of the channels.
LEMMA RouteFacts ==
  ASSUME TypeState
  PROVE  /\ Route \in {"end", "executor", "architect", "tool_dispatcher"}
         /\ Route = "end" => execOut = "completed" \/ (feedback = "none" /\ plan # NoPlan)
         /\ Route = "executor" => execOut # "completed" /\ feedback = "approved"
         /\ Route = "architect" =>
              execOut # "completed" /\ (feedback = "rejected" \/ (feedback = "none" /\ escalated))
         /\ Route = "tool_dispatcher" =>
              execOut # "completed" /\ feedback = "none" /\ plan = NoPlan /\ ~escalated
BY DEF Route, TypeState

\* The planner, the supervisor, the dispatcher that gives up, the architect and an
\* answered gate keep it.
LEMMA ThreadNodes ==
  ASSUME TypeInv, ThreadInv, OwnSuccess,
         Planner \/ Supervisor \/ GivesUp \/ Architect \/ HumanGateAnswered
  PROVE  ThreadInv' /\ OwnSuccess'
<1>0. TypeState /\ TypeCounts
  BY TypeParts DEF TypeInv
<1>1. PICK n, to : Advance(n, to)
  BY DEF Planner, Supervisor, GivesUp, Architect, HumanGateAnswered
<1>2. /\ OwnerInv' /\ GateInv' /\ AnswerInv'
      /\ Live /\ caller' = caller /\ okd' = okd
  BY <1>1, ThreadAdvance
<1>3. outcomes' = outcomes
  BY DEF Planner, Supervisor, GivesUp, Architect, HumanGateAnswered, history
<1>4. OwnSuccess'
  BY <1>1, <1>3, CompletedKept DEF Advance
<1>5. CASE Planner
  <2>1. node = "planner" /\ node' = "supervisor" /\ UNCHANGED <<plan, execOut, feedback, toolResult>>
    BY <1>5 DEF Planner, Advance, channels
  <2> QED
    BY <1>2, <1>3, <1>4, <2>1 DEF ThreadInv, NodeInv, ConsentInv, ResultInv, PlanPrompt
<1>6. CASE Supervisor
  <2>1. /\ node = "supervisor" /\ node' = Route
        /\ UNCHANGED <<plan, execOut, feedback, toolResult>>
    BY <1>6 DEF Supervisor, Advance, channels
  <2>2. NodeInv'
    BY <1>0, <1>2, <2>1, RouteFacts DEF ThreadInv, NodeInv
  <2>3. ConsentInv'
    BY <1>2, <2>1 DEF ThreadInv, ConsentInv, PlanPrompt
  <2>4. ResultInv'
    BY <1>0, <1>2, <1>3, <2>1, RouteFacts DEF ThreadInv, NodeInv, ResultInv
  <2> QED
    BY <1>2, <1>4, <2>2, <2>3, <2>4 DEF ThreadInv
<1>7. CASE GivesUp
  <2>1. /\ node = "tool_dispatcher" /\ node' = "supervisor"
        /\ UNCHANGED <<plan, execOut, feedback>>
    BY <1>7 DEF GivesUp, Advance
  <2> QED
    BY <1>2, <1>3, <1>4, <2>1 DEF ThreadInv, NodeInv, ConsentInv, ResultInv, PlanPrompt
<1>8. CASE Architect
  <2>1. /\ node = "architect" /\ node' = "human_gate" /\ plan' = plans + 1
        /\ UNCHANGED <<execOut, feedback, toolResult>>
    BY <1>8 DEF Architect, Advance
  <2>2. plan' # NoPlan
    BY <1>0, <2>1, Numbers DEF TypeCounts, NoPlan
  <2> QED
    BY <1>2, <1>3, <1>4, <2>1, <2>2 DEF ThreadInv, NodeInv, ConsentInv, ResultInv
<1>9. CASE HumanGateAnswered
  <2>1. /\ busy /\ fresh /\ answer \in {"approved", "rejected"} /\ feedback' = answer
        /\ node = "human_gate" /\ node' = "supervisor"
        /\ UNCHANGED <<plan, execOut, toolResult>>
    BY <1>9 DEF HumanGateAnswered, Advance
  <2>2. NodeInv' /\ ResultInv'
    BY <1>2, <1>3, <2>1 DEF ThreadInv, NodeInv, ResultInv
  <2>3. pending = PlanPrompt /\ (answer = "approved" => pending \in okd[caller])
    BY <2>1 DEF ThreadInv, GateInv, AnswerInv
  <2>4. ConsentInv'
    BY <1>2, <2>1, <2>3 DEF ConsentInv, PlanPrompt
  <2> QED
    BY <1>2, <1>4, <2>2, <2>4 DEF ThreadInv
<1> QED
  BY <1>5, <1>6, <1>7, <1>8, <1>9

\* So do the end of a tool call and a run of the executor.
LEMMA ThreadWork ==
  ASSUME TypeInv, ThreadInv, OwnSuccess,
         EndsUngated \/ EndsWithWrite \/ \E outcome \in {"completed", "failed"} : Executor(outcome)
  PROVE  ThreadInv' /\ OwnSuccess'
<1>1. ASSUME NEW outcome \in {"ok", "failed", "cancelled"}, NEW newWork,
             ToolDone(outcome, newWork)
      PROVE  ThreadInv' /\ OwnSuccess'
  <2>1. /\ Advance("tool_dispatcher", "end")
        /\ toolResult' = outcome
        /\ outcomes' = IF outcome = "ok" THEN outcomes \cup {<<caller, "tool ok">>} ELSE outcomes
        /\ UNCHANGED <<plan, execOut, feedback>>
    BY <1>1 DEF ToolDone
  <2>2. /\ OwnerInv' /\ GateInv' /\ AnswerInv' /\ Live
        /\ node' = "end" /\ caller' = caller /\ okd' = okd
    BY <2>1, ThreadAdvance
  <2>3. NodeInv'
    BY <2>2 DEF NodeInv
  <2>4. ConsentInv'
    BY <2>1, <2>2 DEF ThreadInv, ConsentInv, PlanPrompt
  <2>5. ResultInv'
    BY <2>1, <2>2 DEF ThreadInv, ResultInv
  <2>6. OwnSuccess'
    BY <2>1, CompletedKept DEF Advance
  <2> QED
    BY <2>2, <2>3, <2>4, <2>5, <2>6 DEF ThreadInv
<1>2. CASE EndsUngated \/ EndsWithWrite
  BY <1>1, <1>2 DEF EndsUngated, EndsWithWrite
<1>3. ASSUME NEW outcome \in {"completed", "failed"}, Executor(outcome)
      PROVE  ThreadInv' /\ OwnSuccess'
  <2>1. /\ Advance("executor", "supervisor")
        /\ execOut' = outcome
        /\ outcomes' = outcomes \cup {<<caller, IF outcome = "completed" THEN "executor completed"
                                                ELSE "executor failed">>}
        /\ UNCHANGED <<plan, feedback, toolResult>>
    BY <1>3 DEF Executor
  <2>2. /\ OwnerInv' /\ GateInv' /\ AnswerInv' /\ Live
        /\ node = "executor" /\ node' = "supervisor" /\ caller' = caller /\ okd' = okd
    BY <2>1, ThreadAdvance
  <2>3. NodeInv'
    BY <2>1, <2>2 DEF ThreadInv, NodeInv
  <2>4. ConsentInv'
    BY <2>1, <2>2 DEF ThreadInv, ConsentInv, PlanPrompt
  <2>5. ResultInv'
    BY <2>1, <2>2 DEF ThreadInv, ResultInv
  <2>6. OwnSuccess'
    BY <2>1, CompletedKept DEF Advance
  <2> QED
    BY <2>2, <2>3, <2>4, <2>5, <2>6 DEF ThreadInv
<1> QED
  BY <1>2, <1>3

\* A gate that asks shows its caller what it saves: the brief in state, or the call
\* the task names.
LEMMA ThreadAsks ==
  ASSUME TypeInv, ThreadInv, OwnSuccess, PolicyAsks \/ HumanGateAsks
  PROVE  ThreadInv' /\ OwnSuccess'
<1>0. /\ status \in [Runs -> {"new", "running", "interrupted", "completed", "error", "cancelled"}]
      /\ prompt \in [Runs -> Prompts \cup {NoPrompt}]
      /\ busy => caller \in Runs
  BY TypeParts DEF TypeInv, TypeLoop, CallerInv
<1>1. PICK n, p : /\ Interrupt(n, p)
                  /\ \/ n = "human_gate" /\ p = PlanPrompt
                     \/ /\ n = "tool_dispatcher" /\ p.kind = "policy"
                        /\ request # "unclear" => p.what = request
  <2>1. CASE HumanGateAsks
    BY <2>1 DEF HumanGateAsks, PlanPrompt
  <2>2. CASE PolicyAsks
    <3>1. PICK a \in GatedActions :
            Decision(a) /\ Interrupt("tool_dispatcher", [kind |-> "policy", what |-> a])
      BY <2>2 DEF PolicyAsks
    <3>2. a # "fault"
      BY GraphAssumption
    <3>3. request # "unclear" => a = request
      BY <3>1, <3>2 DEF Decision
    <3> QED
      BY <3>1, <3>3
  <2> QED
    BY <2>1, <2>2
<1>2. /\ busy /\ node = n /\ pending' = p /\ ~busy'
      /\ status' = [status EXCEPT ![caller] = "interrupted"]
      /\ prompt' = [prompt EXCEPT ![caller] = p]
      /\ UNCHANGED <<plan, execOut, feedback, toolResult, request, node, caller, okd, outcomes>>
  BY <1>1 DEF Interrupt, channels, history
<1>3. caller \in Runs /\ Live
  BY <1>0, <1>2 DEF Live
<1>4. OwnerInv'
  BY <1>0, <1>2, <1>3 DEF ThreadInv, OwnerInv
<1>5. NodeInv' /\ ConsentInv' /\ ResultInv'
  BY <1>2, <1>3 DEF ThreadInv, NodeInv, ConsentInv, ResultInv, PlanPrompt
<1>6. GateInv' /\ AnswerInv'
  <2>1. pending' = prompt'[caller']
    BY <1>0, <1>2, <1>3
  <2> QED
    BY <1>1, <1>2, <2>1 DEF GateInv, AnswerInv, PlanPrompt
<1>7. OwnSuccess'
  BY <1>0, <1>2, <1>3 DEF OwnSuccess
<1> QED
  BY <1>4, <1>5, <1>6, <1>7 DEF ThreadInv

\* A graph that ended without a tool failure completes its run.
LEMMA FinishCompletes ==
  ASSUME Finish, caller \in Runs,
         status \in [Runs -> {"new", "running", "interrupted", "completed", "error", "cancelled"}],
         status'[caller] = "completed"
  PROVE  busy /\ node = "end" /\ toolResult \notin {"failed", "cancelled"}
<1> DEFINE s == CASE toolResult = "failed"    -> "error"
                  [] toolResult = "cancelled" -> "cancelled"
                  [] OTHER                    -> "completed"
<1>1. status' = [status EXCEPT ![caller] = s]
  BY DEF Finish
<1>2. s = "completed" => toolResult \notin {"failed", "cancelled"}
  OBVIOUS
<1> HIDE DEF s
<1>3. s = "completed"
  BY <1>1
<1> QED
  BY <1>2, <1>3 DEF Finish

\* When an invocation stops, the thread has no open run left, and only a success of
\* its own lets a run count as completed.
LEMMA ThreadStops ==
  ASSUME TypeInv, ThreadInv, OwnSuccess,
         \/ ArchitectFails \/ DispatcherFails \/ HumanGateRaises \/ ExecutorFails
         \/ RecursionError \/ Finish
  PROVE  ThreadInv' /\ OwnSuccess'
<1>0. /\ status \in [Runs -> {"new", "running", "interrupted", "completed", "error", "cancelled"}]
      /\ busy => caller \in Runs
  BY TypeParts DEF TypeInv, TypeLoop, CallerInv
<1>1. Stop
  BY StopEffect DEF ArchitectFails, DispatcherFails, HumanGateRaises, ExecutorFails, Nodes
<1>2. PICK s \in {"completed", "error", "cancelled"} : status' = [status EXCEPT ![caller] = s]
  BY <1>1 DEF Stop
<1>3. busy /\ caller \in Runs /\ caller' = caller /\ ~busy'
  BY <1>0, <1>1 DEF Stop
<1>4. ~Live' /\ ~Waiting'
  BY <1>0, <1>2, <1>3 DEF Live, Waiting
<1>5. OwnerInv'
  BY <1>0, <1>2, <1>3 DEF ThreadInv, OwnerInv
<1>6. GateInv' /\ AnswerInv' /\ ConsentInv' /\ ResultInv'
  BY <1>3, <1>4 DEF GateInv, AnswerInv, ConsentInv, ResultInv
<1>a. NodeInv'
  BY <1>1 DEF Stop, channels, ThreadInv, NodeInv
<1>7. outcomes' = outcomes
  BY Zenon
    DEF ArchitectFails, DispatcherFails, HumanGateRaises, ExecutorFails, RecursionError, Finish,
        history
<1>8. status'[caller] = "completed" =>
        \E o \in {"tool ok", "executor completed"} : <<caller, o>> \in outcomes
  <2> SUFFICES ASSUME status'[caller] = "completed"
               PROVE  \E o \in {"tool ok", "executor completed"} : <<caller, o>> \in outcomes
    OBVIOUS
  <2>1. CASE Finish
    <3>1. busy /\ node = "end" /\ toolResult \notin {"failed", "cancelled"}
      BY <1>0, <1>3, <2>1, FinishCompletes
    <3> QED
      BY <3>1 DEF ThreadInv, ResultInv, Live
  <2>2. CASE ~Finish
    <3>1. RecursionError \/ \E n : Raise(n)
      BY <2>2 DEF ArchitectFails, DispatcherFails, HumanGateRaises, ExecutorFails
    <3>2. status' = [status EXCEPT ![caller] = "error"]
      BY <3>1 DEF RecursionError, Raise
    <3> QED
      BY <1>0, <1>3, <3>2
  <2> QED
    BY <2>1, <2>2
<1>9. OwnSuccess'
  BY <1>0, <1>2, <1>3, <1>7, <1>8 DEF OwnSuccess
<1> QED
  BY <1>5, <1>6, <1>9, <1>a DEF ThreadInv

-----------------------------------------------------------------------------
(* Whoever shares the thread.                                              *)

\* What the steps of a superstep, a start or an approval do not change.
SameChannels == UNCHANGED <<plan, execOut, feedback, toolResult, node, passed, rerouted, outcomes>>

\* A thread nobody has used.
LEMMA SharedInit == Init => SharedInv /\ CompletedHasWork /\ ThreadInv /\ OwnSuccess
<1>1. Init => SharedInv
  BY DEF Init, SharedInv, NodeInv, PassedInv, AskedInv, SuccessInv, ReroutedInv
<1>2. Init => CompletedHasWork
  BY DEF Init, CompletedHasWork
<1> QED
  BY <1>1, <1>2, ThreadInit

\* A new run overwrites what the nodes read; an approval finds what is there.
LEMMA SharedInvoke ==
  ASSUME TypeInv, SharedInv, CompletedHasWork, NEW r \in Runs,
         \/ \E q \in Requests : StartRun(r, q)
         \/ \E a \in Answers : ResumeRun(r, a)
  PROVE  SharedInv' /\ CompletedHasWork'
<1>0. /\ status \in [Runs -> {"new", "running", "interrupted", "completed", "error", "cancelled"}]
      /\ okd \in [Runs -> SUBSET Prompts]
  BY TypeParts DEF TypeInv, TypeLoop
<1>1. ASSUME NEW q \in Requests, StartRun(r, q)
      PROVE  SharedInv' /\ CompletedHasWork'
  <2>1. /\ busy' /\ node' = "planner" /\ ~fresh'
        /\ status' = [status EXCEPT ![r] = "running"] /\ (shared => shared')
        /\ plan' = NoPlan /\ execOut' = "none" /\ feedback' = "none"
        /\ UNCHANGED <<toolResult, outcomes, rerouted>>
    BY <1>1 DEF StartRun, Invoke
  <2>2. SharedInv'
    BY <2>1 DEF SharedInv, NodeInv, PassedInv, AskedInv, SuccessInv, ReroutedInv
  <2>3. CompletedHasWork'
    BY <1>0, <2>1 DEF CompletedHasWork
  <2> QED
    BY <2>2, <2>3
<1>2. ASSUME NEW a \in Answers, ResumeRun(r, a)
      PROVE  SharedInv' /\ CompletedHasWork'
  <2>1. /\ busy' /\ caller' = r /\ answer' = a /\ status[r] = "interrupted"
        /\ status' = [status EXCEPT ![r] = "running"]
        /\ okd' = [okd EXCEPT ![r] = IF a = "approved" THEN @ \cup {prompt[r]} ELSE @]
        /\ SameChannels /\ shared' = shared
    BY <1>2 DEF ResumeRun, Invoke, channels, history, SameChannels
  <2>2. AskedInv'
    BY <1>0, <2>1 DEF AskedInv
  <2>3. NodeInv' /\ PassedInv' /\ ReroutedInv'
    BY <2>1 DEF SharedInv, NodeInv, PassedInv, ReroutedInv, SameChannels
  <2>4. SuccessInv'
    BY <1>0, <2>1 DEF SharedInv, SuccessInv, SameChannels
  <2>5. CompletedHasWork'
    BY <1>0, <2>1 DEF CompletedHasWork, SameChannels
  <2> QED
    BY <2>2, <2>3, <2>4, <2>5 DEF SharedInv
<1> QED
  BY <1>1, <1>2

\* A success that was reported stays reported.
LEMMA CompletedGrows ==
  ASSUME CompletedHasWork, status' = status, shared' = shared, outcomes \subseteq outcomes'
  PROVE  CompletedHasWork'
BY DEF CompletedHasWork

\* The nodes that do no work.
LEMMA SharedNodes ==
  ASSUME TypeInv, SharedInv, CompletedHasWork,
         Planner \/ Supervisor \/ GivesUp \/ Architect \/ HumanGateAnswered
  PROVE  SharedInv' /\ CompletedHasWork'
<1>0. TypeState /\ TypeCounts
  BY TypeParts DEF TypeInv
<1>1. PICK n, to : Advance(n, to)
  BY DEF Planner, Supervisor, GivesUp, Architect, HumanGateAnswered
<1>2. busy /\ node = n /\ node' = to /\ ~fresh' /\ status' = status
  BY <1>1 DEF Advance
<1>3. /\ UNCHANGED <<outcomes, rerouted, shared>> /\ execOut' = execOut
      /\ toolResult' \in {toolResult, "failed"}
  BY DEF Planner, Supervisor, GivesUp, Architect, HumanGateAnswered, channels, history
<1>4. CompletedHasWork'
  BY <1>2, <1>3, CompletedGrows
<1>5. AskedInv' /\ ReroutedInv'
  BY <1>2, <1>3 DEF SharedInv, AskedInv, ReroutedInv
<1>6. CASE Planner \/ GivesUp
  <2>1. /\ node \in {"planner", "tool_dispatcher"} /\ node' = "supervisor"
        /\ UNCHANGED <<plan, feedback, passed>>
    BY <1>6 DEF Planner, GivesUp, Advance, channels, history
  <2> QED
    BY <1>3, <1>4, <1>5, <2>1 DEF SharedInv, NodeInv, PassedInv, SuccessInv
<1>7. CASE Supervisor
  <2>1. node = "supervisor" /\ node' = Route /\ UNCHANGED <<plan, feedback, passed>>
    BY <1>7 DEF Supervisor, Advance, channels, history
  <2>2. NodeInv' /\ PassedInv'
    BY <1>0, <2>1, RouteFacts DEF SharedInv, NodeInv, PassedInv
  <2>3. node' = "end" => execOut = "completed"
    BY <1>0, <2>1, RouteFacts DEF SharedInv, NodeInv
  <2>4. SuccessInv'
    BY <1>3, <2>3 DEF SharedInv, SuccessInv
  <2> QED
    BY <1>4, <1>5, <2>2, <2>4 DEF SharedInv
<1>8. CASE Architect
  <2>1. /\ node = "architect" /\ node' = "human_gate" /\ plan' = plans + 1
        /\ UNCHANGED <<feedback, passed>>
    BY <1>8 DEF Architect, Advance, history
  <2>2. plan' # NoPlan
    BY <1>0, <2>1, Numbers DEF TypeCounts, NoPlan
  <2> QED
    BY <1>3, <1>4, <1>5, <2>1, <2>2 DEF SharedInv, NodeInv, PassedInv, SuccessInv
<1>9. CASE HumanGateAnswered
  <2>1. /\ answer \in {"approved", "rejected"} /\ feedback' = answer
        /\ passed' = IF answer = "approved" THEN passed \cup {plan} ELSE passed
        /\ node' = "supervisor" /\ plan' = plan
    BY <1>9 DEF HumanGateAnswered, Advance
  <2> QED
    BY <1>3, <1>4, <1>5, <2>1 DEF SharedInv, NodeInv, PassedInv, SuccessInv
<1> QED
  BY <1>6, <1>7, <1>8, <1>9

\* The end of a tool call and a run of the executor.
LEMMA SharedWork ==
  ASSUME TypeInv, SharedInv, CompletedHasWork,
         EndsUngated \/ EndsWithWrite \/ \E outcome \in {"completed", "failed"} : Executor(outcome)
  PROVE  SharedInv' /\ CompletedHasWork'
<1>0. busy => caller \in Runs
  BY DEF TypeInv, CallerInv
<1>1. ASSUME NEW outcome \in {"ok", "failed", "cancelled"}, NEW newWork,
             \A w \in newWork : w.what.kind = "policy",
             ToolDone(outcome, newWork)
      PROVE  SharedInv' /\ CompletedHasWork'
  <2>1. /\ busy /\ node = "tool_dispatcher" /\ node' = "end" /\ ~fresh' /\ status' = status
        /\ toolResult' = outcome
        /\ outcomes' = IF outcome = "ok" THEN outcomes \cup {<<caller, "tool ok">>} ELSE outcomes
        /\ rerouted' = rerouted \cup {w \in newWork : w.what # pending}
        /\ UNCHANGED <<plan, execOut, feedback, passed, shared>>
    BY <1>1 DEF ToolDone, Advance
  <2>2. NodeInv' /\ PassedInv' /\ AskedInv'
    BY <2>1 DEF SharedInv, NodeInv, PassedInv, AskedInv
  <2>3. ReroutedInv'
    BY <1>1, <2>1 DEF SharedInv, ReroutedInv
  <2>4. SuccessInv'
    BY <1>0, <2>1 DEF SharedInv, SuccessInv
  <2>5. CompletedHasWork'
    BY <2>1, CompletedGrows
  <2> QED
    BY <2>2, <2>3, <2>4, <2>5 DEF SharedInv
<1>2. CASE EndsUngated
  BY <1>1, <1>2 DEF EndsUngated
<1>3. CASE EndsWithWrite
  <2>1. PICK a \in GatedActions, outcome \in {"ok", "failed", "cancelled"} :
          ToolDone(outcome, {Write(a)})
    BY <1>3 DEF EndsWithWrite
  <2>2. \A w \in {Write(a)} : w.what.kind = "policy"
    BY DEF Write
  <2> QED
    BY <1>1, <2>1, <2>2
<1>4. ASSUME NEW outcome \in {"completed", "failed"}, Executor(outcome)
      PROVE  SharedInv' /\ CompletedHasWork'
  <2>1. /\ busy /\ node = "executor" /\ node' = "supervisor" /\ ~fresh' /\ status' = status
        /\ execOut' = outcome
        /\ outcomes' = outcomes \cup {<<caller, IF outcome = "completed" THEN "executor completed"
                                                ELSE "executor failed">>}
        /\ UNCHANGED <<plan, feedback, toolResult, passed, rerouted, shared>>
    BY <1>4 DEF Executor, Advance
  <2>2. NodeInv' /\ PassedInv' /\ AskedInv' /\ ReroutedInv'
    BY <2>1 DEF SharedInv, NodeInv, PassedInv, AskedInv, ReroutedInv
  <2>3. SuccessInv'
    BY <1>0, <2>1 DEF SharedInv, SuccessInv
  <2>4. CompletedHasWork'
    BY <2>1, CompletedGrows
  <2> QED
    BY <2>2, <2>3, <2>4 DEF SharedInv
<1> QED
  BY <1>2, <1>3, <1>4

\* A gate that asks, and an invocation that stops.
LEMMA SharedEnds ==
  ASSUME TypeInv, SharedInv, CompletedHasWork, ~shared => OwnSuccess',
         \/ PolicyAsks \/ HumanGateAsks \/ ArchitectFails \/ DispatcherFails \/ HumanGateRaises
         \/ ExecutorFails \/ RecursionError \/ Finish
  PROVE  SharedInv' /\ CompletedHasWork'
<1>0. /\ status \in [Runs -> {"new", "running", "interrupted", "completed", "error", "cancelled"}]
      /\ busy => caller \in Runs
      /\ toolResult \in {"none", "ok", "failed", "cancelled"}
  BY TypeParts DEF TypeInv, TypeLoop, TypeState, CallerInv
<1>1. /\ busy /\ ~busy' /\ SameChannels /\ shared' = shared
      /\ \E s \in {"interrupted", "completed", "error", "cancelled"} :
           status' = [status EXCEPT ![caller] = s]
  <2>1. CASE PolicyAsks \/ HumanGateAsks
    BY <2>1 DEF PolicyAsks, HumanGateAsks, Interrupt, channels, history, SameChannels
  <2>2. CASE ArchitectFails \/ DispatcherFails \/ HumanGateRaises \/ ExecutorFails
             \/ RecursionError \/ Finish
    <3>1. Stop
      BY <2>2, StopEffect DEF ArchitectFails, DispatcherFails, HumanGateRaises, ExecutorFails, Nodes
    <3>2. UNCHANGED <<outcomes, passed, rerouted, shared>>
      BY <2>2, Zenon
        DEF ArchitectFails, DispatcherFails, HumanGateRaises, ExecutorFails, RecursionError,
            Finish, history
    <3> QED
      BY <3>1, <3>2 DEF Stop, channels, SameChannels
  <2> QED
    BY <2>1, <2>2
<1>2. NodeInv' /\ PassedInv' /\ AskedInv' /\ ReroutedInv'
  BY <1>1 DEF SharedInv, NodeInv, PassedInv, AskedInv, ReroutedInv, SameChannels
<1>3. SuccessInv'
  BY <1>1 DEF SharedInv, SuccessInv, SameChannels
<1>4. CASE ~shared
  <2>1. CompletedHasWork'
    BY <1>1, <1>4 DEF OwnSuccess, CompletedHasWork
  <2> QED
    BY <1>2, <1>3, <2>1 DEF SharedInv
<1>5. CASE shared
  <2>1. status'[caller] = "completed" =>
          \E o \in {"tool ok", "executor completed"} : \E by \in Runs : <<by, o>> \in outcomes
    <3> SUFFICES ASSUME status'[caller] = "completed"
                 PROVE  \E o \in {"tool ok", "executor completed"} :
                          \E by \in Runs : <<by, o>> \in outcomes
      OBVIOUS
    <3>1. CASE Finish
      <4>1. busy /\ node = "end" /\ toolResult \notin {"failed", "cancelled"}
        BY <1>0, <1>1, <3>1, FinishCompletes
      <4> QED
        BY <1>0, <4>1 DEF SharedInv, SuccessInv
    <3>2. CASE ~Finish
      <4>1. RecursionError \/ (\E n : Raise(n)) \/ \E n, q : Interrupt(n, q)
        BY <3>2 DEF PolicyAsks, HumanGateAsks, ArchitectFails, DispatcherFails, HumanGateRaises,
                    ExecutorFails
      <4>2. \E st \in {"error", "interrupted"} : status' = [status EXCEPT ![caller] = st]
        BY <4>1 DEF RecursionError, Raise, Interrupt
      <4> QED
        BY <1>0, <1>1, <4>2
    <3> QED
      BY <3>1, <3>2
  <2>2. CompletedHasWork'
    BY <1>0, <1>1, <1>5, <2>1 DEF CompletedHasWork, SameChannels
  <2> QED
    BY <1>2, <1>3, <2>2 DEF SharedInv
<1> QED
  BY <1>4, <1>5

\* A superstep starts no run.
LEMMA StepKeepsShared == Step => shared' = shared
BY DispatcherEffect
  DEF Step, Planner, Supervisor, Architect, HumanGateAnswered, GivesUp, EndsUngated,
      EndsWithWrite, ToolDone, Executor, PolicyAsks, HumanGateAsks, Interrupt,
      ArchitectFails, DispatcherFails, HumanGateRaises, ExecutorFails, RecursionError, Finish,
      history

\* Every step keeps the invariant.
LEMMA GraphNext ==
  ASSUME GraphInv, [Next]_vars
  PROVE  GraphInv'
<1>1. TypeInv /\ SharedInv /\ CompletedHasWork /\ (~shared => ThreadInv /\ OwnSuccess)
  BY DEF GraphInv
<1>2. TypeInv'
  BY <1>1, TypeNext
<1>3. CASE UNCHANGED vars
  <2>1. SharedInv' /\ CompletedHasWork'
    BY <1>1, <1>3
      DEF vars, SharedInv, NodeInv, PassedInv, AskedInv, SuccessInv, ReroutedInv, CompletedHasWork
  <2>2. ~shared' => ThreadInv' /\ OwnSuccess'
    BY <1>1, <1>3
      DEF vars, ThreadInv, OwnerInv, NodeInv, GateInv, AnswerInv, ConsentInv, ResultInv, Live,
          Waiting, PlanPrompt, OwnSuccess
  <2> QED
    BY <1>2, <2>1, <2>2 DEF GraphInv
<1>4. ASSUME NEW r \in Runs, NEW q \in Requests, StartRun(r, q)
      PROVE  GraphInv'
  <2>1. SharedInv' /\ CompletedHasWork'
    BY <1>1, <1>4, SharedInvoke
  <2>2. ~shared' => ~shared
    BY <1>4 DEF StartRun
  <2>3. ~shared' => ThreadInv' /\ OwnSuccess'
    BY <1>1, <1>4, <2>2, ThreadStart
  <2> QED
    BY <1>2, <2>1, <2>3 DEF GraphInv
<1>5. ASSUME NEW r \in Runs, NEW a \in Answers, ResumeRun(r, a)
      PROVE  GraphInv'
  <2>1. SharedInv' /\ CompletedHasWork'
    BY <1>1, <1>5, SharedInvoke
  <2>2. shared' = shared
    BY <1>5 DEF ResumeRun, history
  <2>3. ~shared' => ThreadInv' /\ OwnSuccess'
    BY <1>1, <1>5, <2>2, ThreadResume
  <2> QED
    BY <1>2, <2>1, <2>3 DEF GraphInv
<1>6. CASE Step
  <2>1. shared' = shared
    BY <1>6, StepKeepsShared
  <2>2. CASE Planner \/ Supervisor \/ GivesUp \/ Architect \/ HumanGateAnswered
    BY <1>1, <1>2, <2>1, <2>2, SharedNodes, ThreadNodes DEF GraphInv
  <2>3. CASE EndsUngated \/ EndsWithWrite \/ \E outcome \in {"completed", "failed"} : Executor(outcome)
    BY <1>1, <1>2, <2>1, <2>3, SharedWork, ThreadWork DEF GraphInv
  <2>4. CASE \/ PolicyAsks \/ HumanGateAsks \/ ArchitectFails \/ DispatcherFails
             \/ HumanGateRaises \/ ExecutorFails \/ RecursionError \/ Finish
    <3>1. ~shared => ThreadInv' /\ OwnSuccess'
      BY <1>1, <2>4, ThreadAsks, ThreadStops
    <3>2. SharedInv' /\ CompletedHasWork'
      BY <1>1, <2>4, <3>1, SharedEnds
    <3> QED
      BY <1>2, <2>1, <3>1, <3>2 DEF GraphInv
  <2> QED
    BY <1>6, <2>2, <2>3, <2>4, DispatcherEffect, Zenon DEF Step
<1> QED
  BY <1>3, <1>4, <1>5, <1>6 DEF Next

\* The thread starts with it.
LEMMA GraphInit == Init => GraphInv
BY TypeInit, SharedInit DEF GraphInv

\* In every behaviour a run counts as completed only when a tool or the executor
\* succeeded on its thread, and it was the run's own success while no run started
\* beside another one at its gate: a checkpoint never hands a later run the result of
\* an earlier one.
THEOREM CompletionIsEarned == Spec => []CompletedHasWork
<1>1. GraphInv => CompletedHasWork
  BY DEF GraphInv
<1> QED
  BY <1>1, GraphInit, GraphNext, PTL DEF Spec

-----------------------------------------------------------------------------
(* Consent.                                                                *)

\* What was consented to stays consented to.
ConsentKept == \A r \in Runs : okd[r] \subseteq okd'[r]

\* Only an approval changes what is consented to, and it adds to it.
LEMMA ConsentGrows ==
  ASSUME TypeInv, Next
  PROVE  ConsentKept
<1>0. okd \in [Runs -> SUBSET Prompts]
  BY TypeParts DEF TypeInv, TypeLoop
<1>1. ASSUME NEW r \in Runs, NEW a \in Answers, ResumeRun(r, a)
      PROVE  ConsentKept
  <2>1. okd' = [okd EXCEPT ![r] = IF a = "approved" THEN @ \cup {prompt[r]} ELSE @]
    BY <1>1 DEF ResumeRun
  <2> QED
    BY <1>0, <2>1 DEF ConsentKept
<1>2. ASSUME NEW r \in Runs, NEW q \in Requests, StartRun(r, q)
      PROVE  ConsentKept
  BY <1>2 DEF StartRun, ConsentKept
<1>3. CASE Step
  <2>1. okd' = okd
    BY <1>3, DispatcherEffect, StopEffect
      DEF Step, Planner, Supervisor, Architect, HumanGateAnswered, GivesUp, EndsUngated,
          EndsWithWrite, ToolDone, Executor, PolicyAsks, HumanGateAsks, Advance, Interrupt,
          ArchitectFails, DispatcherFails, HumanGateRaises, ExecutorFails, Raise,
          RecursionError, Finish
  <2> QED
    BY <2>1 DEF ConsentKept
<1> QED
  BY <1>1, <1>2, <1>3 DEF Next

\* What the gates let through stays known.
LEMMA HistoryGrows ==
  ASSUME Next
  PROVE  passed \subseteq passed' /\ rerouted \subseteq rerouted' /\ (shared => shared')
<1>1. CASE Step
  <2>1. passed \subseteq passed' /\ rerouted \subseteq rerouted'
    BY <1>1, DispatcherEffect
      DEF Step, Planner, Supervisor, Architect, HumanGateAnswered, GivesUp, EndsUngated,
          EndsWithWrite, ToolDone, Executor, PolicyAsks, HumanGateAsks, Interrupt,
          ArchitectFails, DispatcherFails, HumanGateRaises, ExecutorFails, RecursionError,
          Finish, history
  <2> QED
    BY <1>1, <2>1, StepKeepsShared
<1>2. CASE ~Step
  <2>1. passed' = passed /\ rerouted' = rerouted
    BY <1>2 DEF Next, StartRun, ResumeRun, history
  <2>2. shared => shared'
    BY <1>2, Zenon DEF Next, StartRun, ResumeRun, history
  <2> QED
    BY <2>1, <2>2
<1> QED
  BY <1>1, <1>2

\* What OnlyApprovedWork says of one piece of work.
Approved(w) ==
  /\ IF w.what.kind = "plan" THEN w.what.what \in passed ELSE okd[w.by] # {}
  /\ ~shared => IF w \in rerouted THEN \E p \in okd[w.by] : p.kind = "policy"
                                  ELSE w.what \in okd[w.by]

\* A write that the answer allowed rests on the call its operator was shown.
LEMMA WriteApproved ==
  ASSUME GraphInv, NEW a \in GatedActions, NEW outcome \in {"ok", "failed", "cancelled"},
         fresh, answer = "approved", ToolDone(outcome, {Write(a)})
  PROVE  Approved(Write(a))'
<1>1. /\ busy /\ node = "tool_dispatcher" /\ caller' = caller /\ okd' = okd
      /\ shared' = shared
      /\ rerouted' = rerouted \cup {w \in {Write(a)} : w.what # pending}
  BY DEF ToolDone, Advance
<1>2. okd[caller] # {}
  BY <1>1 DEF GraphInv, SharedInv, AskedInv
<1>3. ASSUME ~shared
      PROVE  pending \in okd[caller] /\ pending.kind = "policy"
  BY <1>1, <1>3 DEF GraphInv, ThreadInv, GateInv, AnswerInv
<1>4. Write(a)' = Write(a) /\ Write(a).by = caller /\ Write(a).what.kind = "policy"
  BY <1>1 DEF Write
<1>5. Write(a) \notin rerouted' => Write(a).what = pending
  BY <1>1
<1>6. ASSUME ~shared
      PROVE  IF Write(a) \in rerouted' THEN \E p \in okd[caller] : p.kind = "policy"
                                       ELSE Write(a).what \in okd[caller]
  BY <1>3, <1>5, <1>6
<1> HIDE DEF Write
<1> QED
  BY <1>1, <1>2, <1>4, <1>6 DEF Approved

\* So does a brief that is executed on the gate it passed.
LEMMA BriefApproved ==
  ASSUME GraphInv, busy, node = "executor",
         UNCHANGED <<plan, caller, okd, passed, rerouted, shared>>
  PROVE  Approved(Did)'
<1>1. feedback = "approved" /\ plan \in passed
  BY DEF GraphInv, SharedInv, NodeInv, PassedInv
<1>2. ~shared => PlanPrompt \in okd[caller]
  BY <1>1 DEF GraphInv, ThreadInv, ConsentInv, Live
<1>3. Did' = Did /\ Did.by = caller /\ Did.what = PlanPrompt /\ PlanPrompt.kind = "plan"
      /\ PlanPrompt.what = plan
  BY DEF Did, PlanPrompt
<1>4. Did \notin rerouted
  BY <1>3 DEF GraphInv, SharedInv, ReroutedInv
<1> HIDE DEF Did, PlanPrompt
<1> QED
  BY <1>1, <1>2, <1>3, <1>4 DEF Approved

\* New work is approved work.
LEMMA WorkApproved ==
  ASSUME GraphInv, Next, NEW w \in work', w \notin work
  PROVE  Approved(w)'
<1>1. CASE EndsWithWrite
  <2>1. PICK a \in GatedActions, outcome \in {"ok", "failed", "cancelled"} :
          fresh /\ answer = "approved" /\ ToolDone(outcome, {Write(a)})
    BY <1>1 DEF EndsWithWrite
  <2>2. w = Write(a) /\ caller' = caller
    BY <2>1 DEF ToolDone, Advance
  <2>3. Write(a)' = Write(a)
    BY <2>2 DEF Write
  <2>4. Approved(Write(a))'
    BY <2>1, WriteApproved
  <2> QED
    BY <2>2, <2>3, <2>4 DEF Approved
<1>2. CASE ExecutorFails \/ \E outcome \in {"completed", "failed"} : Executor(outcome)
  <2>1. /\ w = Did /\ busy /\ node = "executor"
        /\ UNCHANGED <<plan, caller, okd, passed, rerouted, shared>>
    BY <1>2 DEF ExecutorFails, Raise, Executor, Advance, channels
  <2>2. Approved(Did)' /\ Did' = Did
    BY <2>1, BriefApproved DEF Did
  <2> QED
    BY <2>1, <2>2 DEF Approved
<1>3. CASE ~ (EndsWithWrite \/ ExecutorFails \/ \E outcome \in {"completed", "failed"} : Executor(outcome))
  <2>1. work' = work
    BY <1>3, DispatcherEffect
      DEF Next, Step, StartRun, ResumeRun, Planner, Supervisor, Architect, HumanGateAnswered,
          GivesUp, EndsUngated, ToolDone, PolicyAsks, HumanGateAsks, Interrupt,
          ArchitectFails, DispatcherFails, HumanGateRaises, RecursionError, Finish, history
  <2> QED
    BY <2>1
<1> QED
  BY <1>1, <1>2, <1>3

\* Work that was approved stays so.
LEMMA ApprovedStays ==
  ASSUME GraphInv, Next, NEW w \in work, Approved(w)
  PROVE  Approved(w)'
<1>1. ConsentKept /\ passed \subseteq passed' /\ rerouted \subseteq rerouted' /\ (shared => shared')
  BY ConsentGrows, HistoryGrows DEF GraphInv
<1>2. w \in [by : Runs, what : Prompts]
  BY TypeParts DEF GraphInv, TypeInv, TypeState
<1>3. okd[w.by] \subseteq okd'[w.by]
  BY <1>1, <1>2 DEF ConsentKept
<1>4. w \in rerouted' => w \in rerouted \/ w.what.kind = "policy"
  <2>1. GraphInv'
    BY GraphNext
  <2> QED
    BY <2>1 DEF GraphInv, SharedInv, ReroutedInv
<1> QED
  BY <1>1, <1>3, <1>4 DEF Approved

\* In every behaviour gated work is done only with consent, whoever shares the
\* thread: the executor works on briefs the human gate let through and a gated call
\* is done for a run whose operator approved something; while no run started beside
\* another one at its gate, it is the consent of the run's own operator to that very
\* brief or call (or to the call shown, when the router model then chose another):
\* what a checkpoint carries across rejections, retries, errors and later runs never
\* stands in for it.
THEOREM WorkIsApproved == Spec => []OnlyApprovedWork
<1>1. Init => OnlyApprovedWork
  BY DEF Init, OnlyApprovedWork
<1>2. ASSUME GraphInv, OnlyApprovedWork, [Next]_vars
      PROVE  OnlyApprovedWork'
  <2>1. CASE UNCHANGED vars
    BY <1>2, <2>1 DEF vars, OnlyApprovedWork
  <2>2. CASE Next
    <3>1. \A w \in work : Approved(w)
      BY <1>2 DEF OnlyApprovedWork, Approved
    <3>2. \A w \in work' : Approved(w)'
      BY <1>2, <2>2, <3>1, WorkApproved, ApprovedStays
    <3> QED
      BY <3>2 DEF OnlyApprovedWork, Approved
  <2> QED
    BY <1>2, <2>1, <2>2
<1> QED
  BY <1>1, <1>2, GraphInit, GraphNext, PTL DEF Spec

-----------------------------------------------------------------------------
(* The recursion limit.                                                    *)

NoExecutorFailure == <<caller, "executor failed">> \notin outcomes

\* No invocation needs more than six supersteps, and all need one.
LEMMA NeedBound ==
  /\ Need \in 1..6
  /\ Need' \in 1..6
BY DEF Need

\* One superstep uses one unit of the budget and brings the invocation one nearer
\* to its end or to its next interrupt.
LEMMA BudgetAdvance ==
  ASSUME TypeCounts, BudgetInv, NEW n, NEW to, Advance(n, to),
         outcomes \subseteq outcomes', NoExecutorFailure' => Need' =< Need - 1
  PROVE  BudgetInv'
<1>1. busy /\ busy' = busy /\ caller' = caller /\ budget' = budget - 1
  BY DEF Advance
<1>2. budget \in Nat
  BY Numbers DEF TypeCounts
<1>3. ASSUME NoExecutorFailure'
      PROVE  budget' >= Need'
  <2>1. budget >= Need
    BY <1>1, <1>3 DEF BudgetInv, NoExecutorFailure
  <2> QED
    BY <1>1, <1>2, <1>3, <2>1, NeedBound
<1> QED
  BY <1>3 DEF BudgetInv, NoExecutorFailure

\* The nodes that do no work.
LEMMA BudgetNodes ==
  ASSUME GraphInv, BudgetInv, Planner \/ Supervisor \/ GivesUp \/ Architect \/ HumanGateAnswered
  PROVE  BudgetInv'
<1>0. TypeState /\ TypeCounts /\ NodeInv
  BY TypeParts DEF GraphInv, TypeInv, SharedInv
<1>1. outcomes \subseteq outcomes'
  BY DEF Planner, Supervisor, GivesUp, Architect, HumanGateAnswered, history
<1>2. CASE Planner
  <2>1. node = "planner" /\ node' = "supervisor"
    BY <1>2 DEF Planner, Advance
  <2>2. Need = 6 /\ Need' =< 5
    BY <2>1 DEF Need
  <2> QED
    BY <1>0, <1>1, <1>2, <2>2, BudgetAdvance DEF Planner
<1>3. CASE Supervisor
  <2>1. node = "supervisor" /\ node' = Route /\ ~fresh' /\ NodeInv
    BY <1>0, <1>3 DEF Supervisor, Advance
  <2>2. busy
    BY <1>3 DEF Supervisor, Advance
  <2>3. CASE Route = "end"
    <3>1. execOut = "completed"
      BY <1>0, <2>1, <2>2, <2>3, RouteFacts DEF NodeInv
    <3> QED
      BY <1>0, <1>1, <1>3, <2>1, <2>3, <3>1, BudgetAdvance DEF Supervisor, Need
  <2>4. CASE Route = "executor"
    <3>1. execOut # "completed" /\ feedback = "approved"
      BY <1>0, <2>4, RouteFacts
    <3> QED
      BY <1>0, <1>1, <1>3, <2>1, <2>4, <3>1, BudgetAdvance DEF Supervisor, Need
  <2>5. CASE Route = "architect"
    <3>1. execOut # "completed" /\ feedback # "approved"
      BY <1>0, <2>5, RouteFacts
    <3> QED
      BY <1>0, <1>1, <1>3, <2>1, <2>5, <3>1, BudgetAdvance DEF Supervisor, Need
  <2>6. CASE Route = "tool_dispatcher"
    <3>1. execOut # "completed" /\ feedback = "none" /\ ~escalated
      BY <1>0, <2>6, RouteFacts
    <3>2. Need = 5
      BY <2>1, <3>1 DEF Need
    <3>3. Need' = 4
      BY <2>1, <2>6 DEF Need
    <3> QED
      BY <1>0, <1>1, <1>3, <3>2, <3>3, BudgetAdvance DEF Supervisor
  <2> QED
    BY <1>0, <2>3, <2>4, <2>5, <2>6, RouteFacts
<1>4. CASE GivesUp
  <2>1. /\ node = "tool_dispatcher" /\ node' = "supervisor" /\ escalated'
        /\ execOut' = execOut /\ feedback' = "none"
    BY <1>0, <1>4 DEF GivesUp, Advance, NodeInv
  <2>2. Need = 4 /\ Need' =< 3
    BY <2>1 DEF Need
  <2> QED
    BY <1>0, <1>1, <1>4, <2>2, BudgetAdvance DEF GivesUp
<1>5. CASE Architect
  <2>1. node = "architect" /\ node' = "human_gate" /\ ~fresh'
    BY <1>5 DEF Architect, Advance
  <2>2. Need = 2 /\ Need' = 1
    BY <2>1 DEF Need
  <2> QED
    BY <1>0, <1>1, <1>5, <2>2, BudgetAdvance DEF Architect
<1>6. CASE HumanGateAnswered
  <2>1. /\ node = "human_gate" /\ node' = "supervisor" /\ fresh
        /\ feedback' \in {"approved", "rejected"}
    BY <1>6 DEF HumanGateAnswered, Advance
  <2>2. Need = 5 /\ Need' =< 4
    BY <2>1 DEF Need
  <2> QED
    BY <1>0, <1>1, <1>6, <2>2, BudgetAdvance DEF HumanGateAnswered
<1> QED
  BY <1>2, <1>3, <1>4, <1>5, <1>6

\* The end of a tool call and a run of the executor.
LEMMA BudgetWork ==
  ASSUME GraphInv, BudgetInv,
         EndsUngated \/ EndsWithWrite \/ \E outcome \in {"completed", "failed"} : Executor(outcome)
  PROVE  BudgetInv'
<1>0. TypeCounts
  BY TypeParts DEF GraphInv, TypeInv
<1>1. ASSUME NEW outcome \in {"ok", "failed", "cancelled"}, NEW newWork,
             ToolDone(outcome, newWork)
      PROVE  BudgetInv'
  <2>1. node = "tool_dispatcher" /\ node' = "end"
    BY <1>1 DEF ToolDone, Advance
  <2>2. Need = 4 /\ Need' = 1
    BY <2>1 DEF Need
  <2>3. outcomes \subseteq outcomes'
    BY <1>1 DEF ToolDone
  <2>4. Advance("tool_dispatcher", "end")
    BY <1>1 DEF ToolDone
  <2>5. Need' =< Need - 1
    BY <2>2
  <2> QED
    BY <1>0, <2>3, <2>4, <2>5, BudgetAdvance
<1>2. CASE EndsUngated \/ EndsWithWrite
  BY <1>1, <1>2 DEF EndsUngated, EndsWithWrite
<1>3. ASSUME NEW outcome \in {"completed", "failed"}, Executor(outcome)
      PROVE  BudgetInv'
  <2>1. /\ node = "executor" /\ node' = "supervisor" /\ execOut' = outcome /\ caller' = caller
        /\ outcomes' = outcomes \cup {<<caller, IF outcome = "completed" THEN "executor completed"
                                                ELSE "executor failed">>}
    BY <1>3 DEF Executor, Advance
  <2>2. NoExecutorFailure' => outcome = "completed"
    BY <2>1 DEF NoExecutorFailure
  <2>3. Need = 3 /\ (outcome = "completed" => Need' = 2)
    BY <2>1 DEF Need
  <2>4. Advance("executor", "supervisor")
    BY <1>3 DEF Executor
  <2>5. NoExecutorFailure' => Need' =< Need - 1
    BY <2>2, <2>3
  <2>6. outcomes \subseteq outcomes'
    BY <2>1
  <2> QED
    BY <1>0, <2>4, <2>5, <2>6, BudgetAdvance
<1> QED
  BY <1>2, <1>3

\* Whatever leaves the latest failure alone leaves its caller alone.
FailureKept == failure' = failure /\ caller' = caller /\ outcomes \subseteq outcomes'

\* Every step keeps the budget's invariant and the claim it is there for.
LEMMA LimitNext ==
  ASSUME RecursionLimit >= 6, GraphInv, BudgetInv, LimitOnlyStopsRetries, [Next]_vars
  PROVE  BudgetInv' /\ LimitOnlyStopsRetries'
<1>1. ASSUME FailureKept
      PROVE  LimitOnlyStopsRetries'
  BY <1>1 DEF FailureKept, LimitOnlyStopsRetries
<1>2. ASSUME NEW r \in Runs,
             \/ \E q \in Requests : StartRun(r, q)
             \/ \E a \in Answers : ResumeRun(r, a)
      PROVE  BudgetInv' /\ LimitOnlyStopsRetries'
  <2>1. failure' = "none" /\ budget' \in {RecursionLimit, RecursionLimit + 2}
    BY <1>2 DEF StartRun, ResumeRun, Invoke
  <2>2. budget' >= Need'
    BY <2>1, NeedBound, Numbers
  <2> QED
    BY <2>1, <2>2 DEF BudgetInv, LimitOnlyStopsRetries
<1>3. CASE Planner \/ Supervisor \/ GivesUp \/ Architect \/ HumanGateAnswered
  <2>1. FailureKept
    BY <1>3 DEF Planner, Supervisor, GivesUp, Architect, HumanGateAnswered, Advance, history,
                FailureKept
  <2> QED
    BY <1>1, <1>3, <2>1, BudgetNodes
<1>4. CASE EndsUngated \/ EndsWithWrite \/ \E outcome \in {"completed", "failed"} : Executor(outcome)
  <2>1. FailureKept
    BY <1>4 DEF EndsUngated, EndsWithWrite, ToolDone, Executor, Advance, FailureKept
  <2> QED
    BY <1>1, <1>4, <2>1, BudgetWork
<1>5. CASE PolicyAsks \/ HumanGateAsks
  <2>1. FailureKept /\ ~busy'
    BY <1>5 DEF PolicyAsks, HumanGateAsks, Interrupt, history, FailureKept
  <2> QED
    BY <1>1, <2>1 DEF BudgetInv
<1>6. CASE ArchitectFails \/ DispatcherFails \/ HumanGateRaises \/ ExecutorFails
  <2>1. failure' = "node" /\ ~busy'
    BY <1>6 DEF ArchitectFails, DispatcherFails, HumanGateRaises, ExecutorFails, Raise
  <2> QED
    BY <2>1 DEF BudgetInv, LimitOnlyStopsRetries
<1>7. CASE RecursionError
  <2>1. busy /\ budget = 0 /\ ~busy' /\ caller' = caller /\ outcomes' = outcomes
    BY <1>7 DEF RecursionError, history
  <2>2. ~ (budget >= Need)
    BY <2>1, NeedBound
  <2>3. <<caller, "executor failed">> \in outcomes
    BY <2>1, <2>2 DEF BudgetInv
  <2> QED
    BY <2>1, <2>3 DEF BudgetInv, LimitOnlyStopsRetries
<1>8. CASE Finish
  <2>1. FailureKept /\ ~busy'
    BY <1>8 DEF Finish, history, FailureKept
  <2> QED
    BY <1>1, <2>1 DEF BudgetInv
<1>9. CASE UNCHANGED vars
  <2>1. FailureKept
    BY <1>9 DEF vars, FailureKept
  <2>2. BudgetInv'
    BY <1>9 DEF vars, BudgetInv, Need
  <2> QED
    BY <1>1, <2>1, <2>2
<1>10. CASE Step
  BY <1>10, <1>3, <1>4, <1>5, <1>6, <1>7, <1>8, DispatcherEffect, Zenon DEF Step
<1> QED
  BY <1>2, <1>9, <1>10 DEF Next

\* A recursion limit of six or more (the code has seven) stops only invocations whose
\* executor failed, whoever shares the thread: a task that is classified, escalated,
\* planned, rejected, replanned, approved and executed stays within it.
THEOREM LimitIsEnough ==
  ASSUME RecursionLimit >= 6
  PROVE  Spec => []LimitOnlyStopsRetries
<1>1. Init => BudgetInv /\ LimitOnlyStopsRetries
  BY DEF Init, BudgetInv, LimitOnlyStopsRetries
<1>2. ASSUME GraphInv, BudgetInv, LimitOnlyStopsRetries, [Next]_vars
      PROVE  BudgetInv' /\ LimitOnlyStopsRetries'
  BY <1>2, LimitNext
<1> QED
  BY <1>1, <1>2, GraphInit, GraphNext, PTL DEF Spec

=============================================================================
