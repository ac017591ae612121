------------------------------ MODULE Learning ------------------------------
(***************************************************************************)
(* Outcome learning: observations of finished runs, the operator's labels,  *)
(* the strategy each new run is given and the skill candidates that are      *)
(* mined (agent_os/observations.py, strategies.py, skill_candidates.py, and *)
(* their callers in server/run_executor.py, server/runtime.py,              *)
(* server/api.py and cli/app.py).                                          *)
(*                                                                         *)
(* One workspace.  select_strategy reads the labels in one transaction and  *)
(* stores its choice in a later one, so runs that start together and an      *)
(* operator who labels meanwhile interleave with it.  Scores are the code's  *)
(* fractions, kept exact: a run's points are 2 for accepted and 1 for        *)
(* edited, its score points / (2 * labelled).                               *)
(***************************************************************************)
EXTENDS Integers, FiniteSets

CONSTANTS Runs,
          WorkflowRuns,   \* the runs whose task_kind_for_input is workflow
          Strategies,     \* strategies_for("workflow")
          Default,        \* the first of them: the fallback
          Signatures,     \* task signatures
          SignatureOf,    \* task_signature_for_input of each run's task
          Covered,        \* signatures whose candidate name is already a skill
          Unset,          \* no winner, no row, no hint, no observation
          MinLabelled,    \* MIN_LABELLED_PER_STRATEGY
          MinScore,       \* MIN_ACTIONABLE_SCORE, in percent
          MinLead,        \* MIN_ACTIONABLE_LEAD, in percent
          MinOccurrences, \* MIN_SKILL_CANDIDATE_OCCURRENCES
          MinCandidate    \* MIN_SKILL_CANDIDATE_OUTCOME_SCORE, in percent

ASSUME LearningAssumption ==
  /\ IsFiniteSet(Runs) /\ WorkflowRuns \subseteq Runs
  /\ IsFiniteSet(Strategies) /\ Default \in Strategies
  /\ SignatureOf \in [Runs -> Signatures] /\ Covered \subseteq Signatures
  /\ Unset \notin Strategies
  /\ MinLabelled \in Nat \ {0} /\ MinOccurrences \in Nat \ {0}
  /\ MinScore \in 0..100 /\ MinLead \in 1..100 /\ MinCandidate \in 0..100

Labels  == {"accepted", "rejected", "edited"}
Signals == Labels \cup {"unknown"}
Reasons == {"explicit", "evidence_backed", "exploration", "default"}
Choice  == [strategy : Strategies, reason : Reasons]

\* approach of a run that ended without a snapshot: no strategy
GraphTerminal == "graph_terminal"

Observation == [approach : Strategies \cup {GraphTerminal}, signal : Signals]

ASSUME NoRow == Unset \notin Choice \cup Observation \cup {GraphTerminal}

VARIABLES phase,    \* each run: new, deciding, running, ended
          read,     \* the winner it read from the labels, until it stores its choice
          assigned, \* strategy_assignments
          hint,     \* strategy_hint in the run's graph state
          obs       \* observations: the one of each run

learningVars == <<phase, read, assigned, hint, obs>>

LearningTypeOK ==
  /\ phase \in [Runs -> {"new", "deciding", "running", "ended"}]
  /\ read \in [Runs -> Strategies \cup {Unset}]
  /\ assigned \in [Runs -> Choice \cup {Unset}]
  /\ hint \in [Runs -> Choice \cup {Unset}]
  /\ obs \in [Runs -> Observation \cup {Unset}]

LearningInit ==
  /\ phase = [r \in Runs |-> "new"]
  /\ read = [r \in Runs |-> Unset]
  /\ assigned = [r \in Runs |-> Unset]
  /\ hint = [r \in Runs |-> Unset]
  /\ obs = [r \in Runs |-> Unset]

-----------------------------------------------------------------------------
(* What the labels say.                                                    *)

Count(R, label) == Cardinality({r \in R : obs[r] # Unset /\ obs[r].signal = label})

Labelled(R) == Count(R, "accepted") + Count(R, "rejected") + Count(R, "edited")

LabelPoints(R) == 2 * Count(R, "accepted") + Count(R, "edited")

\* aggregate_patterns: the observations of one strategy.
Of(s) == {r \in Runs : obs[r] # Unset /\ obs[r].approach = s}

\* Mutant: only strategies with exactly the least number of labels are eligible.
EligibleExactly == {s \in Strategies : Labelled(Of(s)) = MinLabelled}

Eligible == {s \in Strategies : Labelled(Of(s)) >= MinLabelled}

\* outcome_score >= percent, and the lead of s over u, both multiplied out.
ScoreAtLeast(R, percent) == 100 * LabelPoints(R) >= percent * 2 * Labelled(R)

Leads(s, u) ==
  100 * (LabelPoints(Of(s)) * Labelled(Of(u)) - LabelPoints(Of(u)) * Labelled(Of(s)))
    >= MinLead * 2 * Labelled(Of(s)) * Labelled(Of(u))

\* _evidence_winner: the best of at least two eligible strategies, good enough and far
\* enough ahead of the next one, which is to say of all of them.
EvidenceWinner ==
  LET winners == {s \in Eligible : /\ Eligible # {s}
                                   /\ ScoreAtLeast(Of(s), MinScore)
                                   /\ \A u \in Eligible \ {s} : Leads(s, u)}
  IN IF winners = {} THEN Unset ELSE CHOOSE s \in winners : TRUE

\* aggregate_task_signatures: the labelled observations of one signature.
SignedBy(g) == {r \in Runs : SignatureOf[r] = g}

\* mine_skill_candidates, read-only.
Candidates ==
  {g \in Signatures \ Covered : /\ Labelled(SignedBy(g)) >= MinOccurrences
                                /\ ScoreAtLeast(SignedBy(g), MinCandidate)}

-----------------------------------------------------------------------------
(* A run starts: initial_state, select_strategy.                           *)

\* The graph starts with the structured hint.
Start(r, c) ==
  /\ phase' = [phase EXCEPT ![r] = "running"]
  /\ hint' = [hint EXCEPT ![r] = c]

\* No strategies for this kind of task, or no observation store: nothing is recorded, the
\* hint is the fallback or, without a store, the operator's override.
SelectUnrecorded(r, s) ==
  /\ phase[r] = "new"
  /\ \/ s = Default /\ Start(r, [strategy |-> s, reason |-> "default"])
     \/ r \in WorkflowRuns /\ Start(r, [strategy |-> s, reason |-> "explicit"])
  /\ UNCHANGED <<read, assigned, obs>>

\* assign_strategy and the end of assign_balanced_exploration: BEGIN IMMEDIATE, INSERT.
Assign(r, c) == assigned' = [assigned EXCEPT ![r] = c]

\* strategy_override: no labels are read.
SelectExplicit(r, s) ==
  LET c == [strategy |-> s, reason |-> "explicit"] IN
  /\ phase[r] = "new" /\ r \in WorkflowRuns
  /\ Assign(r, c)
  /\ Start(r, c)
  /\ UNCHANGED <<read, obs>>

\* aggregate_patterns and _evidence_winner.
SelectRead(r) ==
  /\ phase[r] = "new" /\ r \in WorkflowRuns
  /\ read' = [read EXCEPT ![r] = EvidenceWinner]
  /\ phase' = [phase EXCEPT ![r] = "deciding"]
  /\ UNCHANGED <<assigned, hint, obs>>

Assignments(s) == Cardinality({r \in Runs : assigned[r] # Unset /\ assigned[r].strategy = s})

\* Mutant: a strategy without a row has no count and is left out of the minimum.
LeastAmongAssigned ==
  LET known == {s \in Strategies : Assignments(s) > 0} IN
  IF known = {} THEN Strategies
  ELSE {s \in known : \A u \in known : Assignments(s) <= Assignments(u)}

\* assign_balanced_exploration: the least assigned strategies, of which a hash picks one.
LeastAssigned == {s \in Strategies : \A u \in Strategies : Assignments(s) <= Assignments(u)}

\* The transaction that stores the choice, some time after the labels were read.
SelectAssign(r) ==
  /\ phase[r] = "deciding"
  /\ \E c \in IF read[r] # Unset
              THEN {[strategy |-> read[r], reason |-> "evidence_backed"]}
              ELSE [strategy : LeastAssigned, reason : {"exploration"}] :
       Assign(r, c) /\ Start(r, c)
  /\ read' = [read EXCEPT ![r] = Unset]
  /\ UNCHANGED obs

-----------------------------------------------------------------------------
(* A run ends: _capture_terminal_observation; the operator labels it.       *)

\* SqliteObservationStore.create, best effort.
Create(r, approach, signal) ==
  \/ obs' = [obs EXCEPT ![r] = [approach |-> approach, signal |-> signal]]
  \/ UNCHANGED obs

\* Mutant: a completed run counts as accepted.
CompleteAccepted(r) ==
  /\ phase[r] = "running"
  /\ Create(r, hint[r].strategy, "accepted")
  /\ phase' = [phase EXCEPT ![r] = "ended"]
  /\ UNCHANGED <<read, assigned, hint>>

\* Completed: the approach is that of the hint in the run's state.
Complete(r) ==
  /\ phase[r] = "running"
  /\ Create(r, hint[r].strategy, "unknown")
  /\ phase' = [phase EXCEPT ![r] = "ended"]
  /\ UNCHANGED <<read, assigned, hint>>

\* An exception, out of the graph or out of the selection: no snapshot.
Fail(r) ==
  /\ phase[r] # "ended"
  /\ Create(r, GraphTerminal, "unknown")
  /\ phase' = [phase EXCEPT ![r] = "ended"]
  /\ read' = [read EXCEPT ![r] = Unset]
  /\ UNCHANGED <<assigned, hint>>

\* A tool failure or a cancellation is not captured.
EndUncaptured(r) ==
  /\ phase[r] # "ended"
  /\ phase' = [phase EXCEPT ![r] = "ended"]
  /\ read' = [read EXCEPT ![r] = Unset]
  /\ UNCHANGED <<assigned, hint, obs>>

\* record_outcome: a label may be given at any time, and changed.
RecordOutcome(r, label) ==
  /\ obs[r] # Unset
  /\ obs' = [obs EXCEPT ![r].signal = label]
  /\ UNCHANGED <<phase, read, assigned, hint>>

\* POST /api/observations/{id}/outcome
LabelFromApi(r, label) == RecordOutcome(r, label)

\* agent-os observations record-outcome
LabelFromCli(r, label) == RecordOutcome(r, label)

LearningNext ==
  \E r \in Runs :
    \/ \E s \in Strategies : SelectUnrecorded(r, s) \/ SelectExplicit(r, s)
    \/ SelectRead(r) \/ SelectAssign(r)
    \/ Complete(r) \/ Fail(r) \/ EndUncaptured(r)
    \/ \E label \in Labels : LabelFromApi(r, label) \/ LabelFromCli(r, label)

LearningSpec == LearningInit /\ [][LearningNext]_learningVars

-----------------------------------------------------------------------------
(* Properties.                                                             *)

\* Runs that explore at the same time do not pile up on one strategy: while every row came
\* from exploration, no strategy has two rows more than another (BEGIN IMMEDIATE around the
\* count and the insert).
BalancedExploration ==
  (\A r \in Runs : assigned[r] # Unset => assigned[r].reason = "exploration")
    => \A s, u \in Strategies : Assignments(s) <= Assignments(u) + 1

\* Runs alone never change what is learned: only a label moves the evidence winner or the
\* skill candidates (docs/EXTENDING.md: a completed run is not evidence of acceptance).
OnlyLabelsTeach ==
  [][(\A r \in Runs : obs[r] # Unset => obs'[r] = obs[r])
       => /\ EvidenceWinner' = EvidenceWinner
          /\ Candidates' = Candidates]_learningVars

\* Good news never costs a strategy its place: accepting a run of the winner keeps it the
\* winner, and accepting a run of a candidate's signature keeps the candidate.
AcceptNeverDemotes ==
  [][\A r \in Runs : obs[r] # Unset /\ obs'[r] # obs[r] /\ obs'[r].signal = "accepted" =>
       /\ obs[r].approach = EvidenceWinner => EvidenceWinner' = EvidenceWinner
       /\ SignatureOf[r] \in Candidates => SignatureOf[r] \in Candidates']_learningVars

=============================================================================
