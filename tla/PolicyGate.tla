----------------------------- MODULE PolicyGate -----------------------------
(***************************************************************************)
(* The policy gate in front of an action (agent_os/policy.py, memory_gate.  *)
(* py) and the rules operators teach it (permission_store.py).              *)
(*                                                                         *)
(* A call is one action a run proposes.  apply_policy evaluates it and       *)
(* executes it, refuses it, or interrupts the run and waits for an answer.   *)
(* LangGraph resumes a node from its first line, so with the answer at hand  *)
(* the call is evaluated again before the answer is looked at.  Reading the   *)
(* store, reading the run's grants and storing what was answered are steps   *)
(* of their own: threads and processes that gate other calls, operators who  *)
(* revoke rules and the end of the run come between them.                   *)
(***************************************************************************)
EXTENDS Naturals, FiniteSets

CONSTANTS Calls,     \* proposed actions
          Runs,      \* sessions: server runs or command line invocations
          CliRuns,   \* the ones the command line streams
          RunOf,     \* the run that makes each call
          Keys,      \* permission keys: connector, mode and note
          Proposals, \* what may be proposed: side effect, key or None, built-in exception
          Engines,   \* how the workspace's policy may be composed
          None

Effects == {"read", "none", "write", "network", "communication", "payment", "privileged"}

\* derive_tier
High == {"payment", "privileged"}

\* derive_permission_key: only a memory write has a key.  builtIn marks appends to logs and
\* new briefs.
OnlyWritesAreLearned(p) == p.key # None \/ p.builtIn => p.effect = "write"

\* normalize_policy_feedback; apply_policy treats anything else like a rejection.
Answers == {"approved", "session", "always_approve", "always_deny", "rejected"}

RuleEffects == {"always_approve", "always_deny"}

\* resolve_permission_db_path: the workspace's permissions.db, and the default one.
Stores == {"workspace", "standalone"}

\* The decisions of PolicyEngine.evaluate.
Decisions == {"allow", "deny", "require_approval"}

\* The composed workspace policy: its mode and what its plugins say, if it has any; and
\* whether AGENT_OS_PERMISSIONS_DB puts every rule into one database.
Compositions == [mode : {"manual", "off"}, plugins : Decisions \cup {"error", "absent"},
                 oneDb : BOOLEAN]

ASSUME GateAssumption ==
  /\ Engines \subseteq Compositions
  /\ CliRuns \subseteq Runs
  /\ RunOf \in [Calls -> Runs]
  /\ {None, "unreadable"} \cap (Keys \cup Answers) = {} /\ None # "unreadable"
  /\ Proposals \subseteq [effect : Effects, key : Keys \cup {None}, builtIn : BOOLEAN]
  /\ \A p \in Proposals : OnlyWritesAreLearned(p)

VARIABLES engine,  \* the workspace's policy
          call,    \* what each call proposes
          pc,      \* where each call is in apply_policy
          seen,    \* what its evaluation read of the store
          answer,  \* what the operator said
          rules,   \* permission_rules: effect for each store and key
          granted, \* LocalPolicy._session_approved
          over,    \* runs that have ended
          stale,   \* history: calls whose rule changed after their evaluation read it
          taught   \* history: rules that approve and were stored

vars == <<engine, call, pc, seen, answer, rules, granted, over, stale, taught>>

\* `first' and `again': the rule has been read, on the first pass and with an answer;
\* `deciding': approval is still required.
Points == {"new", "first", "waiting", "answered", "again", "deciding", "go", "executed", "refused"}

TypeOK ==
  /\ engine \in Engines
  /\ call \in [Calls -> Proposals]
  /\ pc \in [Calls -> Points]
  /\ seen \in [Calls -> RuleEffects \cup {None, "unreadable"}]
  /\ answer \in [Calls -> Answers \cup {None}]
  /\ rules \in [Stores \X Keys -> RuleEffects \cup {None}]
  /\ granted \in [Runs -> SUBSET Keys]
  /\ over \in SUBSET Runs
  /\ stale \in SUBSET Calls
  /\ taught \in SUBSET (Stores \X Keys)

\* _build_policy: LocalPolicy, or CompositePolicyEngine when plugins are configured.
Init ==
  /\ engine \in Engines
  /\ call \in [Calls -> Proposals]
  /\ pc = [c \in Calls |-> "new"]
  /\ seen = [c \in Calls |-> None]
  /\ answer = [c \in Calls |-> None]
  /\ rules = [s \in Stores \X Keys |-> None]
  /\ granted = [r \in Runs |-> {}]
  /\ over = {}
  /\ stale = {}
  /\ taught = {}

-----------------------------------------------------------------------------
(* The policy of a call.                                                   *)

Effect(c) == call[c].effect
Key(c) == call[c].key

\* _stream_pass binds the workspace's policy only if it is a LocalPolicy: the command line
\* takes a plain one, in manual mode and on the standalone store, in place of a
\* CompositePolicyEngine.  The server and `agent-os brief' keep the composite.
Replaced(c) == RunOf[c] \in CliRuns /\ engine.plugins # "absent"

Mode(c) == IF Replaced(c) THEN "manual" ELSE engine.mode
Plugins(c) == IF Replaced(c) THEN "absent" ELSE engine.plugins

\* The row of permission_rules that speaks of a call with a key.
Slot(c) == <<IF Replaced(c) /\ ~engine.oneDb THEN "standalone" ELSE "workspace", Key(c)>>

-----------------------------------------------------------------------------
(* Evaluation.                                                             *)

\* Mutant: the session grant is looked at before the rule that denies.
EvaluateSessionFirst(c) ==
  IF Mode(c) = "off" THEN "allow"
  ELSE IF Effect(c) \in High THEN "deny"
  ELSE IF Key(c) # None /\ Key(c) \in granted[RunOf[c]] THEN "allow"
  ELSE IF seen[c] = "always_deny" THEN "deny"
  ELSE IF seen[c] = "always_approve" \/ call[c].builtIn THEN "allow"
  ELSE IF Effect(c) \in {"read", "none"} THEN "allow"
  ELSE "require_approval"

\* Mutant: session grants are shared by all runs.
EvaluateSharedGrants(c) ==
  IF Mode(c) = "off" THEN "allow"
  ELSE IF Effect(c) \in High THEN "deny"
  ELSE IF seen[c] = "always_deny" THEN "deny"
  ELSE IF Key(c) # None /\ Key(c) \in UNION {granted[r] : r \in Runs} THEN "allow"
  ELSE IF seen[c] = "always_approve" \/ call[c].builtIn THEN "allow"
  ELSE IF Effect(c) \in {"read", "none"} THEN "allow"
  ELSE "require_approval"

\* LocalPolicy.evaluate after the store was asked, in the code's order.
LocalEvaluate(c) ==
  IF Mode(c) = "off" THEN "allow"
  ELSE IF Effect(c) \in High THEN "deny"
  ELSE IF seen[c] = "always_deny" THEN "deny"
  ELSE IF Key(c) # None /\ Key(c) \in granted[RunOf[c]] THEN "allow"
  ELSE IF seen[c] = "always_approve" \/ call[c].builtIn THEN "allow"
  ELSE IF Effect(c) \in {"read", "none"} THEN "allow"
  ELSE "require_approval"

\* CompositePolicyEngine.evaluate: plugins only take away, and an error of one denies.  A
\* plugin that requires approval changes nothing.
Evaluate(c) ==
  IF Plugins(c) # "absent" /\ (Effect(c) \in High \/ Plugins(c) \in {"deny", "error"})
  THEN "deny" ELSE LocalEvaluate(c)

\* The store is asked only for calls with a key, and only after mode and taxonomy.
Asks(c) == Key(c) # None /\ Mode(c) # "off" /\ Effect(c) \notin High

Goes(c, p) == pc' = [pc EXCEPT ![c] = p]

\* store.get: the rule, or nothing when the store fails (or could not be opened); the
\* failure is only logged and counts as no rule.
Sees(c) ==
  \/ seen' = [seen EXCEPT ![c] = IF Asks(c) THEN rules[Slot(c)] ELSE None]
  \/ Asks(c) /\ seen' = [seen EXCEPT ![c] = "unreadable"]

-----------------------------------------------------------------------------
(* apply_policy.                                                           *)

\* An evaluation begins: of a call its run proposes (a run with two drivers may have two
\* under way), or of one that is resumed with an answer, if only by a thread its run has
\* left behind.
Look(c) ==
  /\ \/ pc[c] = "new" /\ RunOf[c] \notin over /\ Goes(c, "first")
     \/ pc[c] = "answered" /\ Goes(c, "again")
  /\ Sees(c)
  /\ stale' = stale \ {c}
  /\ UNCHANGED <<engine, call, answer, rules, granted, over, taught>>

\* apply_policy comes to an end, or to its interrupt; what it read goes with it.
Settle(c, p) == Goes(c, p) /\ seen' = [seen EXCEPT ![c] = None]

\* First evaluation: execute, refuse, or interrupt the run.
Propose(c) ==
  /\ pc[c] = "first"
  /\ \/ Evaluate(c) = "allow" /\ Settle(c, "go")
     \/ Evaluate(c) = "deny" /\ Settle(c, "refused")
     \/ Evaluate(c) = "require_approval" /\ Settle(c, "waiting")
  /\ UNCHANGED <<engine, call, answer, rules, granted, over, stale, taught>>

\* The operator answers; the run is resumed.
Answer(c, a) ==
  /\ pc[c] = "waiting" /\ RunOf[c] \notin over
  /\ answer' = [answer EXCEPT ![c] = a]
  /\ Goes(c, "answered")
  /\ UNCHANGED <<engine, call, seen, rules, granted, over, stale, taught>>

\* Evaluation of the resumed node: the answer counts only if approval is still required.
Resume(c) ==
  /\ pc[c] = "again"
  /\ \/ Evaluate(c) = "allow" /\ Settle(c, "go")
     \/ Evaluate(c) = "deny" /\ Settle(c, "refused")
     \/ Evaluate(c) = "require_approval" /\ Goes(c, "deciding") /\ UNCHANGED seen
  /\ UNCHANGED <<engine, call, answer, rules, granted, over, stale, taught>>

\* Calls that have read the rule of a slot and not come to their end.
Readers(slot) == {d \in Calls : pc[d] \in {"first", "again", "deciding"} /\ Slot(d) = slot}

\* A row is written or deleted, whatever it held.
Write(slot, effect) ==
  /\ rules' = [rules EXCEPT ![slot] = effect]
  /\ stale' = stale \cup Readers(slot)
  /\ taught' = IF effect = "always_approve" THEN taught \cup {slot} ELSE taught

\* Mutant: an approval that could not be stored is good for this once.
TeachLoose(c, effect, p) ==
  \/ Write(Slot(c), effect) /\ Settle(c, p)
  \/ UNCHANGED <<rules, stale, taught>> /\ Settle(c, p)

\* store.upsert of the new effect, which may fail: then the call is not executed either.
Teach(c, effect, p) ==
  \/ Write(Slot(c), effect) /\ Settle(c, p)
  \/ UNCHANGED <<rules, stale, taught>> /\ Settle(c, "refused")

\* What the answer does to a call that needs one.  Without a key nothing can be remembered.
Decide(c) ==
  /\ pc[c] = "deciding"
  /\ \/ /\ answer[c] = "approved"
        /\ Settle(c, "go") /\ UNCHANGED <<rules, stale, taught, granted>>
     \/ /\ answer[c] = "rejected"
        /\ Settle(c, "refused") /\ UNCHANGED <<rules, stale, taught, granted>>
     \/ /\ answer[c] \in {"session", "always_approve", "always_deny"} /\ Key(c) = None
        /\ Settle(c, "refused") /\ UNCHANGED <<rules, stale, taught, granted>>
     \/ /\ answer[c] = "session" /\ Key(c) # None
        /\ granted' = [granted EXCEPT ![RunOf[c]] = @ \cup {Key(c)}]
        /\ Settle(c, "go") /\ UNCHANGED <<rules, stale, taught>>
     \/ /\ answer[c] = "always_approve" /\ Key(c) # None
        /\ Teach(c, "always_approve", "go") /\ UNCHANGED granted
     \/ /\ answer[c] = "always_deny" /\ Key(c) # None
        /\ Teach(c, "always_deny", "refused") /\ UNCHANGED granted
  /\ UNCHANGED <<engine, call, answer, over>>

\* execute_fn: gated_write hands the note to the connector, which may fail.
Execute(c) ==
  /\ pc[c] = "go"
  /\ \E p \in {"executed", "refused"} : Goes(c, p)
  /\ UNCHANGED <<engine, call, seen, answer, rules, granted, over, stale, taught>>

\* The run or the invocation ends, perhaps with a call under way: clear_session.
EndRun(r) ==
  /\ r \notin over
  /\ over' = over \cup {r}
  /\ granted' = [granted EXCEPT ![r] = {}]
  /\ UNCHANGED <<engine, call, pc, seen, answer, rules, stale, taught>>

\* revoke: the row is deleted.
Revoke(s, k) ==
  /\ rules[<<s, k>>] # None
  /\ Write(<<s, k>>, None)
  /\ UNCHANGED <<engine, call, pc, seen, answer, granted, over>>

\* DELETE /api/permissions/{key}, on the store of the server's workspace
RevokeFromApi(k) == Revoke("workspace", k)

\* agent-os permissions revoke, with or without a workspace
RevokeFromCli(k) == \E s \in Stores : Revoke(s, k)

Next ==
  \/ \E c \in Calls : Look(c) \/ Propose(c) \/ Resume(c) \/ Decide(c) \/ Execute(c)
  \/ \E c \in Calls, a \in Answers : Answer(c, a)
  \/ \E r \in Runs : EndRun(r)
  \/ \E k \in Keys : RevokeFromApi(k) \/ RevokeFromCli(k)

Spec == Init /\ [][Next]_vars

-----------------------------------------------------------------------------
(* Properties.                                                             *)

\* A call of the same run took `session' for the key of c.
SessionSaid(c) ==
  \E d \in Calls : /\ RunOf[d] = RunOf[c] /\ Key(d) = Key(c)
                   /\ answer[d] = "session" /\ pc[d] \in {"go", "executed", "refused"}

\* Nothing is executed on its own authority.  Under the policy that is bound to it, a call
\* with a high-tier effect goes ahead only in the unsafe mode without plugins, none goes
\* ahead against a plugin that denies or fails, and in manual mode what changes something
\* is a built-in exception or rests on an operator's word: the approval of this very call,
\* `session' for its key in its own run, or an `always_approve' that was stored for its
\* key.  (The word need not be the call's own: a call its operator rejected goes ahead if
\* a rule allows it by the time it is evaluated again.  And the policy bound by the
\* command line has no plugins.)
OnlyAuthorised ==
  \A c \in Calls : pc[c] \in {"go", "executed"} =>
    /\ Mode(c) = "manual" \/ Plugins(c) # "absent" => Effect(c) \notin High
    /\ Plugins(c) \notin {"deny", "error"}
    /\ Mode(c) = "manual" =>
         \/ Effect(c) \in {"read", "none"} \/ call[c].builtIn
         \/ answer[c] = "approved"
         \/ Key(c) # None /\ (SessionSaid(c) \/ Slot(c) \in taught)

\* A rule that denies wins over everything else, the operator's approval of a call that has
\* been waiting since before it was taught and the session's grants included.  It is too
\* late only for a call whose evaluation read the store before the rule was written, or
\* could not read it: that one may go ahead, and overwrite it.
DenyWins ==
  [][\A c \in Calls : /\ pc[c] # "go" /\ pc'[c] = "go"
                      /\ Mode(c) = "manual" /\ Key(c) # None
                      /\ rules[Slot(c)] = "always_deny"
                      => c \in stale \/ seen[c] = "unreadable"]_vars

\* A call that goes ahead without an answer of its own rests on something that stands, or
\* stood when its evaluation read the store: a rule revoked before and the grants of other
\* runs authorise nothing.
StandingAuthority ==
  [][\A c \in Calls : /\ pc[c] = "first" /\ pc'[c] = "go" /\ Mode(c) = "manual"
                      /\ Effect(c) \notin {"read", "none"} /\ ~call[c].builtIn
                      => \/ rules[Slot(c)] = "always_approve"
                         \/ c \in stale
                         \/ SessionSaid(c)]_vars

=============================================================================
