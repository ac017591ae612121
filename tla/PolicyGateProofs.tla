-------------------------- MODULE PolicyGateProofs --------------------------
(***************************************************************************)
(* Theorems about PolicyGate, for every set of calls, runs, keys and        *)
(* compositions of the policy and every assignment of calls to runs.       *)
(***************************************************************************)
EXTENDS PolicyGate, TLAPS

-----------------------------------------------------------------------------
(* What an evaluation means.                                               *)

\* Neither the taxonomy nor a plugin rules the call out.
Admissible(c) ==
  /\ Mode(c) = "manual" \/ Plugins(c) # "absent" => Effect(c) \notin High
  /\ Plugins(c) \notin {"deny", "error"}

\* The policy of a call has one of the two modes, its run is a run and its key a key or
\* None, and a call with a key has a row in one of the stores.
LEMMA CallTyped ==
  ASSUME TypeOK, NEW c \in Calls
  PROVE  /\ Mode(c) \in {"manual", "off"}
         /\ Key(c) \in Keys \cup {None}
         /\ RunOf[c] \in Runs
         /\ Key(c) # None => Slot(c) \in Stores \X Keys
<1>1. engine.mode \in {"manual", "off"}
  BY GateAssumption DEF TypeOK, Compositions
<1>2. Key(c) \in Keys \cup {None}
  BY GateAssumption DEF TypeOK, Key
<1>3. Mode(c) \in {"manual", "off"}
  BY <1>1 DEF Mode
<1>4. ASSUME Key(c) # None
      PROVE  Slot(c) \in Stores \X Keys
  BY <1>2, <1>4 DEF Slot, Stores
<1> QED
  BY <1>2, <1>3, <1>4, GateAssumption

\* `allow' in manual mode rests on the run's grants, the rule that was read, or the
\* taxonomy, and never on a rule that denies.
LEMMA AllowMeans ==
  ASSUME TypeOK, NEW c \in Calls, Evaluate(c) = "allow"
  PROVE  /\ Admissible(c)
         /\ Mode(c) = "manual" =>
              /\ seen[c] # "always_deny"
              /\ \/ Key(c) # None /\ Key(c) \in granted[RunOf[c]]
                 \/ seen[c] = "always_approve"
                 \/ call[c].builtIn
                 \/ Effect(c) \in {"read", "none"}
<1>1. LocalEvaluate(c) = "allow"
  BY DEF Evaluate
<1>2. Mode(c) = "manual" => Effect(c) \notin High /\ seen[c] # "always_deny"
  BY <1>1 DEF LocalEvaluate
<1>3. Admissible(c)
  BY <1>2 DEF Evaluate, Admissible
<1>4. ASSUME Mode(c) = "manual", ~(Key(c) # None /\ Key(c) \in granted[RunOf[c]]),
             seen[c] # "always_approve", ~call[c].builtIn, Effect(c) \notin {"read", "none"}
      PROVE  FALSE
  <2>1. ~(seen[c] = "always_approve" \/ call[c].builtIn)
    BY <1>4
  <2>2. Mode(c) # "off"
    BY <1>4
  <2> QED
    BY <1>1, <1>2, <1>4, <2>1, <2>2 DEF LocalEvaluate
<1> QED
  BY <1>2, <1>3, <1>4

\* An answer is asked for in manual mode only, and never against a rule that denies or a
\* plugin.
LEMMA ApprovalMeans ==
  ASSUME TypeOK, NEW c \in Calls, Evaluate(c) = "require_approval"
  PROVE  Admissible(c) /\ Mode(c) = "manual" /\ seen[c] # "always_deny"
<1>1. LocalEvaluate(c) = "require_approval"
  BY DEF Evaluate
<1>2. Mode(c) = "manual" /\ Effect(c) \notin High /\ seen[c] # "always_deny"
  BY <1>1, CallTyped DEF LocalEvaluate
<1> QED
  BY <1>2 DEF Evaluate, Admissible

-----------------------------------------------------------------------------
(* The inductive invariant.  OnlyAuthorised looks back to an answer or to a *)
(* rule that was stored; what is needed in between is where every grant,    *)
(* every standing rule and every rule that was read came from.             *)

Settled(d) == pc[d] \in {"go", "executed", "refused"}

\* `session' was taken for key k by a call of run r.
GivenIn(r, k) ==
  \E d \in Calls : RunOf[d] = r /\ Key(d) = k /\ answer[d] = "session" /\ Settled(d)

\* Every grant a run holds was given in that run.
GrantInv == \A r \in Runs : \A k \in granted[r] : GivenIn(r, k)

\* Every rule that approves, in a store or in the hands of an evaluation, was stored.
RuleInv == \A s \in Stores \X Keys : rules[s] = "always_approve" => s \in taught
SeenInv == \A c \in Calls : seen[c] = "always_approve" => Key(c) # None /\ Slot(c) \in taught

\* An evaluation holds the rule that stands, unless that was changed since or could not
\* be read.
FreshInv ==
  \A c \in Calls : /\ pc[c] \in {"first", "again", "deciding"} /\ Asks(c)
                   /\ c \notin stale /\ seen[c] # "unreadable"
                   => seen[c] = rules[Slot(c)]

\* A call looks at its answer only when it may go ahead.
DecidingInv ==
  \A c \in Calls : pc[c] = "deciding" =>
    Admissible(c) /\ Mode(c) = "manual" /\ seen[c] # "always_deny"

\* What a call in manual mode may rest on.
Authority(c) ==
  \/ Effect(c) \in {"read", "none"}
  \/ call[c].builtIn
  \/ answer[c] = "approved"
  \/ Key(c) # None /\ (GivenIn(RunOf[c], Key(c)) \/ Slot(c) \in taught)

AuthorityInv ==
  \A c \in Calls : pc[c] \in {"go", "executed"} =>
    Admissible(c) /\ (Mode(c) = "manual" => Authority(c))

GateInv ==
  TypeOK /\ GrantInv /\ RuleInv /\ SeenInv /\ FreshInv /\ DecidingInv /\ AuthorityInv

-----------------------------------------------------------------------------
(* The steps.                                                              *)

\* Two steps that only move calls and forget what they read, one for each outcome.
Verdict(c) ==
  /\ \E p \in {"go", "refused", "waiting"} : Settle(c, p) /\ (p = "go" => Evaluate(c) = "allow")
  /\ UNCHANGED <<engine, call, answer, rules, granted, over, stale, taught>>

\* The first evaluation is one, and so is the second unless it asks for the answer.
LEMMA VerdictEffect ==
  ASSUME NEW c \in Calls, Propose(c) \/ Resume(c)
  PROVE  /\ pc[c] \in {"first", "again"}
         /\ \/ Verdict(c)
            \/ /\ Evaluate(c) = "require_approval" /\ Goes(c, "deciding")
               /\ UNCHANGED <<engine, call, seen, answer, rules, granted, over, stale, taught>>
BY DEF Propose, Resume, Verdict

\* What taking an answer does: the call is settled, and it may have added its key to its
\* run's grants or stored the rule it was answered with.
LEMMA DecideEffect ==
  ASSUME TypeOK, NEW c \in Calls, Decide(c)
  PROVE  /\ UNCHANGED <<engine, call, answer, over>>
         /\ pc[c] = "deciding"
         /\ \E p \in {"go", "refused"} : Settle(c, p)
         /\ \/ UNCHANGED <<rules, stale, taught>>
            \/ /\ Key(c) # None /\ answer[c] \in RuleEffects
               /\ Write(Slot(c), answer[c])
         /\ \/ granted' = granted
            \/ /\ answer[c] = "session" /\ Key(c) # None
               /\ granted' = [granted EXCEPT ![RunOf[c]] = @ \cup {Key(c)}]
<1>1. /\ UNCHANGED <<engine, call, answer, over>>
      /\ pc[c] = "deciding"
  BY DEF Decide
<1>2. CASE UNCHANGED <<rules, stale, taught>> /\ (Settle(c, "go") \/ Settle(c, "refused"))
  BY <1>1, <1>2 DEF Decide, Teach
<1>3. CASE \E e \in RuleEffects, p \in {"go", "refused"} :
             /\ answer[c] = e /\ Key(c) # None /\ Write(Slot(c), e)
             /\ Settle(c, p) /\ UNCHANGED granted
  BY <1>1, <1>3
<1> QED
  BY <1>2, <1>3 DEF Decide, Teach, RuleEffects

\* A call that goes ahead on its answer was approved, for once, for the session or for
\* good, and in the last case the rule was stored.
LEMMA DecideGoes ==
  ASSUME TypeOK, NEW c \in Calls, Decide(c), pc'[c] = "go"
  PROVE  \/ answer[c] = "approved"
         \/ answer[c] = "session" /\ Key(c) # None
         \/ Key(c) # None /\ Slot(c) \in taught'
<1>1. pc \in [Calls -> Points]
  BY DEF TypeOK
<1>2. ~Settle(c, "refused")
  BY <1>1 DEF Settle, Goes
<1> QED
  BY <1>2 DEF Decide, Teach, Write

\* What each other step leaves alone.
LEMMA LookEffect ==
  ASSUME TypeOK, NEW c \in Calls, Look(c)
  PROVE  /\ UNCHANGED <<engine, call, answer, rules, granted, over, taught>>
         /\ stale' = stale \ {c}
         /\ \/ pc[c] = "new" /\ pc' = [pc EXCEPT ![c] = "first"]
            \/ pc[c] = "answered" /\ pc' = [pc EXCEPT ![c] = "again"]
         /\ \/ seen' = [seen EXCEPT ![c] = IF Asks(c) THEN rules[Slot(c)] ELSE None]
            \/ Asks(c) /\ seen' = [seen EXCEPT ![c] = "unreadable"]
BY DEF Look, Sees, Goes

\* The gate starts typed.
LEMMA TypeInit == Init => TypeOK
BY DEF Init, TypeOK, Points

\* A write keeps the types of the store.
LEMMA WriteTyped ==
  ASSUME TypeOK, NEW slot \in Stores \X Keys, NEW e \in RuleEffects \cup {None}, Write(slot, e)
  PROVE  /\ rules' \in [Stores \X Keys -> RuleEffects \cup {None}]
         /\ stale' \in SUBSET Calls
         /\ taught' \in SUBSET (Stores \X Keys)
<1>1. Readers(slot) \in SUBSET Calls
  BY DEF Readers
<1> QED
  BY <1>1 DEF TypeOK, Write

\* Every step keeps the types.
LEMMA TypeNext == TypeOK /\ [Next]_vars => TypeOK'
<1> SUFFICES ASSUME TypeOK, [Next]_vars
             PROVE  TypeOK'
  OBVIOUS
<1>1. ASSUME NEW c \in Calls, Look(c)
      PROVE  TypeOK'
  <2>1. Asks(c) => rules[Slot(c)] \in RuleEffects \cup {None}
    BY CallTyped DEF Asks, TypeOK
  <2> QED
    BY <1>1, <2>1, LookEffect DEF TypeOK, Points
<1>2. ASSUME NEW c \in Calls, Propose(c) \/ Resume(c)
      PROVE  TypeOK'
  BY <1>2, VerdictEffect DEF TypeOK, Points, Verdict, Settle, Goes
<1>3. ASSUME NEW c \in Calls, Decide(c)
      PROVE  TypeOK'
  <2>1. pc' \in [Calls -> Points] /\ seen' \in [Calls -> RuleEffects \cup {None, "unreadable"}]
    BY <1>3, DecideEffect DEF TypeOK, Points, Settle, Goes
  <2>2. /\ rules' \in [Stores \X Keys -> RuleEffects \cup {None}]
        /\ stale' \in SUBSET Calls
        /\ taught' \in SUBSET (Stores \X Keys)
    <3>1. CASE UNCHANGED <<rules, stale, taught>>
      BY <3>1 DEF TypeOK
    <3>2. CASE Key(c) # None /\ answer[c] \in RuleEffects /\ Write(Slot(c), answer[c])
      BY <3>2, CallTyped, WriteTyped
    <3> QED
      BY <1>3, <3>1, <3>2, DecideEffect
  <2>3. granted' \in [Runs -> SUBSET Keys]
    BY <1>3, DecideEffect, CallTyped DEF TypeOK
  <2> QED
    BY <1>3, <2>1, <2>2, <2>3, DecideEffect DEF TypeOK
<1>4. ASSUME NEW c \in Calls, Execute(c)
      PROVE  TypeOK'
  BY <1>4 DEF TypeOK, Points, Execute, Goes
<1>5. ASSUME NEW c \in Calls, NEW a \in Answers, Answer(c, a)
      PROVE  TypeOK'
  BY <1>5 DEF TypeOK, Points, Answer, Goes
<1>6. ASSUME NEW r \in Runs, EndRun(r)
      PROVE  TypeOK'
  BY <1>6 DEF TypeOK, EndRun
<1>7. ASSUME NEW s \in Stores, NEW k \in Keys, Revoke(s, k)
      PROVE  TypeOK'
  <2>1. Write(<<s, k>>, None) /\ <<s, k>> \in Stores \X Keys
    BY <1>7 DEF Revoke
  <2> QED
    BY <1>7, <2>1, WriteTyped DEF TypeOK, Revoke
<1>8. CASE UNCHANGED vars
  BY <1>8 DEF TypeOK, vars
<1> QED
  BY <1>1, <1>2, <1>3, <1>4, <1>5, <1>6, <1>7, <1>8
    DEF Next, RevokeFromApi, RevokeFromCli, Stores

\* Every reachable state of the gate is well typed: rules and grants are about
\* known keys only, and each call is at a point of apply_policy.
THEOREM GateTyped == Spec => []TypeOK
BY TypeInit, TypeNext, PTL DEF Spec

-----------------------------------------------------------------------------
(* What was said stays said.                                               *)

\* The proposals and the policy are fixed, what was stored stays known, and a call that
\* is past its gate keeps its answer.
Kept ==
  /\ UNCHANGED <<engine, call>>
  /\ taught \subseteq taught'
  /\ \A d \in Calls : Settled(d) => Settled(d)'
  /\ \A d \in Calls : pc[d] # "waiting" => answer'[d] = answer[d]

\* Every step keeps all of it.
LEMMA StepKeeps ==
  ASSUME TypeOK, [Next]_vars
  PROVE  Kept
<1>0. pc \in [Calls -> Points] /\ answer \in [Calls -> Answers \cup {None}]
  BY DEF TypeOK
<1> USE DEF Kept, Settled
<1>1. ASSUME NEW c \in Calls, Look(c)
      PROVE  Kept
  BY <1>0, <1>1, LookEffect
<1>2. ASSUME NEW c \in Calls, Propose(c) \/ Resume(c)
      PROVE  Kept
  BY <1>0, <1>2, VerdictEffect DEF Verdict, Settle, Goes
<1>3. ASSUME NEW c \in Calls, Decide(c)
      PROVE  Kept
  <2>1. taught \subseteq taught'
    BY <1>3, DecideEffect DEF Write
  <2> QED
    BY <1>0, <1>3, <2>1, DecideEffect DEF Settle, Goes
<1>4. ASSUME NEW c \in Calls, Execute(c)
      PROVE  Kept
  BY <1>0, <1>4 DEF Execute, Goes
<1>5. ASSUME NEW c \in Calls, NEW a \in Answers, Answer(c, a)
      PROVE  Kept
  BY <1>0, <1>5 DEF Answer, Goes
<1>6. ASSUME NEW r \in Runs, EndRun(r)
      PROVE  Kept
  BY <1>6 DEF EndRun
<1>7. ASSUME NEW s \in Stores, NEW k \in Keys, Revoke(s, k)
      PROVE  Kept
  BY <1>7 DEF Revoke, Write
<1>8. CASE UNCHANGED vars
  BY <1>8 DEF vars
<1> QED
  BY <1>1, <1>2, <1>3, <1>4, <1>5, <1>6, <1>7, <1>8
    DEF Next, RevokeFromApi, RevokeFromCli, Stores

\* The policy of a call never changes.
LEMMA SameCall ==
  ASSUME Kept, NEW c \in Calls
  PROVE  /\ Mode(c)' = Mode(c) /\ Effect(c)' = Effect(c) /\ Key(c)' = Key(c)
         /\ Slot(c)' = Slot(c) /\ (Asks(c)' <=> Asks(c)) /\ (Admissible(c)' <=> Admissible(c))
BY DEF Kept, Mode, Effect, Key, Slot, Replaced, Asks, Admissible, Plugins

\* What was given in a run was given in it.
LEMMA GivenStays ==
  ASSUME Kept, NEW r, NEW k, GivenIn(r, k)
  PROVE  GivenIn(r, k)'
<1>1. PICK d \in Calls : RunOf[d] = r /\ Key(d) = k /\ answer[d] = "session" /\ Settled(d)
  BY DEF GivenIn
<1>2. Key(d)' = Key(d) /\ answer'[d] = answer[d] /\ Settled(d)'
  BY <1>1, SameCall DEF Kept, Settled
<1> QED
  BY <1>1, <1>2 DEF GivenIn

-----------------------------------------------------------------------------
(* Where grants and rules come from.                                       *)

\* A call that adds a grant took `session' itself.
LEMMA GrantNext ==
  ASSUME GateInv, [Next]_vars
  PROVE  GrantInv'
<1>0. TypeOK /\ Kept /\ granted \in [Runs -> SUBSET Keys] /\ pc \in [Calls -> Points]
  BY StepKeeps DEF GateInv, TypeOK
<1>1. ASSUME \A r \in Runs : granted'[r] \subseteq granted[r]
      PROVE  GrantInv'
  BY <1>0, <1>1, GivenStays DEF GateInv, GrantInv
<1>2. ASSUME NEW c \in Calls, Decide(c)
      PROVE  GrantInv'
  <2>1. CASE granted' = granted
    BY <1>1, <2>1
  <2>2. CASE /\ answer[c] = "session" /\ Key(c) # None
             /\ granted' = [granted EXCEPT ![RunOf[c]] = @ \cup {Key(c)}]
    <3>1. Settled(c)' /\ answer' = answer
      BY <1>0, <1>2, DecideEffect DEF Settled, Settle, Goes
    <3>2. GivenIn(RunOf[c], Key(c))'
      BY <1>0, <2>2, <3>1, SameCall DEF GivenIn
    <3>3. ASSUME NEW r \in Runs, NEW k \in granted'[r]
          PROVE  GivenIn(r, k)'
      <4>1. k \in granted[r] \/ (r = RunOf[c] /\ k = Key(c))
        BY <1>0, <2>2, <3>3
      <4>2. CASE k \in granted[r]
        BY <1>0, <4>2, GivenStays DEF GateInv, GrantInv
      <4>3. CASE r = RunOf[c] /\ k = Key(c)
        <5>1. Key(c)' = Key(c)
          BY <1>0, SameCall
        <5>2. PICK d \in Calls : /\ RunOf[d] = RunOf[c] /\ Key(d)' = Key(c)'
                                 /\ answer'[d] = "session" /\ Settled(d)'
          BY <3>2 DEF GivenIn
        <5> QED
          BY <4>3, <5>1, <5>2 DEF GivenIn
      <4> QED
        BY <4>1, <4>2, <4>3
    <3> QED
      BY <3>3 DEF GrantInv
  <2> QED
    BY <1>0, <1>2, <2>1, <2>2, DecideEffect
<1>3. ASSUME NEW r \in Runs, EndRun(r)
      PROVE  \A q \in Runs : granted'[q] \subseteq granted[q]
  BY <1>0, <1>3 DEF EndRun
<1>4. ASSUME NEW c \in Calls, Look(c) \/ Propose(c) \/ Resume(c) \/ Execute(c)
      PROVE  granted' = granted
  BY <1>4 DEF Look, Propose, Resume, Execute
<1>5. ASSUME NEW c \in Calls, NEW a \in Answers, Answer(c, a)
      PROVE  granted' = granted
  BY <1>5 DEF Answer
<1>6. ASSUME NEW s \in Stores, NEW k \in Keys, Revoke(s, k)
      PROVE  granted' = granted
  BY <1>6 DEF Revoke
<1>7. CASE UNCHANGED vars
  BY <1>1, <1>7 DEF vars
<1>8. granted' = granted => GrantInv'
  BY <1>1
<1> QED
  BY <1>1, <1>2, <1>3, <1>4, <1>5, <1>6, <1>7, <1>8
    DEF Next, RevokeFromApi, RevokeFromCli, Stores

\* A row that is written holds what was written, and the calls that had read it are known.
LEMMA WriteEffect ==
  ASSUME TypeOK, NEW slot \in Stores \X Keys, NEW e \in RuleEffects \cup {None}, Write(slot, e)
  PROVE  /\ rules'[slot] = e
         /\ \A s \in Stores \X Keys : s # slot => rules'[s] = rules[s]
         /\ e = "always_approve" => slot \in taught'
         /\ \A c \in Calls : pc[c] \in {"first", "again", "deciding"} /\ Slot(c) = slot => c \in stale'
         /\ stale \subseteq stale'
BY DEF TypeOK, Write, Readers

\* What a step does to the store: nothing, or it writes one row.
LEMMA StoreSteps ==
  ASSUME TypeOK, [Next]_vars
  PROVE  \/ rules' = rules
         \/ \E slot \in Stores \X Keys, e \in RuleEffects \cup {None} : Write(slot, e)
<1>1. ASSUME NEW c \in Calls, Decide(c), rules' # rules
      PROVE  \E slot \in Stores \X Keys, e \in RuleEffects \cup {None} : Write(slot, e)
  <2>1. Key(c) # None /\ answer[c] \in RuleEffects /\ Write(Slot(c), answer[c])
    BY <1>1, DecideEffect
  <2>2. Slot(c) \in Stores \X Keys
    BY <2>1, CallTyped
  <2> QED
    BY <2>1, <2>2
<1>2. ASSUME NEW s \in Stores, NEW k \in Keys, Revoke(s, k)
      PROVE  \E slot \in Stores \X Keys, e \in RuleEffects \cup {None} : Write(slot, e)
  <2>1. Write(<<s, k>>, None) /\ <<s, k>> \in Stores \X Keys
    BY <1>2 DEF Revoke
  <2> QED
    BY <2>1
<1>3. ASSUME NEW c \in Calls, Look(c) \/ Propose(c) \/ Resume(c) \/ Execute(c)
      PROVE  rules' = rules
  BY <1>3 DEF Look, Propose, Resume, Execute
<1>4. ASSUME NEW c \in Calls, NEW a \in Answers, Answer(c, a)
      PROVE  rules' = rules
  BY <1>4 DEF Answer
<1>5. ASSUME NEW r \in Runs, EndRun(r)
      PROVE  rules' = rules
  BY <1>5 DEF EndRun
<1>6. CASE UNCHANGED vars
  BY <1>6 DEF vars
<1> QED
  BY <1>1, <1>2, <1>3, <1>4, <1>5, <1>6 DEF Next, RevokeFromApi, RevokeFromCli, Stores

\* Every rule that approves was stored.
LEMMA RuleNext ==
  ASSUME GateInv, [Next]_vars
  PROVE  RuleInv'
<1>0. TypeOK /\ Kept
  BY StepKeeps DEF GateInv
<1>1. CASE rules' = rules
  BY <1>0, <1>1 DEF GateInv, RuleInv, Kept
<1>2. ASSUME NEW slot \in Stores \X Keys, NEW e \in RuleEffects \cup {None}, Write(slot, e)
      PROVE  RuleInv'
  BY <1>0, <1>2, WriteEffect DEF GateInv, RuleInv, Kept
<1> QED
  BY <1>0, <1>1, <1>2, StoreSteps

\* A step leaves what an evaluation has read alone, drops it, or is that evaluation's read.
LEMMA SeenSteps ==
  ASSUME TypeOK, [Next]_vars, NEW c \in Calls
  PROVE  \/ Look(c)
         \/ seen'[c] = seen[c] \/ seen'[c] = None
<1>0. seen \in [Calls -> RuleEffects \cup {None, "unreadable"}]
  BY DEF TypeOK
<1>1. ASSUME NEW d \in Calls, Look(d)
      PROVE  Look(c) \/ seen'[c] = seen[c]
  BY <1>0, <1>1, LookEffect
<1>2. ASSUME NEW d \in Calls, Propose(d) \/ Resume(d)
      PROVE  seen'[c] = seen[c] \/ seen'[c] = None
  BY <1>0, <1>2, VerdictEffect DEF Verdict, Settle
<1>3. ASSUME NEW d \in Calls, Decide(d)
      PROVE  seen'[c] = seen[c] \/ seen'[c] = None
  BY <1>0, <1>3, DecideEffect DEF Settle
<1>4. ASSUME NEW d \in Calls, Execute(d)
      PROVE  seen'[c] = seen[c]
  BY <1>4 DEF Execute
<1>5. ASSUME NEW d \in Calls, NEW a \in Answers, Answer(d, a)
      PROVE  seen'[c] = seen[c]
  BY <1>5 DEF Answer
<1>6. ASSUME NEW r \in Runs, EndRun(r)
      PROVE  seen'[c] = seen[c]
  BY <1>6 DEF EndRun
<1>7. ASSUME NEW s \in Stores, NEW k \in Keys, Revoke(s, k)
      PROVE  seen'[c] = seen[c]
  BY <1>7 DEF Revoke
<1>8. CASE UNCHANGED vars
  BY <1>8 DEF vars
<1> QED
  BY <1>1, <1>2, <1>3, <1>4, <1>5, <1>6, <1>7, <1>8
    DEF Next, RevokeFromApi, RevokeFromCli, Stores

\* A rule that was read was in the store.
LEMMA SeenNext ==
  ASSUME GateInv, [Next]_vars
  PROVE  SeenInv'
<1>0. /\ TypeOK /\ Kept /\ None # "always_approve"
      /\ seen \in [Calls -> RuleEffects \cup {None, "unreadable"}]
  BY StepKeeps, GateAssumption DEF GateInv, TypeOK, Answers
<1> SUFFICES ASSUME NEW c \in Calls, seen'[c] = "always_approve"
             PROVE  Key(c)' # None /\ Slot(c)' \in taught'
  BY DEF SeenInv
<1>1. CASE Look(c)
  <2>1. seen'[c] = IF Asks(c) THEN rules[Slot(c)] ELSE None
    BY <1>0, <1>1, LookEffect
  <2>2. Asks(c) /\ rules[Slot(c)] = "always_approve"
    BY <1>0, <2>1
  <2>3. Key(c) # None /\ Slot(c) \in taught
    BY <1>0, <2>2, CallTyped DEF Asks, GateInv, RuleInv
  <2> QED
    BY <1>0, <2>3, SameCall DEF Kept
<1>2. CASE seen[c] = "always_approve"
  <2>1. Key(c) # None /\ Slot(c) \in taught
    BY <1>2 DEF GateInv, SeenInv
  <2> QED
    BY <1>0, <2>1, SameCall DEF Kept
<1> QED
  BY <1>0, <1>1, <1>2, SeenSteps

-----------------------------------------------------------------------------
(* Where a call comes from.                                                *)

\* What a step says of a call that is then evaluated, under way or done.
ComesFrom(c) ==
  /\ pc'[c] \in {"first", "again", "deciding"} =>
       \/ Look(c)
       \/ /\ pc[c] \in {"first", "again", "deciding"} /\ seen'[c] = seen[c]
          /\ c \in stale => c \in stale'
          /\ pc'[c] = "deciding" /\ pc[c] # "deciding" => Evaluate(c) = "require_approval"
  /\ pc'[c] = "go" /\ pc[c] # "go" =>
       \/ pc[c] \in {"first", "again"} /\ Evaluate(c) = "allow" /\ UNCHANGED answer
       \/ Decide(c)
  /\ pc'[c] = "executed" => pc[c] \in {"go", "executed"}

\* Every step says so of every call.
LEMMA Origins ==
  ASSUME TypeOK, [Next]_vars, NEW c \in Calls
  PROVE  ComesFrom(c)
<1>0. pc \in [Calls -> Points] /\ seen \in [Calls -> RuleEffects \cup {None, "unreadable"}]
  BY DEF TypeOK
<1>1. ASSUME pc'[c] = pc[c], seen'[c] = seen[c], c \in stale => c \in stale'
      PROVE  ComesFrom(c)
  BY <1>1 DEF ComesFrom
<1>2. ASSUME NEW d \in Calls, Look(d)
      PROVE  ComesFrom(c)
  <2>1. CASE d = c
    BY <1>0, <1>2, <2>1, LookEffect DEF ComesFrom
  <2>2. CASE d # c
    BY <1>0, <1>1, <1>2, <2>2, LookEffect
  <2> QED
    BY <2>1, <2>2
<1>3. ASSUME NEW d \in Calls, Propose(d) \/ Resume(d)
      PROVE  ComesFrom(c)
  <2>1. CASE d = c
    <3>1. pc[c] \in {"first", "again"}
      BY <1>3, <2>1, VerdictEffect
    <3>2. CASE Verdict(c)
      <4>1. PICK p \in {"go", "refused", "waiting"} :
              pc' = [pc EXCEPT ![c] = p] /\ (p = "go" => Evaluate(c) = "allow")
        BY <3>2 DEF Verdict, Settle, Goes
      <4>2. UNCHANGED answer
        BY <3>2 DEF Verdict
      <4> QED
        BY <1>0, <3>1, <4>1, <4>2 DEF ComesFrom
    <3>3. CASE /\ Evaluate(c) = "require_approval" /\ Goes(c, "deciding")
               /\ UNCHANGED <<engine, call, seen, answer, rules, granted, over, stale, taught>>
      BY <1>0, <3>1, <3>3 DEF ComesFrom, Goes
    <3> QED
      BY <1>3, <2>1, <3>2, <3>3, VerdictEffect
  <2>2. CASE d # c
    <3>1. pc'[c] = pc[c] /\ seen'[c] = seen[c] /\ stale' = stale
      BY <1>0, <1>3, <2>2, VerdictEffect DEF Verdict, Settle, Goes
    <3> QED
      BY <1>1, <3>1
  <2> QED
    BY <2>1, <2>2
<1>4. ASSUME NEW d \in Calls, Decide(d)
      PROVE  ComesFrom(c)
  <2>1. CASE d = c
    BY <1>0, <1>4, <2>1, DecideEffect DEF ComesFrom, Settle, Goes
  <2>2. CASE d # c
    <3>1. pc'[c] = pc[c] /\ seen'[c] = seen[c]
      BY <1>0, <1>4, <2>2, DecideEffect DEF Settle, Goes
    <3>2. c \in stale => c \in stale'
      BY <1>4, DecideEffect DEF Write
    <3> QED
      BY <1>1, <3>1, <3>2
  <2> QED
    BY <2>1, <2>2
<1>5. ASSUME NEW d \in Calls, Execute(d)
      PROVE  ComesFrom(c)
  <2>1. PICK p \in {"executed", "refused"} : pc' = [pc EXCEPT ![d] = p]
    BY <1>5 DEF Execute, Goes
  <2>2. pc[d] = "go" /\ UNCHANGED <<seen, stale>>
    BY <1>5 DEF Execute
  <2> QED
    BY <1>0, <1>1, <2>1, <2>2 DEF ComesFrom
<1>6. ASSUME NEW d \in Calls, NEW a \in Answers, Answer(d, a)
      PROVE  ComesFrom(c)
  <2>1. pc' = [pc EXCEPT ![d] = "answered"] /\ UNCHANGED <<seen, stale>>
    BY <1>6 DEF Answer, Goes
  <2> QED
    BY <1>0, <1>1, <2>1 DEF ComesFrom
<1>7. ASSUME NEW r \in Runs, EndRun(r)
      PROVE  ComesFrom(c)
  BY <1>1, <1>7 DEF EndRun
<1>8. ASSUME NEW s \in Stores, NEW k \in Keys, Revoke(s, k)
      PROVE  ComesFrom(c)
  BY <1>1, <1>8 DEF Revoke, Write
<1>9. CASE UNCHANGED vars
  BY <1>1, <1>9 DEF vars
<1> QED
  BY <1>2, <1>3, <1>4, <1>5, <1>6, <1>7, <1>8, <1>9
    DEF Next, RevokeFromApi, RevokeFromCli, Stores

\* What an evaluation holds is what stands, until it is overtaken.
LEMMA FreshNext ==
  ASSUME GateInv, [Next]_vars
  PROVE  FreshInv'
<1>0. /\ TypeOK /\ Kept
      /\ seen \in [Calls -> RuleEffects \cup {None, "unreadable"}]
  BY StepKeeps DEF GateInv, TypeOK
<1> SUFFICES ASSUME NEW c \in Calls, pc'[c] \in {"first", "again", "deciding"}, Asks(c)',
                    c \notin stale', seen'[c] # "unreadable"
             PROVE  seen'[c] = rules'[Slot(c)']
  BY DEF FreshInv
<1>1. Asks(c) /\ Slot(c)' = Slot(c) /\ Slot(c) \in Stores \X Keys
  <2>1. Asks(c) /\ Slot(c)' = Slot(c)
    BY <1>0, SameCall
  <2> QED
    BY <1>0, <2>1, CallTyped DEF Asks
<1>2. CASE Look(c)
  BY <1>0, <1>1, <1>2, LookEffect
<1>3. CASE ~Look(c)
  <2>1. /\ pc[c] \in {"first", "again", "deciding"} /\ seen'[c] = seen[c]
        /\ c \in stale => c \in stale'
    BY <1>0, <1>3, Origins DEF ComesFrom
  <2>2. seen[c] = rules[Slot(c)]
    BY <1>1, <2>1 DEF GateInv, FreshInv
  <2>3. CASE rules' = rules
    BY <1>1, <2>1, <2>2, <2>3
  <2>4. ASSUME NEW slot \in Stores \X Keys, NEW e \in RuleEffects \cup {None}, Write(slot, e)
        PROVE  seen'[c] = rules'[Slot(c)']
    BY <1>0, <1>1, <2>1, <2>2, <2>4, WriteEffect
  <2> QED
    BY <1>0, <2>3, <2>4, StoreSteps
<1> QED
  BY <1>2, <1>3

\* The answer is looked at only where approval is required.
LEMMA DecidingNext ==
  ASSUME GateInv, [Next]_vars
  PROVE  DecidingInv'
<1>0. TypeOK /\ Kept /\ pc \in [Calls -> Points]
  BY StepKeeps DEF GateInv, TypeOK
<1> SUFFICES ASSUME NEW c \in Calls, pc'[c] = "deciding"
             PROVE  Admissible(c)' /\ Mode(c)' = "manual" /\ seen'[c] # "always_deny"
  BY DEF DecidingInv
<1>1. ~Look(c)
  BY <1>0, LookEffect
<1>2. /\ seen'[c] = seen[c]
      /\ pc[c] = "deciding" \/ Evaluate(c) = "require_approval"
  BY <1>0, <1>1, Origins DEF ComesFrom
<1>3. Admissible(c) /\ Mode(c) = "manual" /\ seen[c] # "always_deny"
  BY <1>0, <1>2, ApprovalMeans DEF GateInv, DecidingInv
<1> QED
  BY <1>0, <1>2, <1>3, SameCall

\* Authority, once there, stays.
LEMMA AuthorityStays ==
  ASSUME Kept, NEW c \in Calls, Authority(c), answer'[c] = answer[c]
  PROVE  Authority(c)'
<1>1. Effect(c)' = Effect(c) /\ Key(c)' = Key(c) /\ Slot(c)' = Slot(c) /\ call' = call
  BY SameCall DEF Kept
<1>2. GivenIn(RunOf[c], Key(c)) => GivenIn(RunOf[c], Key(c))'
  <2> SUFFICES ASSUME GivenIn(RunOf[c], Key(c))
               PROVE  \E d \in Calls : /\ RunOf[d] = RunOf[c] /\ Key(d)' = Key(c)'
                                        /\ answer'[d] = "session" /\ Settled(d)'
    BY DEF GivenIn
  <2>1. PICK d \in Calls : /\ RunOf[d] = RunOf[c] /\ Key(d) = Key(c)
                           /\ answer[d] = "session" /\ Settled(d)
    BY DEF GivenIn
  <2>2. Key(d)' = Key(d) /\ answer'[d] = answer[d] /\ Settled(d)'
    BY <2>1, SameCall DEF Kept, Settled
  <2> QED
    BY <1>1, <2>1, <2>2
<1>3. Slot(c) \in taught => Slot(c)' \in taught'
  BY <1>1 DEF Kept
<1> QED
  BY <1>1, <1>2, <1>3 DEF Authority

\* An evaluation that allows a call rests on what was said before.
LEMMA AllowAuthority ==
  ASSUME GateInv, NEW c \in Calls, Evaluate(c) = "allow"
  PROVE  Admissible(c) /\ (Mode(c) = "manual" => Authority(c))
<1>0. TypeOK
  BY DEF GateInv
<1>1. ASSUME Key(c) # None, Key(c) \in granted[RunOf[c]]
      PROVE  Authority(c)
  BY <1>0, <1>1, CallTyped DEF GateInv, GrantInv, Authority
<1>2. ASSUME seen[c] = "always_approve"
      PROVE  Authority(c)
  BY <1>2 DEF GateInv, SeenInv, Authority
<1>3. call[c].builtIn \/ Effect(c) \in {"read", "none"} => Authority(c)
  BY DEF Authority
<1> QED
  BY <1>0, <1>1, <1>2, <1>3, AllowMeans

\* A call under way or done rests on an authority.
LEMMA AuthorityNext ==
  ASSUME GateInv, [Next]_vars
  PROVE  AuthorityInv'
<1>0. TypeOK /\ Kept /\ pc \in [Calls -> Points]
  BY StepKeeps DEF GateInv, TypeOK
<1> SUFFICES ASSUME NEW c \in Calls, pc'[c] \in {"go", "executed"}
             PROVE  Admissible(c)' /\ (Mode(c)' = "manual" => Authority(c)')
  BY DEF AuthorityInv
<1>1. CASE pc[c] \in {"go", "executed"}
  <2>1. Admissible(c) /\ (Mode(c) = "manual" => Authority(c)) /\ answer'[c] = answer[c]
    BY <1>0, <1>1 DEF GateInv, AuthorityInv, Kept
  <2> QED
    BY <1>0, <2>1, SameCall, AuthorityStays
<1>2. CASE pc[c] \notin {"go", "executed"} /\ Evaluate(c) = "allow" /\ UNCHANGED answer
  <2>1. Admissible(c) /\ (Mode(c) = "manual" => Authority(c)) /\ answer'[c] = answer[c]
    BY <1>2, AllowAuthority
  <2> QED
    BY <1>0, <2>1, SameCall, AuthorityStays
<1>3. CASE pc[c] \notin {"go", "executed"} /\ Decide(c)
  <2>1. pc'[c] = "go"
    BY <1>0, <1>3, Origins DEF ComesFrom
  <2>2. Admissible(c)
    BY <1>0, <1>3, DecideEffect DEF GateInv, DecidingInv
  <2>3. answer' = answer /\ Settled(c)'
    BY <1>0, <1>3, <2>1, DecideEffect DEF Settled
  <2>4. Key(c)' = Key(c) /\ Slot(c)' = Slot(c) /\ Admissible(c)'
    BY <1>0, <2>2, SameCall
  <2>5. \/ answer'[c] = "approved"
        \/ answer'[c] = "session" /\ Key(c)' # None
        \/ Key(c)' # None /\ Slot(c)' \in taught'
    BY <1>0, <1>3, <2>1, <2>3, <2>4, DecideGoes
  <2>6. answer'[c] = "session" => GivenIn(RunOf[c], Key(c))'
    BY <2>3 DEF GivenIn
  <2> QED
    BY <2>4, <2>5, <2>6 DEF Authority
<1>4. \/ pc[c] \in {"go", "executed"} \/ Decide(c)
      \/ Evaluate(c) = "allow" /\ UNCHANGED answer
  BY <1>0, Origins DEF ComesFrom
<1> QED
  BY <1>1, <1>2, <1>3, <1>4

-----------------------------------------------------------------------------
(* The theorems.                                                           *)

\* Before the first proposal nothing is remembered.
LEMMA GateInit == Init => GateInv
<1> SUFFICES ASSUME Init
             PROVE  GateInv
  OBVIOUS
<1>0. None # "always_approve"
  BY GateAssumption DEF Answers
<1>1. TypeOK
  BY TypeInit
<1>2. GrantInv /\ RuleInv /\ SeenInv
  BY <1>0 DEF Init, GrantInv, RuleInv, SeenInv
<1>3. FreshInv /\ DecidingInv /\ AuthorityInv
  BY DEF Init, FreshInv, DecidingInv, AuthorityInv
<1> QED
  BY <1>1, <1>2, <1>3 DEF GateInv

\* Every step keeps the invariant.
LEMMA GateNext == GateInv /\ [Next]_vars => GateInv'
<1> SUFFICES ASSUME GateInv, [Next]_vars
             PROVE  GateInv'
  OBVIOUS
<1>1. TypeOK'
  BY TypeNext DEF GateInv
<1> QED
  BY <1>1, GrantNext, RuleNext, SeenNext, FreshNext, DecidingNext, AuthorityNext DEF GateInv

\* The invariant holds in every reachable state.
LEMMA GateAlways == Spec => []GateInv
BY GateInit, GateNext, PTL DEF Spec

\* For any number of runs, calls and rules, taught and revoked in any order and between
\* any two steps of apply_policy: every action that goes ahead is admissible under the
\* policy bound to it and was authorised by an operator, by a rule that was stored or by
\* the taxonomy.
THEOREM NothingUnauthorised == Spec => []OnlyAuthorised
<1>1. GateInv => OnlyAuthorised
  BY DEF GateInv, AuthorityInv, Authority, Admissible, OnlyAuthorised, SessionSaid, GivenIn,
         Settled
<1> QED
  BY <1>1, GateAlways, PTL

\* A rule that denies stops every call whose evaluation reads the store after it was
\* written, the ones an operator has already approved included.
THEOREM DenyAlwaysWins == Spec => DenyWins
<1>1. ASSUME GateInv, [Next]_vars, NEW c \in Calls, pc[c] # "go", pc'[c] = "go",
             Mode(c) = "manual", Key(c) # None, rules[Slot(c)] = "always_deny"
      PROVE  c \in stale \/ seen[c] = "unreadable"
  <2>0. TypeOK
    BY <1>1 DEF GateInv
  <2>1. /\ pc[c] \in {"first", "again", "deciding"}
        /\ Evaluate(c) = "allow" \/ pc[c] = "deciding"
    BY <1>1, <2>0, Origins, DecideEffect DEF ComesFrom
  <2>2. Admissible(c) /\ seen[c] # "always_deny"
    BY <1>1, <2>0, <2>1, AllowMeans DEF GateInv, DecidingInv
  <2>3. Asks(c)
    BY <1>1, <2>2 DEF Asks, Admissible
  <2> QED
    BY <1>1, <2>1, <2>2, <2>3 DEF GateInv, FreshInv
<1>2. GateInv /\ [Next]_vars =>
        [\A c \in Calls : /\ pc[c] # "go" /\ pc'[c] = "go"
                          /\ Mode(c) = "manual" /\ Key(c) # None
                          /\ rules[Slot(c)] = "always_deny"
                          => c \in stale \/ seen[c] = "unreadable"]_vars
  BY <1>1
<1> QED
  BY <1>2, GateAlways, PTL DEF Spec, DenyWins

\* A call that goes ahead unasked rests on a rule that stands, or stood when it was read,
\* or on a grant of its own run, whatever was revoked or ended before.
THEOREM AuthorityStands == Spec => StandingAuthority
<1>1. ASSUME GateInv, [Next]_vars, NEW c \in Calls, pc[c] = "first", pc'[c] = "go",
             Mode(c) = "manual", Effect(c) \notin {"read", "none"}, ~call[c].builtIn
      PROVE  rules[Slot(c)] = "always_approve" \/ c \in stale \/ SessionSaid(c)
  <2>0. TypeOK
    BY <1>1 DEF GateInv
  <2>1. Evaluate(c) = "allow"
    BY <1>1, <2>0, Origins, DecideEffect DEF ComesFrom
  <2>2. /\ Admissible(c)
        /\ \/ Key(c) # None /\ Key(c) \in granted[RunOf[c]]
           \/ seen[c] = "always_approve"
    BY <1>1, <2>0, <2>1, AllowMeans
  <2>3. CASE Key(c) # None /\ Key(c) \in granted[RunOf[c]]
    <3>1. GivenIn(RunOf[c], Key(c))
      BY <1>1, <2>0, <2>3, CallTyped DEF GateInv, GrantInv
    <3> QED
      BY <3>1 DEF GivenIn, SessionSaid, Settled
  <2>4. CASE seen[c] = "always_approve"
    <3>1. Asks(c)
      BY <1>1, <2>2, <2>4 DEF GateInv, SeenInv, Asks, Admissible
    <3> QED
      BY <1>1, <2>4, <3>1 DEF GateInv, FreshInv
  <2> QED
    BY <2>2, <2>3, <2>4
<1>2. GateInv /\ [Next]_vars =>
        [\A c \in Calls : /\ pc[c] = "first" /\ pc'[c] = "go" /\ Mode(c) = "manual"
                          /\ Effect(c) \notin {"read", "none"} /\ ~call[c].builtIn
                          => \/ rules[Slot(c)] = "always_approve"
                             \/ c \in stale
                             \/ SessionSaid(c)]_vars
  BY <1>1
<1> QED
  BY <1>2, GateAlways, PTL DEF Spec, StandingAuthority
=============================================================================
