----------------------------- MODULE Scheduler -----------------------------
(***************************************************************************)
(* The schedule store (agent_os/schedules.py), the recurrence rules        *)
(* (agent_os/schedule_recurrence.py) and the SchedulerService of several   *)
(* `serve' processes on one host (agent_os/scheduler.py).                  *)
(*                                                                         *)
(* A tick reads the clock, then waits for the store's write lock: other    *)
(* processes and the clock move in between.  The claim itself is one       *)
(* BEGIN IMMEDIATE transaction.  What a dispatched schedule does, and the   *)
(* result it records (last_status, last_error), is left to RunService; here *)
(* it ends.                                                                *)
(***************************************************************************)
EXTENDS Integers, Sequences, FiniteSets

CONSTANTS Procs,      \* serve processes that share the store
          Intervals,  \* schedules with trigger_kind `interval'
          Crons,      \* schedules with trigger_kind `cron'
          Every,      \* interval of each of Intervals
          CronTimes,  \* times at which each of Crons fires
          Capacity,   \* children one process may have (10)
          MaxTime,    \* bound: the clock stops here
          MaxStops    \* bound: stops and crashes of processes

Schedules == Intervals \cup Crons

\* The first time after t at which cron schedule s fires.
IsNextCron(s, t, u) == u > t /\ \A v \in CronTimes[s] : v > t => u <= v

ASSUME ScheduleAssumption ==
  /\ Intervals \cap Crons = {}
  /\ Every \in [Intervals -> Nat \ {0}]
  /\ CronTimes \in [Crons -> SUBSET Nat]
  /\ \A s \in Crons, t \in 0..MaxTime : \E u \in CronTimes[s] : IsNextCron(s, t, u)
  /\ Capacity \in Nat \ {0}
  /\ MaxTime \in Nat
  /\ MaxStops \in Nat

\* A dispatch under way: of which schedule, for which occurrence.
Dispatches == [schedule : Schedules, due : Nat]

VARIABLES clock,
          row,        \* does the schedule have a row: new, present, removed
          enabled,    \* schedules with enabled = 1
          nextRun,    \* next_run_at
          lastRun,    \* last_run_at, -1 for NULL
          anchor,     \* created_at
          mode,       \* each process: off, running, draining
          tick,       \* idle, or waiting for the write lock of claim_due_schedules
          now,        \* the `now' of the process's tick, 0 when it is idle
          children,   \* _child_tasks
          claims,     \* history: the claims of each schedule, in commit order
          stops

vars == <<clock, row, enabled, nextRun, lastRun, anchor, mode, tick, now,
          children, claims, stops>>
store   == <<row, enabled, nextRun, lastRun, anchor>>
service == <<mode, tick, now, children>>

TypeOK ==
  /\ clock \in 0..MaxTime
  /\ row \in [Schedules -> {"new", "present", "removed"}]
  /\ enabled \in SUBSET {s \in Schedules : row[s] = "present"}
  /\ nextRun \in [Schedules -> Nat]
  /\ lastRun \in [Schedules -> -1..MaxTime]
  /\ anchor \in [Schedules -> 0..MaxTime]
  /\ mode \in [Procs -> {"off", "running", "draining"}]
  /\ tick \in [Procs -> {"idle", "claiming"}]
  /\ now \in [Procs -> 0..MaxTime]
  /\ children \in [Procs -> SUBSET Dispatches]
  /\ claims \in [Schedules -> Seq([due : Nat, at : 0..MaxTime])]
  /\ stops \in 0..MaxStops

Init ==
  /\ clock = 0
  /\ row = [s \in Schedules |-> "new"]
  /\ enabled = {}
  /\ nextRun = [s \in Schedules |-> 0]
  /\ lastRun = [s \in Schedules |-> -1]
  /\ anchor = [s \in Schedules |-> 0]
  /\ mode = [p \in Procs |-> "off"]
  /\ tick = [p \in Procs |-> "idle"]
  /\ now = [p \in Procs |-> 0]
  /\ children = [p \in Procs |-> {}]
  /\ claims = [s \in Schedules |-> <<>>]
  /\ stops = 0

Passing ==
  /\ clock < MaxTime
  /\ clock' = clock + 1
  /\ UNCHANGED <<store, service, claims, stops>>

-----------------------------------------------------------------------------
(* Recurrence.                                                             *)

NextCron(s, t) == CHOOSE u \in CronTimes[s] : IsNextCron(s, t, u)

\* next_run_at(after = t).
NextRunAt(s, t) == IF s \in Crons THEN NextCron(s, t) ELSE t + Every[s]

\* Mutant: an occurrence that is due at this very moment counts as future.
CoalesceKeepsDue(s, persisted, t) ==
  IF persisted >= t THEN persisted
  ELSE IF s \in Crons THEN NextRunAt(s, t)
  ELSE persisted + Every[s] * ((t - persisted) \div Every[s] + 1)

\* Mutant: the next interval starts when the claim is made.
CoalesceFromNow(s, persisted, t) == IF persisted > t THEN persisted ELSE NextRunAt(s, t)

\* coalesce_next_run: an interval stays on its grid and skips what was missed.
CoalesceNextRun(s, persisted, t) ==
  IF persisted > t THEN persisted
  ELSE IF s \in Crons THEN NextRunAt(s, t)
  ELSE persisted + Every[s] * ((t - persisted) \div Every[s] + 1)

-----------------------------------------------------------------------------
(* The store.                                                              *)

\* Ids are fresh UUIDs: a removed schedule does not come back.
CreateSchedule(s) ==
  /\ row[s] = "new"
  /\ row' = [row EXCEPT ![s] = "present"]
  /\ enabled' = enabled \cup {s}
  /\ nextRun' = [nextRun EXCEPT ![s] = NextRunAt(s, clock)]
  /\ anchor' = [anchor EXCEPT ![s] = clock]
  /\ UNCHANGED <<clock, lastRun, service, claims, stops>>

RemoveSchedule(s) ==
  /\ row[s] = "present"
  /\ row' = [row EXCEPT ![s] = "removed"]
  /\ enabled' = enabled \ {s}
  /\ UNCHANGED <<clock, nextRun, lastRun, anchor, service, claims, stops>>

SetScheduleEnabled(s, on) ==
  /\ row[s] = "present"
  /\ enabled' = IF on THEN enabled \cup {s} ELSE enabled \ {s}
  /\ UNCHANGED <<clock, row, nextRun, lastRun, anchor, service, claims, stops>>

Due(t) == {s \in enabled : nextRun[s] <= t}

\* SELECT ... ORDER BY next_run_at LIMIT: the earliest ones, as many as fit.
IsSelection(chosen, t, limit) ==
  /\ chosen \subseteq Due(t)
  /\ Cardinality(chosen) <= limit
  /\ Cardinality(chosen) = limit \/ chosen = Due(t)
  /\ \A s \in chosen, o \in Due(t) \ chosen : nextRun[s] <= nextRun[o]

\* The UPDATE of every selected row.
ClaimDue(chosen, t) ==
  /\ nextRun' = [s \in Schedules |-> IF s \in chosen THEN CoalesceNextRun(s, nextRun[s], t)
                                     ELSE nextRun[s]]
  /\ lastRun' = [s \in Schedules |-> IF s \in chosen THEN t ELSE lastRun[s]]
  /\ claims' = [s \in Schedules |-> IF s \in chosen
                                    THEN Append(claims[s], [due |-> nextRun[s], at |-> t])
                                    ELSE claims[s]]

-----------------------------------------------------------------------------
(* SchedulerService of process p.                                          *)

Start(p) ==
  /\ mode[p] = "off"
  /\ mode' = [mode EXCEPT ![p] = "running"]
  /\ UNCHANGED <<clock, store, tick, now, children, claims, stops>>

\* tick() up to the write lock; without capacity it returns at once.
TickBegins(p) ==
  /\ mode[p] = "running"
  /\ tick[p] = "idle"
  /\ Cardinality(children[p]) < Capacity
  /\ tick' = [tick EXCEPT ![p] = "claiming"]
  /\ now' = [now EXCEPT ![p] = clock]
  /\ UNCHANGED <<clock, store, mode, children, claims, stops>>

\* The claim, and a child task for every claimed row.
TickClaims(p, chosen) ==
  /\ tick[p] = "claiming"
  /\ IsSelection(chosen, now[p], Capacity - Cardinality(children[p]))
  /\ ClaimDue(chosen, now[p])
  /\ children' = [children EXCEPT ![p] =
                    @ \cup {[schedule |-> s, due |-> nextRun[s]] : s \in chosen}]
  /\ tick' = [tick EXCEPT ![p] = "idle"]
  /\ now' = [now EXCEPT ![p] = 0]
  /\ UNCHANGED <<clock, row, enabled, anchor, mode, stops>>

\* The lock was not free within busy_timeout: logged, the loop goes on.
TickFails(p) ==
  /\ tick[p] = "claiming"
  /\ tick' = [tick EXCEPT ![p] = "idle"]
  /\ now' = [now EXCEPT ![p] = 0]
  /\ UNCHANGED <<clock, store, mode, children, claims, stops>>

\* Mutant: no done callback discards the child.
ChildStays(p, d) ==
  /\ tick[p] = "idle"
  /\ d \in children[p]
  /\ UNCHANGED vars

\* A child ends by itself, or cancelled by a forced exit: the done callback
\* discards it.
ChildDone(p, d) ==
  /\ tick[p] = "idle"
  /\ d \in children[p]
  /\ children' = [children EXCEPT ![p] = @ \ {d}]
  /\ UNCHANGED <<clock, store, mode, tick, now, claims, stops>>

\* stop(): the loop task is cancelled in its sleep, children are awaited.
Stop(p) ==
  /\ mode[p] = "running"
  /\ tick[p] = "idle"
  /\ stops < MaxStops
  /\ stops' = stops + 1
  /\ mode' = [mode EXCEPT ![p] = "draining"]
  /\ UNCHANGED <<clock, store, tick, now, children, claims>>

Drained(p) ==
  /\ mode[p] = "draining"
  /\ children[p] = {}
  /\ mode' = [mode EXCEPT ![p] = "off"]
  /\ UNCHANGED <<clock, store, tick, now, children, claims, stops>>

\* The process dies: a transaction that was open is rolled back.
Crash(p) ==
  /\ mode[p] # "off"
  /\ stops < MaxStops
  /\ stops' = stops + 1
  /\ mode' = [mode EXCEPT ![p] = "off"]
  /\ tick' = [tick EXCEPT ![p] = "idle"]
  /\ now' = [now EXCEPT ![p] = 0]
  /\ children' = [children EXCEPT ![p] = {}]
  /\ UNCHANGED <<clock, store, claims>>

\* ... or it dies after the commit and before any child has started.
CrashAfterClaim(p, chosen) ==
  /\ stops < MaxStops
  /\ tick[p] = "claiming"
  /\ IsSelection(chosen, now[p], Capacity - Cardinality(children[p]))
  /\ ClaimDue(chosen, now[p])
  /\ stops' = stops + 1
  /\ mode' = [mode EXCEPT ![p] = "off"]
  /\ tick' = [tick EXCEPT ![p] = "idle"]
  /\ now' = [now EXCEPT ![p] = 0]
  /\ children' = [children EXCEPT ![p] = {}]
  /\ UNCHANGED <<clock, row, enabled, anchor>>

-----------------------------------------------------------------------------
Claim(p) == \E chosen \in SUBSET Schedules : TickClaims(p, chosen)
Ends(p)  == \E d \in children[p] : ChildDone(p, d)

Next ==
  \/ Passing
  \/ \E s \in Schedules : CreateSchedule(s)
  \/ \E s \in Schedules : RemoveSchedule(s)
  \/ \E s \in Schedules, on \in BOOLEAN : SetScheduleEnabled(s, on)
  \/ \E p \in Procs : Start(p)
  \/ \E p \in Procs : TickBegins(p)
  \/ \E p \in Procs : Claim(p)
  \/ \E p \in Procs : TickFails(p)
  \/ \E p \in Procs : Ends(p)
  \/ \E p \in Procs : Stop(p)
  \/ \E p \in Procs : Drained(p)
  \/ \E p \in Procs : Crash(p)
  \/ \E p \in Procs, chosen \in SUBSET Schedules : CrashAfterClaim(p, chosen)

Spec == Init /\ [][Next]_vars

\* A supervisor restarts the server, its loop keeps ticking, the lock is granted
\* again and again, and dispatches end.
Fairness ==
  \A p \in Procs :
    /\ WF_vars(Start(p))
    /\ WF_vars(TickBegins(p))
    /\ SF_vars(Claim(p))
    /\ WF_vars(Ends(p))
    /\ WF_vars(Drained(p))

FairSpec == Spec /\ Fairness

-----------------------------------------------------------------------------
(* Properties.                                                             *)

\* No occurrence is dispatched twice and none is caught up with: the occurrence
\* of every claim lies after the moment of the claim before it, whichever
\* process made either and however long it waited for the lock.
OncePerOccurrence ==
  \A s \in Schedules : \A i \in 2..Len(claims[s]) :
    /\ claims[s][i].due > claims[s][i - 1].due
    /\ claims[s][i].due > claims[s][i - 1].at

\* An occurrence of s.
Occurs(s, t) ==
  IF s \in Crons THEN t \in CronTimes[s]
  ELSE t > anchor[s] /\ (t - anchor[s]) % Every[s] = 0

\* No drift: next_run_at is an occurrence of the schedule, and the first one
\* after the schedule's creation or its latest claim.
NextIsFirstFuture ==
  \A s \in Schedules : row[s] = "present" =>
    LET since == IF lastRun[s] = -1 THEN anchor[s] ELSE lastRun[s]
    IN  /\ Occurs(s, nextRun[s])
        /\ nextRun[s] > since
        /\ \A t \in since + 1..nextRun[s] - 1 : ~Occurs(s, t)

\* A due schedule is claimed, unless it is disabled or removed first: neither a
\* full process, a stop, a crash nor a process that waits for the lock in vain
\* leaves it behind.
DueIsClaimed ==
  \A s \in Schedules : s \in Due(clock) ~> s \notin Due(clock)
=============================================================================
