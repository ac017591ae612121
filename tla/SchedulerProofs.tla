-------------------------- MODULE SchedulerProofs --------------------------
(***************************************************************************)
(* For any number of processes, schedules, intervals and cron times: no    *)
(* occurrence is claimed twice and none is caught up with, and next_run_at *)
(* is always the first occurrence after the latest claim, on the grid of    *)
(* the schedule's creation.                                                *)
(***************************************************************************)
EXTENDS Scheduler, TLAPS

\* coalesce_next_run leaves the moment of the claim behind.
LEMMA CoalesceAhead ==
  ASSUME NEW s \in Schedules, NEW persisted \in Nat, NEW t \in 0..MaxTime,
         persisted <= t
  PROVE  /\ CoalesceNextRun(s, persisted, t) \in Nat
         /\ CoalesceNextRun(s, persisted, t) > t
<1>1. CASE s \in Crons
  <2>1. \E u \in CronTimes[s] : IsNextCron(s, t, u)
    BY <1>1, ScheduleAssumption
  <2>2. NextCron(s, t) \in CronTimes[s] /\ IsNextCron(s, t, NextCron(s, t))
    BY <2>1 DEF NextCron
  <2>3. CronTimes[s] \subseteq Nat
    BY <1>1, ScheduleAssumption
  <2>4. CoalesceNextRun(s, persisted, t) = NextCron(s, t)
    BY <1>1, ScheduleAssumption DEF CoalesceNextRun, NextRunAt
  <2> QED
    BY <2>2, <2>3, <2>4, ScheduleAssumption DEF IsNextCron
<1>2. CASE s \notin Crons
  <2> DEFINE e == Every[s]
             q == (t - persisted) \div e
  <2>1. e \in Nat /\ e > 0
    BY <1>2, ScheduleAssumption DEF Schedules
  <2>2. t \in Nat /\ t - persisted \in Nat
    BY ScheduleAssumption
  <2>3. CoalesceNextRun(s, persisted, t) = persisted + e * (q + 1)
    BY <1>2, <2>2 DEF CoalesceNextRun
  <2> HIDE DEF e
  <2>4. q \in Nat /\ t - persisted < e * (q + 1) /\ e * (q + 1) \in Nat
    BY <2>1, <2>2
  <2> HIDE DEF q
  <2> DEFINE x == e * (q + 1)
  <2>5. x \in Nat /\ t - persisted < x /\ CoalesceNextRun(s, persisted, t) = persisted + x
    BY <2>3, <2>4
  <2> HIDE DEF x
  <2> QED
    BY <2>2, <2>5
<1> QED
  BY <1>1, <1>2

\* The first occurrence of a new schedule is a time.
LEMMA FirstRunIsTime ==
  ASSUME NEW s \in Schedules, NEW t \in 0..MaxTime
  PROVE  NextRunAt(s, t) \in Nat
<1>1. CASE s \in Crons
  <2>1. \E u \in CronTimes[s] : IsNextCron(s, t, u)
    BY <1>1, ScheduleAssumption
  <2>2. NextCron(s, t) \in CronTimes[s]
    BY <2>1 DEF NextCron
  <2> QED
    BY <1>1, <2>2, ScheduleAssumption DEF NextRunAt
<1>2. CASE s \notin Crons
  BY <1>2, ScheduleAssumption DEF NextRunAt, Schedules
<1> QED
  BY <1>1, <1>2

-----------------------------------------------------------------------------
(* The inductive invariant: next_run_at is ahead of the latest claim and of *)
(* its occurrence, and only a schedule with a row has ever been claimed.   *)

Ahead ==
  \A s \in Schedules :
    /\ row[s] = "new" => claims[s] = <<>>
    /\ claims[s] # <<>> => /\ nextRun[s] > claims[s][Len(claims[s])].due
                           /\ nextRun[s] > claims[s][Len(claims[s])].at

ClaimInv == TypeOK /\ Ahead /\ OncePerOccurrence

\* Nothing has been claimed from an empty store.
LEMMA InitClaimInv == Init => ClaimInv
  BY ScheduleAssumption DEF Init, ClaimInv, TypeOK, Ahead, OncePerOccurrence

\* One claim keeps the invariant, whoever makes it and whenever it read the clock.
LEMMA ClaimKeeps ==
  ASSUME ClaimInv, NEW chosen, NEW t \in 0..MaxTime, chosen \subseteq Due(t),
         ClaimDue(chosen, t), UNCHANGED row
  PROVE  /\ nextRun' \in [Schedules -> Nat]
         /\ lastRun' \in [Schedules -> -1..MaxTime]
         /\ claims' \in [Schedules -> Seq([due : Nat, at : 0..MaxTime])]
         /\ Ahead'
         /\ OncePerOccurrence'
<1> USE DEF ClaimInv
<1>1. \A s \in chosen : /\ s \in Schedules /\ row[s] = "present" /\ nextRun[s] <= t
                        /\ nextRun[s] \in Nat
  BY DEF Due, TypeOK
<1>2. \A s \in chosen : nextRun'[s] \in Nat /\ nextRun'[s] > t
  <2> SUFFICES ASSUME NEW s \in chosen
               PROVE  nextRun'[s] \in Nat /\ nextRun'[s] > t
    OBVIOUS
  <2>1. nextRun'[s] = CoalesceNextRun(s, nextRun[s], t)
    BY <1>1 DEF ClaimDue
  <2> QED
    BY <1>1, <2>1, CoalesceAhead
<1>3. \A s \in Schedules \ chosen : nextRun'[s] = nextRun[s] /\ claims'[s] = claims[s]
  BY DEF ClaimDue
<1>4. \A s \in chosen : claims'[s] = Append(claims[s], [due |-> nextRun[s], at |-> t])
  BY <1>1 DEF ClaimDue
<1>5. nextRun' \in [Schedules -> Nat]
  BY <1>1, <1>2, <1>3 DEF ClaimDue, TypeOK
<1>6. lastRun' \in [Schedules -> -1..MaxTime]
  BY DEF ClaimDue, TypeOK
<1>7. claims' \in [Schedules -> Seq([due : Nat, at : 0..MaxTime])]
  <2> DEFINE Entry == [due : Nat, at : 0..MaxTime]
  <2>1. \A s \in chosen : [due |-> nextRun[s], at |-> t] \in Entry
    BY <1>1
  <2>2. claims \in [Schedules -> Seq(Entry)]
    BY DEF TypeOK
  <2> HIDE DEF Entry
  <2>3. \A s \in Schedules : claims'[s] \in Seq(Entry)
    <3> SUFFICES ASSUME NEW s \in Schedules
                 PROVE  claims'[s] \in Seq(Entry)
      OBVIOUS
    <3>1. claims[s] \in Seq(Entry)
      BY <2>2
    <3>2. CASE s \in chosen
      <4> DEFINE e == [due |-> nextRun[s], at |-> t]
      <4>1. e \in Entry /\ claims'[s] = Append(claims[s], e)
        BY <1>4, <2>1, <3>2
      <4> HIDE DEF e
      <4> QED
        BY <3>1, <4>1
    <3>3. CASE s \notin chosen
      BY <1>3, <3>1, <3>3
    <3> QED
      BY <3>2, <3>3
  <2>4. claims' = [s \in Schedules |-> claims'[s]]
    BY DEF ClaimDue
  <2>5. claims' \in [Schedules -> Seq(Entry)]
    BY <2>3, <2>4
  <2> QED
    BY <2>5 DEF Entry
<1>8. Ahead'
  <2> SUFFICES ASSUME NEW s \in Schedules
               PROVE  /\ row'[s] = "new" => claims'[s] = <<>>
                      /\ claims'[s] # <<>> =>
                           /\ nextRun'[s] > claims'[s][Len(claims'[s])].due
                           /\ nextRun'[s] > claims'[s][Len(claims'[s])].at
    BY DEF Ahead
  <2>1. CASE s \in chosen
    <3>1. claims[s] \in Seq([due : Nat, at : 0..MaxTime])
      BY DEF TypeOK
    <3>2. claims'[s][Len(claims'[s])] = [due |-> nextRun[s], at |-> t]
      BY <1>4, <2>1, <3>1
    <3> QED
      BY <1>1, <1>2, <2>1, <3>2, ScheduleAssumption
  <2>2. CASE s \notin chosen
    BY <1>3, <2>2 DEF Ahead
  <2> QED
    BY <2>1, <2>2
<1>9. OncePerOccurrence'
  <2> SUFFICES ASSUME NEW s \in Schedules, NEW i \in 2..Len(claims'[s])
               PROVE  /\ claims'[s][i].due > claims'[s][i - 1].due
                      /\ claims'[s][i].due > claims'[s][i - 1].at
    BY DEF OncePerOccurrence
  <2>1. CASE s \in chosen
    <3> DEFINE c == claims[s]
    <3>1. c \in Seq([due : Nat, at : 0..MaxTime])
      BY DEF TypeOK
    <3>2. claims'[s] = Append(c, [due |-> nextRun[s], at |-> t])
      BY <1>4, <2>1
    <3>3. CASE i <= Len(c)
      <4>1. i \in 2..Len(c) /\ claims'[s][i] = c[i] /\ claims'[s][i - 1] = c[i - 1]
        BY <3>1, <3>2, <3>3
      <4> QED
        BY <4>1 DEF OncePerOccurrence
    <3>4. CASE i > Len(c)
      <4>1. /\ i = Len(c) + 1 /\ c # <<>>
            /\ claims'[s][i] = [due |-> nextRun[s], at |-> t]
            /\ claims'[s][i - 1] = c[Len(c)]
        BY <3>1, <3>2, <3>4
      <4> QED
        BY <4>1 DEF Ahead
    <3> QED
      BY <3>1, <3>3, <3>4
  <2>2. CASE s \notin chosen
    BY <1>3, <2>2 DEF OncePerOccurrence
  <2> QED
    BY <2>1, <2>2
<1> QED
  BY <1>5, <1>6, <1>7, <1>8, <1>9

\* Every step of the processes, the clock and the store keeps the claim invariant.
LEMMA NextClaimInv == ClaimInv /\ [Next]_vars => ClaimInv'
<1> SUFFICES ASSUME ClaimInv, [Next]_vars
             PROVE  ClaimInv'
  OBVIOUS
<1> USE DEF ClaimInv
<1> DEFINE Same == UNCHANGED <<row, nextRun, claims>>
<1>0. 0 \in 0..MaxTime
  BY ScheduleAssumption
<1>1. ASSUME Same PROVE Ahead' /\ OncePerOccurrence'
  BY <1>1 DEF Ahead, OncePerOccurrence
<1>2. CASE Passing
  <2>1. clock' \in 0..MaxTime
    BY <1>2, ScheduleAssumption DEF Passing, TypeOK
  <2> QED
    BY <1>1, <1>2, <2>1 DEF Passing, TypeOK, store, service
<1>3. ASSUME NEW s \in Schedules, CreateSchedule(s)
      PROVE  ClaimInv'
  <2>0. /\ enabled' \in SUBSET {q \in Schedules : row'[q] = "present"}
        /\ nextRun' \in [Schedules -> Nat]
    BY <1>3, FirstRunIsTime DEF CreateSchedule, TypeOK
  <2>1. TypeOK'
    BY <1>3, <2>0 DEF CreateSchedule, TypeOK, service
  <2>2. Ahead' /\ OncePerOccurrence'
    BY <1>3 DEF CreateSchedule, TypeOK, Ahead, OncePerOccurrence
  <2> QED
    BY <2>1, <2>2
<1>4. ASSUME NEW s \in Schedules, RemoveSchedule(s)
      PROVE  ClaimInv'
  <2>1. TypeOK'
    BY <1>4 DEF RemoveSchedule, TypeOK, service
  <2>2. Ahead' /\ OncePerOccurrence'
    BY <1>4 DEF RemoveSchedule, TypeOK, Ahead, OncePerOccurrence
  <2> QED
    BY <2>1, <2>2
<1>5. ASSUME NEW s \in Schedules, NEW on \in BOOLEAN, SetScheduleEnabled(s, on)
      PROVE  ClaimInv'
  BY <1>1, <1>5 DEF SetScheduleEnabled, TypeOK, service
<1>6. ASSUME NEW p \in Procs, Start(p)
      PROVE  ClaimInv'
  BY <1>1, <1>6 DEF Start, TypeOK, store
<1>7. ASSUME NEW p \in Procs, TickBegins(p)
      PROVE  ClaimInv'
  BY <1>1, <1>7 DEF TickBegins, TypeOK, store
<1>8. ASSUME NEW p \in Procs, NEW chosen \in SUBSET Schedules, TickClaims(p, chosen)
      PROVE  ClaimInv'
  <2>1. now[p] \in 0..MaxTime /\ chosen \subseteq Due(now[p])
    BY <1>8 DEF TickClaims, IsSelection, TypeOK
  <2>2. ClaimDue(chosen, now[p]) /\ UNCHANGED row
    BY <1>8 DEF TickClaims
  <2>3. children' \in [Procs -> SUBSET Dispatches]
    BY <1>8 DEF TickClaims, TypeOK, Dispatches
  <2> QED
    BY <1>0, <1>8, <2>1, <2>2, <2>3, ClaimKeeps DEF TickClaims, TypeOK
<1>9. ASSUME NEW p \in Procs, TickFails(p)
       PROVE  ClaimInv'
  BY <1>0, <1>1, <1>9 DEF TickFails, TypeOK, store
<1>10. ASSUME NEW p \in Procs, NEW d \in children[p], ChildDone(p, d)
       PROVE  ClaimInv'
  BY <1>1, <1>10 DEF ChildDone, TypeOK, store
<1>11. ASSUME NEW p \in Procs, Stop(p)
       PROVE  ClaimInv'
  <2>1. stops' \in 0..MaxStops
    BY <1>11, ScheduleAssumption DEF Stop, TypeOK
  <2> QED
    BY <1>1, <1>11, <2>1 DEF Stop, TypeOK, store
<1>12. ASSUME NEW p \in Procs, Drained(p)
       PROVE  ClaimInv'
  BY <1>1, <1>12 DEF Drained, TypeOK, store
<1>13. ASSUME NEW p \in Procs, Crash(p)
       PROVE  ClaimInv'
  <2>1. stops' \in 0..MaxStops
    BY <1>13, ScheduleAssumption DEF Crash, TypeOK
  <2> QED
    BY <1>0, <1>1, <1>13, <2>1 DEF Crash, TypeOK, store
<1>14. ASSUME NEW p \in Procs, NEW chosen \in SUBSET Schedules, CrashAfterClaim(p, chosen)
       PROVE  ClaimInv'
  <2>1. now[p] \in 0..MaxTime /\ chosen \subseteq Due(now[p])
    BY <1>14 DEF CrashAfterClaim, IsSelection, TypeOK
  <2>2. ClaimDue(chosen, now[p]) /\ UNCHANGED row
    BY <1>14 DEF CrashAfterClaim
  <2>3. stops' \in 0..MaxStops
    BY <1>14, ScheduleAssumption DEF CrashAfterClaim, TypeOK
  <2> QED
    BY <1>0, <1>14, <2>1, <2>2, <2>3, ClaimKeeps DEF CrashAfterClaim, TypeOK
<1>15. CASE UNCHANGED vars
  BY <1>1, <1>15 DEF vars, TypeOK
<1> QED
  BY <1>2, <1>3, <1>4, <1>5, <1>6, <1>7, <1>8, <1>9, <1>10, <1>11, <1>12, <1>13,
     <1>14, <1>15 DEF Next, Claim, Ends

-----------------------------------------------------------------------------
(* No drift.  What a row keeps of its grid: next_run_at is some number of   *)
(* intervals after created_at, and at most one after the latest claim.     *)

\* Two different multiples of e are at least e apart.
LEMMA MultiplesApart ==
  ASSUME NEW e \in Nat \ {0}, NEW j \in Int, NEW k \in Int, e * j < e * k
  PROVE  e * j <= e * k - e
<1>1. j < k
  BY Z3
<1>2. e * (j + 1) <= e * k
  BY <1>1, Z3
<1>3. e * (j + 1) = e * j + e
  BY Z3
<1> QED
  BY <1>2, <1>3

\* A multiple of the interval leaves no remainder, and nothing else does.
LEMMA Multiples ==
  ASSUME NEW e \in Nat \ {0}, NEW n \in Nat
  PROVE  n % e = 0 <=> \E k \in Nat : n = e * k
<1> DEFINE d == n \div e
           m == n % e
<1>1. d \in Nat /\ m \in Nat /\ m < e /\ n = e * d + m
  BY Z3
<1> HIDE DEF d, m
<1>2. ASSUME m = 0 PROVE \E k \in Nat : n = e * k
  BY <1>1, <1>2
<1>3. ASSUME NEW k \in Nat, n = e * k PROVE m = 0
  <2> DEFINE x == e * d
             y == e * k
  <2>0. x \in Nat /\ y \in Nat
    BY <1>1
  <2>1. ~(x < y)
    <3> SUFFICES ASSUME x < y PROVE FALSE
      OBVIOUS
    <3>1. x <= y - e
      BY <1>1, MultiplesApart
    <3> HIDE DEF x, y
    <3> QED
      BY <1>1, <1>3, <2>0, <3>1 DEF x, y
  <2>2. x + m = y
    BY <1>1, <1>3
  <2> HIDE DEF x, y
  <2> QED
    BY <1>1, <2>0, <2>1, <2>2
<1> QED
  BY <1>2, <1>3 DEF m

\* u is a whole number of intervals after a.
OnGrid(s, a, u) == \E k \in Nat : u = a + Every[s] * (k + 1)

FirstAfter(s, a, since, u) ==
  IF s \in Crons THEN u \in CronTimes[s] /\ IsNextCron(s, since, u)
  ELSE OnGrid(s, a, u) /\ u > since /\ u <= since + Every[s]

Since(s) == IF lastRun[s] = -1 THEN anchor[s] ELSE lastRun[s]

GridInv ==
  \A s \in Schedules :
    /\ row[s] = "new" => lastRun[s] = -1
    /\ row[s] = "present" => FirstAfter(s, anchor[s], Since(s), nextRun[s])

\* next_run_at: the first occurrence after the creation.
LEMMA FirstRunFits ==
  ASSUME NEW s \in Schedules, NEW t \in 0..MaxTime
  PROVE  FirstAfter(s, t, t, NextRunAt(s, t))
<1>1. CASE s \in Crons
  <2>1. \E u \in CronTimes[s] : IsNextCron(s, t, u)
    BY <1>1, ScheduleAssumption
  <2>2. NextCron(s, t) \in CronTimes[s] /\ IsNextCron(s, t, NextCron(s, t))
    BY <2>1 DEF NextCron
  <2> QED
    BY <1>1, <2>2 DEF NextRunAt, FirstAfter
<1>2. CASE s \notin Crons
  <2> DEFINE e == Every[s]
  <2>1. e \in Nat /\ e > 0 /\ t \in Nat
    BY <1>2, ScheduleAssumption DEF Schedules
  <2>2. NextRunAt(s, t) = t + e
    BY <1>2 DEF NextRunAt
  <2> HIDE DEF e
  <2>3. 0 \in Nat /\ t + e = t + e * (0 + 1) /\ t + e > t /\ t + e <= t + e
    BY <2>1
  <2>4. OnGrid(s, t, t + e)
    BY <2>3 DEF OnGrid, e
  <2> QED
    BY <1>2, <2>2, <2>3, <2>4 DEF FirstAfter, e
<1> QED
  BY <1>1, <1>2

\* coalesce_next_run keeps to the grid and skips what was missed, not more.
LEMMA CoalesceFits ==
  ASSUME NEW s \in Schedules, NEW a \in Nat, NEW since \in Nat, NEW u \in Nat,
         NEW t \in 0..MaxTime, FirstAfter(s, a, since, u), u <= t
  PROVE  FirstAfter(s, a, t, CoalesceNextRun(s, u, t))
<1>1. CASE s \in Crons
  <2>1. CoalesceNextRun(s, u, t) = NextRunAt(s, t)
    BY <1>1, ScheduleAssumption DEF CoalesceNextRun
  <2>2. FirstAfter(s, t, t, NextRunAt(s, t))
    BY FirstRunFits
  <2> QED
    BY <1>1, <2>1, <2>2 DEF FirstAfter
<1>2. CASE s \notin Crons
  <2> DEFINE e == Every[s]
             q == (t - u) \div e
  <2>1. e \in Nat /\ e > 0
    BY <1>2, ScheduleAssumption DEF Schedules
  <2>2. t \in Nat /\ t - u \in Nat
    BY ScheduleAssumption
  <2>3. CoalesceNextRun(s, u, t) = u + e * (q + 1)
    BY <1>2, <2>2 DEF CoalesceNextRun
  <2>4. PICK k \in Nat : u = a + e * (k + 1)
    BY <1>2 DEF FirstAfter, OnGrid
  <2> HIDE DEF e
  <2>5. q \in Nat /\ t - u < e * (q + 1) /\ e * q <= t - u
    BY <2>1, <2>2
  <2> HIDE DEF q
  <2>6. e * (q + 1) = e * q + e /\ e * q \in Nat
    BY <2>1, <2>5
  <2>7. e * (k + 1) + e * (q + 1) = e * ((k + q + 1) + 1) /\ k + q + 1 \in Nat
    BY <2>1, <2>4, <2>5
  <2>8. OnGrid(s, a, u + e * (q + 1))
    <3>1. u + e * (q + 1) = a + e * ((k + q + 1) + 1)
      BY <2>1, <2>4, <2>5, <2>7
    <3> QED
      BY <2>7, <3>1 DEF OnGrid, e
  <2>9. u + e * (q + 1) > t /\ u + e * (q + 1) <= t + e
    <3> DEFINE x == e * q
               y == e * (q + 1)
    <3>1. x \in Nat /\ y = x + e /\ t - u < y /\ x <= t - u
      BY <2>5, <2>6
    <3> HIDE DEF x, y
    <3>2. u + y > t /\ u + y <= t + e
      BY <2>1, <2>2, <3>1
    <3> QED
      BY <3>2 DEF y
  <2> QED
    BY <1>2, <2>3, <2>8, <2>9 DEF FirstAfter, e
<1> QED
  BY <1>1, <1>2

\* An empty store has no row that could drift.
LEMMA InitGridInv == Init => GridInv
  BY DEF Init, GridInv

\* A claim moves every row it selects to the first occurrence after its own `now'.
LEMMA ClaimKeepsGrid ==
  ASSUME TypeOK, GridInv, NEW chosen, NEW t \in 0..MaxTime, chosen \subseteq Due(t),
         ClaimDue(chosen, t), UNCHANGED <<row, anchor>>
  PROVE  GridInv'
<1> SUFFICES ASSUME NEW s \in Schedules
             PROVE  /\ row'[s] = "new" => lastRun'[s] = -1
                    /\ row'[s] = "present" =>
                         FirstAfter(s, anchor'[s], Since(s)', nextRun'[s])
  BY DEF GridInv
<1>1. CASE s \in chosen
  <2>1. /\ row[s] = "present" /\ nextRun[s] <= t
        /\ nextRun[s] \in Nat /\ anchor[s] \in Nat /\ lastRun[s] \in -1..MaxTime
    BY <1>1, ScheduleAssumption DEF Due, TypeOK
  <2>2. Since(s) \in Nat
    BY <2>1, ScheduleAssumption DEF Since
  <2>3. FirstAfter(s, anchor[s], t, CoalesceNextRun(s, nextRun[s], t))
    BY <2>1, <2>2, CoalesceFits DEF GridInv
  <2>4. nextRun'[s] = CoalesceNextRun(s, nextRun[s], t) /\ lastRun'[s] = t
    BY <1>1 DEF ClaimDue
  <2>5. t # -1
    BY ScheduleAssumption
  <2>6. Since(s)' = t
    BY <2>4, <2>5 DEF Since
  <2> QED
    BY <2>1, <2>3, <2>4, <2>6
<1>2. CASE s \notin chosen
  <2>1. nextRun'[s] = nextRun[s] /\ lastRun'[s] = lastRun[s] /\ anchor' = anchor
    BY <1>2 DEF ClaimDue
  <2>2. Since(s)' = Since(s)
    BY <2>1 DEF Since
  <2> QED
    BY <2>1, <2>2 DEF GridInv
<1> QED
  BY <1>1, <1>2

\* Every step of the processes, the clock and the store keeps the rows on their grids.
LEMMA NextGridInv == ClaimInv /\ GridInv /\ [Next]_vars => GridInv'
<1> SUFFICES ASSUME TypeOK, GridInv, [Next]_vars
             PROVE  GridInv'
  BY DEF ClaimInv
<1> DEFINE Same == UNCHANGED <<row, nextRun, lastRun, anchor>>
<1>1. ASSUME Same PROVE GridInv'
  BY <1>1 DEF GridInv, Since
<1>2. ASSUME NEW s \in Schedules, CreateSchedule(s)
      PROVE  GridInv'
  <2> SUFFICES ASSUME NEW q \in Schedules
               PROVE  /\ row'[q] = "new" => lastRun'[q] = -1
                      /\ row'[q] = "present" =>
                           FirstAfter(q, anchor'[q], Since(q)', nextRun'[q])
    BY DEF GridInv
  <2>1. lastRun' = lastRun /\ row[s] = "new"
    BY <1>2 DEF CreateSchedule
  <2>2. CASE q = s
    <3>1. /\ nextRun'[q] = NextRunAt(s, clock) /\ anchor'[q] = clock
          /\ clock \in 0..MaxTime /\ row'[q] = "present"
      BY <1>2, <2>2 DEF CreateSchedule, TypeOK
    <3>2. Since(q)' = clock
      BY <2>1, <2>2, <3>1 DEF Since, GridInv
    <3> QED
      BY <2>2, <3>1, <3>2, FirstRunFits
  <2>3. CASE q # s
    <3>1. /\ row'[q] = row[q] /\ nextRun'[q] = nextRun[q] /\ anchor'[q] = anchor[q]
          /\ Since(q)' = Since(q)
      BY <1>2, <2>3 DEF CreateSchedule, TypeOK, Since
    <3> QED
      BY <2>1, <3>1 DEF GridInv
  <2> QED
    BY <2>2, <2>3
<1>3. ASSUME NEW s \in Schedules, RemoveSchedule(s)
      PROVE  GridInv'
  <2>1. /\ UNCHANGED <<nextRun, lastRun, anchor>>
        /\ \A q \in Schedules : row'[q] = row[q] \/ row'[q] = "removed"
    BY <1>3 DEF RemoveSchedule, TypeOK
  <2> QED
    BY <2>1 DEF GridInv, Since
<1>4. ASSUME NEW p \in Procs, NEW chosen, TickClaims(p, chosen)
      PROVE  GridInv'
  <2>1. now[p] \in 0..MaxTime /\ chosen \subseteq Due(now[p])
    BY <1>4 DEF TickClaims, IsSelection, TypeOK
  <2>2. ClaimDue(chosen, now[p]) /\ UNCHANGED <<row, anchor>>
    BY <1>4 DEF TickClaims
  <2> QED
    BY <2>1, <2>2, ClaimKeepsGrid
<1>5. ASSUME NEW p \in Procs, NEW chosen, CrashAfterClaim(p, chosen)
      PROVE  GridInv'
  <2>1. now[p] \in 0..MaxTime /\ chosen \subseteq Due(now[p])
    BY <1>5 DEF CrashAfterClaim, IsSelection, TypeOK
  <2>2. ClaimDue(chosen, now[p]) /\ UNCHANGED <<row, anchor>>
    BY <1>5 DEF CrashAfterClaim
  <2> QED
    BY <2>1, <2>2, ClaimKeepsGrid
<1>6. CASE Passing \/ UNCHANGED vars
  BY <1>1, <1>6 DEF Passing, vars, store
<1>7. ASSUME NEW s \in Schedules, NEW on \in BOOLEAN, SetScheduleEnabled(s, on)
      PROVE  GridInv'
  BY <1>1, <1>7 DEF SetScheduleEnabled
<1>8. ASSUME NEW p \in Procs, \/ Start(p) \/ TickBegins(p) \/ TickFails(p) \/ Stop(p)
                              \/ Drained(p) \/ Crash(p)
      PROVE  GridInv'
  BY <1>1, <1>8 DEF Start, TickBegins, TickFails, Stop, Drained, Crash, store
<1>9. ASSUME NEW p \in Procs, NEW d, ChildDone(p, d)
      PROVE  GridInv'
  BY <1>1, <1>9 DEF ChildDone, store
<1> QED
  BY <1>2, <1>3, <1>4, <1>5, <1>6, <1>7, <1>8, <1>9 DEF Next, Claim, Ends

\* A row on its grid names the first occurrence after its creation or latest claim.
LEMMA GridIsFirst == TypeOK /\ GridInv => NextIsFirstFuture
<1> SUFFICES ASSUME TypeOK, GridInv, NEW s \in Schedules, row[s] = "present"
             PROVE  /\ Occurs(s, nextRun[s])
                    /\ nextRun[s] > Since(s)
                    /\ \A t \in Since(s) + 1..nextRun[s] - 1 : ~Occurs(s, t)
  BY DEF NextIsFirstFuture, Since
<1> DEFINE u == nextRun[s]
           a == anchor[s]
           b == Since(s)
<1>1. u \in Nat /\ a \in Nat /\ b \in Nat /\ FirstAfter(s, a, b, u)
  BY ScheduleAssumption DEF TypeOK, Since, GridInv
<1>2. CASE s \in Crons
  <2>1. u \in CronTimes[s] /\ IsNextCron(s, b, u) /\ CronTimes[s] \subseteq Nat
    BY <1>1, <1>2, ScheduleAssumption DEF FirstAfter
  <2> HIDE DEF u, b
  <2>2. u > b /\ \A t \in b + 1..u - 1 : t \notin CronTimes[s]
    BY <1>1, <2>1 DEF IsNextCron
  <2> QED
    BY <1>2, <2>1, <2>2 DEF Occurs, u, b
<1>3. CASE s \notin Crons
  <2> DEFINE e == Every[s]
  <2>1. e \in Nat \ {0}
    BY <1>3, ScheduleAssumption DEF Schedules
  <2>2. u > b /\ u <= b + e
    BY <1>1, <1>3 DEF FirstAfter
  <2>3. PICK k \in Nat : u = a + e * (k + 1)
    BY <1>1, <1>3 DEF FirstAfter, OnGrid
  <2>4. \A t : Occurs(s, t) <=> t > a /\ (t - a) % e = 0
    BY <1>3 DEF Occurs
  <2> HIDE DEF u, a, b, e
  <2> DEFINE x == e * (k + 1)
  <2>5. x \in Nat /\ x > 0 /\ u - a = x
    BY <1>1, <2>1, <2>3
  <2>6. Occurs(s, u)
    <3>1. u > a /\ u - a \in Nat
      BY <1>1, <2>5
    <3>2. u - a = e * (k + 1) /\ k + 1 \in Nat
      BY <2>5
    <3>3. (u - a) % e = 0
      BY <2>1, <3>1, <3>2, Multiples
    <3> QED
      BY <2>4, <3>1, <3>3
  <2>7. ASSUME NEW t \in b + 1..u - 1, Occurs(s, t)
        PROVE  FALSE
    <3>1. t \in Nat /\ t > b /\ t < u
      BY <1>1
    <3>2. t > a /\ (t - a) % e = 0
      BY <2>4, <2>7
    <3>3. t - a \in Nat
      BY <1>1, <3>1, <3>2
    <3>4. PICK j \in Nat : t - a = e * j
      BY <2>1, <3>2, <3>3, Multiples
    <3> DEFINE y == e * j
    <3>5. y = t - a /\ y < x
      BY <1>1, <2>5, <3>1, <3>4
    <3>6. y <= x - e
      BY <2>1, <3>5, MultiplesApart
    <3> HIDE DEF x, y
    <3> QED
      BY <1>1, <2>1, <2>2, <2>5, <3>1, <3>5, <3>6
  <2> QED
    BY <2>2, <2>6, <2>7 DEF u, b
<1> QED
  BY <1>2, <1>3

-----------------------------------------------------------------------------
\* Every reachable state of the store and its serve processes is well typed.
THEOREM SchedulerTyped == Spec => []TypeOK
<1>1. Spec => []ClaimInv
  BY InitClaimInv, NextClaimInv, PTL DEF Spec
<1>2. ClaimInv => TypeOK
  BY DEF ClaimInv
<1> QED
  BY <1>1, <1>2, PTL

\* However many serve processes share the store, stop, crash or wait for its lock,
\* claim_due_schedules never hands out an occurrence twice and never one that lies
\* before an earlier claim.
THEOREM ClaimedOnce == Spec => []OncePerOccurrence
<1>1. Spec => []ClaimInv
  BY InitClaimInv, NextClaimInv, PTL DEF Spec
<1>2. ClaimInv => OncePerOccurrence
  BY DEF ClaimInv
<1> QED
  BY <1>1, <1>2, PTL

\* No drift: whichever process claims, however late and with however old a reading of the
\* clock, coalesce_next_run leaves next_run_at on the first occurrence after the claim, on
\* the grid that starts at created_at.
THEOREM NoDrift == Spec => []NextIsFirstFuture
<1>1. Spec => []ClaimInv
  BY InitClaimInv, NextClaimInv, PTL DEF Spec
<1>2. Spec => []GridInv
  BY <1>1, InitGridInv, NextGridInv, PTL DEF Spec
<1>3. ClaimInv /\ GridInv => NextIsFirstFuture
  BY GridIsFirst DEF ClaimInv
<1> QED
  BY <1>1, <1>2, <1>3, PTL
=============================================================================
