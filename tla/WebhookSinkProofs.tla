------------------------- MODULE WebhookSinkProofs -------------------------
(***************************************************************************)
(* Proofs about the webhook sink, for any number of workers and any size of *)
(* its queue: every event is in one place, what a worker posts is in order  *)
(* and bounded by max_retries, and a close() in time leaves nothing behind. *)
(***************************************************************************)
EXTENDS WebhookSink, FiniteSetTheorems, TLAPS

\* The places of an event do not overlap, and no two workers hold the same one.
PlaceInv ==
  /\ 1..emitted = dropped \cup Queued \cup Sending \cup resolved
  /\ dropped \cap (Queued \cup Sending \cup resolved) = {}
  /\ Sending \cap resolved = {}
  /\ \A w, v \in Workers : wpc[w] = "sending" /\ wpc[v] = "sending" /\ job[w] = job[v] => w = v
  /\ \A w \in Workers : wpc[w] = "sending" => job[w] \in Events

\* The queue is first in, first out: events in the order of emit(), sentinels behind them,
\* and everything that was taken off it was emitted before what is still there.
OrderInv ==
  /\ \A i, j \in DOMAIN queue :
       i < j /\ queue[j] # Sentinel => queue[i] # Sentinel /\ queue[i] < queue[j]
  /\ \A e \in Queued, f \in Sending \cup resolved : f < e

\* Requests for e in the log a of the endpoint.
Posts(a, e) == Cardinality({i \in DOMAIN a : a[i].event = e})

\* What a worker posted is not after the event it is at, and each attempt posts once.
ArrivalInv ==
  /\ \A i \in DOMAIN arrived : arrived[i].event \in Sending \cup resolved
  /\ \A w \in Workers, i \in DOMAIN arrived :
       wpc[w] = "sending" /\ arrived[i].by = w => arrived[i].event <= job[w]
  /\ \A w \in Workers : wpc[w] = "sending" => Posts(arrived, job[w]) < attempt[w]

Gone == {w \in Workers : wpc[w] = "gone"}

\* The first m items of the queue are events and the others sentinels, of which there are
\* never more than workers that have yet to end.
SentinelsFit ==
  \E m \in 0..Len(queue) :
    /\ \A i \in DOMAIN queue : queue[i] = Sentinel <=> i > m
    /\ (Len(queue) - m) + Cardinality(Gone) + toPut <= Cardinality(Workers)

\* How far close() and the workers have come fits what is in the queue.
CloseInv ==
  /\ ~started => /\ queue = <<>> /\ closing \in {"open", "returned"}
                 /\ \A w \in Workers : wpc[w] = "new"
  /\ started => \A w \in Workers : wpc[w] # "new"
  /\ closing = "open" => /\ \A w \in Workers : wpc[w] # "gone"
                         /\ \A i \in DOMAIN queue : queue[i] # Sentinel
  /\ closing # "putting" => toPut = 0
  /\ Gone # {} => \A i \in DOMAIN queue : queue[i] = Sentinel
  /\ closing = "returned" /\ started /\ ~timedOut => \A w \in Workers : wpc[w] = "gone"
  /\ SentinelsFit

SinkInv == TypeOK /\ PlaceInv /\ OrderInv /\ ArrivalInv /\ RetriesInPlace /\ CloseInv

-----------------------------------------------------------------------------
(* Constants, the queue and the pool.                                      *)

LEMMA Numbers ==
  /\ QueueSize \in Nat /\ MaxRetries \in Nat /\ MaxRetries > 0 /\ MaxEvents \in Nat
  /\ Events = 1..MaxEvents /\ Events \subseteq Nat /\ Sentinel \notin Events /\ Sentinel = 0
  BY SinkAssumption DEF Events, Sentinel

LEMMA PoolSize ==
  /\ Cardinality(Workers) \in Nat
  /\ \A S \in SUBSET Workers : IsFiniteSet(S) /\ Cardinality(S) \in Nat
  BY SinkAssumption, FS_CardinalityType, FS_Subset

\* put(): one item more at the end.
LEMMA QueueAppend ==
  ASSUME TypeOK, NEW x \in Events \cup {Sentinel}, queue' = Append(queue, x)
  PROVE  /\ queue' \in Seq(Events \cup {Sentinel})
         /\ Len(queue) \in Nat /\ Len(queue') = Len(queue) + 1
         /\ DOMAIN queue = 1..Len(queue) /\ DOMAIN queue' = 1..(Len(queue) + 1)
         /\ queue'[Len(queue) + 1] = x
         /\ \A i \in DOMAIN queue : queue'[i] = queue[i]
         /\ queue' # queue
         /\ Queued' = Queued \cup ({x} \ {Sentinel})
<1> DEFINE S == Events \cup {Sentinel}
<1>0. queue \in Seq(S) /\ x \in S
  BY DEF TypeOK
<1> HIDE DEF S
<1>1. /\ queue' \in Seq(S) /\ Len(queue) \in Nat /\ Len(queue') = Len(queue) + 1
      /\ DOMAIN queue = 1..Len(queue) /\ DOMAIN queue' = 1..(Len(queue) + 1)
      /\ queue'[Len(queue) + 1] = x
      /\ \A i \in DOMAIN queue : queue'[i] = queue[i]
  BY <1>0
<1>2. queue' # queue
  <2>1. \A n \in Nat : n + 1 # n
    OBVIOUS
  <2>2. Len(queue') # Len(queue)
    BY <1>1, <2>1, Zenon
  <2> QED
    BY <2>2, Zenon
<1>3. DOMAIN queue' = DOMAIN queue \cup {Len(queue) + 1}
  BY <1>1
<1>4. Queued' = Queued \cup ({x} \ {Sentinel})
  BY <1>1, <1>3 DEF Queued
<1> QED
  BY <1>1, <1>2, <1>4 DEF S

\* get(): the first item is taken, the others move up.
LEMMA QueueTail ==
  ASSUME TypeOK, queue # <<>>, queue' = Tail(queue)
  PROVE  /\ queue' \in Seq(Events \cup {Sentinel})
         /\ Len(queue) \in Nat /\ Len(queue) > 0 /\ Len(queue') = Len(queue) - 1
         /\ DOMAIN queue = 1..Len(queue) /\ DOMAIN queue' = 1..(Len(queue) - 1)
         /\ Head(queue) = queue[1] /\ Head(queue) \in Events \cup {Sentinel}
         /\ \A i \in DOMAIN queue' : i + 1 \in DOMAIN queue /\ queue'[i] = queue[i + 1]
<1> DEFINE S == Events \cup {Sentinel}
<1>0. queue \in Seq(S)
  BY DEF TypeOK
<1> HIDE DEF S
<1>1. /\ queue' \in Seq(S) /\ Len(queue) \in Nat /\ Len(queue) > 0
      /\ Len(queue') = Len(queue) - 1
      /\ DOMAIN queue = 1..Len(queue) /\ DOMAIN queue' = 1..(Len(queue) - 1)
      /\ Head(queue) = queue[1] /\ Head(queue) \in S
  BY <1>0
<1>2. \A i \in DOMAIN queue' : i + 1 \in DOMAIN queue /\ queue'[i] = queue[i + 1]
  BY <1>0, <1>1
<1> QED
  BY <1>1, <1>2 DEF S

\* What get() takes is no longer queued: events are queued once, in order.
LEMMA TakenOnce ==
  ASSUME TypeOK, OrderInv, queue # <<>>, queue' = Tail(queue)
  PROVE  /\ Head(queue) # Sentinel => Head(queue) \in Queued /\ Queued' = Queued \ {Head(queue)}
         /\ Head(queue) = Sentinel => Queued = {} /\ Queued' = {}
         /\ Head(queue) # Sentinel => \A e \in Queued' : Head(queue) < e
<1> DEFINE h == Head(queue)
<1>1. /\ Len(queue) \in Nat /\ Len(queue) > 0
      /\ DOMAIN queue = 1..Len(queue) /\ DOMAIN queue' = 1..(Len(queue) - 1)
      /\ h = queue[1] /\ h \in Events \cup {Sentinel}
      /\ \A i \in DOMAIN queue' : i + 1 \in DOMAIN queue /\ queue'[i] = queue[i + 1]
  BY QueueTail
<1> HIDE DEF h
<1>2. \A j \in DOMAIN queue : j # 1 /\ queue[j] # Sentinel => h # Sentinel /\ h < queue[j]
  BY <1>1 DEF OrderInv
<1>3. \A j \in DOMAIN queue : queue[j] \in Events \cup {Sentinel}
  BY <1>1 DEF TypeOK
<1>4. \A e \in Queued' : e \in Queued /\ h # Sentinel /\ h < e
  <2> SUFFICES ASSUME NEW i \in DOMAIN queue', queue'[i] # Sentinel
               PROVE  queue'[i] \in Queued /\ h # Sentinel /\ h < queue'[i]
    BY DEF Queued
  <2>1. i + 1 \in DOMAIN queue /\ i + 1 # 1 /\ queue'[i] = queue[i + 1]
    BY <1>1
  <2> QED
    BY <1>2, <2>1 DEF Queued
<1>5. \A e \in Queued : e # h => e \in Queued'
  <2> SUFFICES ASSUME NEW j \in DOMAIN queue, queue[j] # Sentinel, queue[j] # h
               PROVE  queue[j] \in Queued'
    BY DEF Queued
  <2>1. j # 1 /\ j - 1 \in DOMAIN queue' /\ (j - 1) + 1 = j
    BY <1>1
  <2>2. queue'[j - 1] = queue[j]
    BY <1>1, <2>1
  <2> QED
    BY <2>1, <2>2 DEF Queued
<1>6. ASSUME h # Sentinel PROVE h \in Queued /\ h \notin Queued'
  <2>1. h \in Queued
    BY <1>1, <1>6 DEF Queued
  <2>2. h \in Nat
    BY <1>1, <1>6, Numbers
  <2>3. ~(h < h)
    BY <2>2
  <2> QED
    BY <1>4, <2>1, <2>3
<1>7. ASSUME h = Sentinel PROVE Queued = {} /\ Queued' = {}
  <2>1. Sentinel \notin Queued
    BY DEF Queued
  <2> QED
    BY <1>4, <1>5, <1>7, <2>1
<1> QED
  BY <1>4, <1>5, <1>6, <1>7 DEF h

\* Only the worker that takes or finishes an event changes what is being sent.
LEMMA SendingGrows ==
  ASSUME TypeOK, NEW w \in Workers, wpc[w] = "idle", NEW e,
         wpc' = [wpc EXCEPT ![w] = "sending"], job' = [job EXCEPT ![w] = e]
  PROVE  /\ Sending' = Sending \cup {e} /\ Gone' = Gone
         /\ wpc'[w] = "sending" /\ job'[w] = e
         /\ \A v \in Workers \ {w} : wpc'[v] = wpc[v] /\ job'[v] = job[v]
<1>1. /\ wpc'[w] = "sending" /\ job'[w] = e
      /\ \A v \in Workers \ {w} : wpc'[v] = wpc[v] /\ job'[v] = job[v]
  BY DEF TypeOK
<1>2. Sending' = Sending \cup {e}
  BY <1>1 DEF Sending
<1>3. Gone' = Gone
  BY <1>1 DEF Gone
<1> QED
  BY <1>1, <1>2, <1>3

LEMMA SendingShrinks ==
  ASSUME TypeOK, PlaceInv, NEW w \in Workers, wpc[w] = "sending",
         wpc' = [wpc EXCEPT ![w] = "idle"], job' = [job EXCEPT ![w] = Sentinel]
  PROVE  /\ Sending' = Sending \ {job[w]} /\ job[w] \in Sending /\ Gone' = Gone
         /\ wpc'[w] = "idle"
         /\ \A v \in Workers \ {w} : wpc'[v] = wpc[v] /\ job'[v] = job[v]
<1>1. /\ wpc'[w] = "idle"
      /\ \A v \in Workers \ {w} : wpc'[v] = wpc[v] /\ job'[v] = job[v]
  BY DEF TypeOK
<1>2. \A v \in Workers \ {w} : wpc[v] = "sending" => job[v] # job[w]
  BY DEF PlaceInv
<1>3. Sending' = Sending \ {job[w]} /\ job[w] \in Sending
  BY <1>1, <1>2 DEF Sending
<1>4. Gone' = Gone
  BY <1>1 DEF Gone
<1> QED
  BY <1>1, <1>3, <1>4

\* Sending and queued events are events that were emitted.
LEMMA InRange ==
  ASSUME TypeOK, PlaceInv
  PROVE  /\ emitted \in Nat
         /\ \A e \in dropped \cup Queued \cup Sending \cup resolved :
              e \in Events /\ e \in Nat /\ e >= 1 /\ e <= emitted
<1>1. emitted \in Nat /\ emitted <= MaxEvents
  BY Numbers DEF TypeOK
<1>2. \A e \in 1..emitted : e \in Events /\ e \in Nat /\ e >= 1 /\ e <= emitted
  BY <1>1, Numbers
<1> QED
  BY <1>1, <1>2 DEF PlaceInv

-----------------------------------------------------------------------------
(* Types.                                                                  *)

LEMMA InitTypes == Init => TypeOK
<1> SUFFICES ASSUME Init PROVE TypeOK
  OBVIOUS
<1>1. started \in BOOLEAN /\ timedOut \in BOOLEAN /\ exited \in BOOLEAN
  BY Zenon DEF Init
<1>2. /\ emitted \in 0..MaxEvents /\ toPut \in 0..Cardinality(Workers)
      /\ attempt \in [Workers -> 1..MaxRetries] /\ Len(queue) <= QueueSize
  BY Numbers, PoolSize DEF Init
<1>3. /\ dropped \in SUBSET Events /\ resolved \in SUBSET Events
      /\ queue \in Seq(Events \cup {Sentinel})
      /\ wpc \in [Workers -> {"new", "idle", "sending", "gone"}]
      /\ job \in [Workers -> Events \cup {Sentinel}]
      /\ closing \in {"open", "putting", "joining", "returned"}
      /\ arrived \in Seq([by : Workers, event : Events])
  BY DEF Init
<1> QED
  BY <1>1, <1>2, <1>3 DEF TypeOK

\* A request that arrives is one more row of the endpoint's log.
LEMMA OneMoreArrival ==
  ASSUME TypeOK, NEW w \in Workers, NEW e \in Events,
         arrived' = Append(arrived, [by |-> w, event |-> e])
  PROVE  /\ arrived' \in Seq([by : Workers, event : Events])
         /\ Len(arrived) \in Nat /\ DOMAIN arrived = 1..Len(arrived)
         /\ DOMAIN arrived' = 1..(Len(arrived) + 1)
         /\ arrived'[Len(arrived) + 1].by = w /\ arrived'[Len(arrived) + 1].event = e
         /\ \A i \in DOMAIN arrived : arrived'[i] = arrived[i]
<1> DEFINE S == [by : Workers, event : Events]
           a == [by |-> w, event |-> e]
<1>0. arrived \in Seq(S) /\ a \in S /\ a.by = w /\ a.event = e
  BY DEF TypeOK
<1>1. arrived' = Append(arrived, a)
  OBVIOUS
<1> HIDE DEF S, a
<1>2. /\ arrived' \in Seq(S)
      /\ Len(arrived) \in Nat /\ DOMAIN arrived = 1..Len(arrived)
      /\ DOMAIN arrived' = 1..(Len(arrived) + 1)
      /\ arrived'[Len(arrived) + 1] = a
      /\ \A i \in DOMAIN arrived : arrived'[i] = arrived[i]
  BY <1>0, <1>1
<1> QED
  BY <1>0, <1>2 DEF S

\* Every step of the loop and the workers keeps the types.
LEMMA NextTypes == TypeOK /\ PlaceInv /\ [Next]_vars => TypeOK'
<1> SUFFICES ASSUME TypeOK, PlaceInv, [Next]_vars PROVE TypeOK'
  OBVIOUS
<1>0. CASE ProcessExit
  <2>1. exited' \in BOOLEAN
    BY <1>0, Zenon DEF ProcessExit
  <2> QED
    BY <1>0, <2>1 DEF ProcessExit, TypeOK, pool, closer, result
<1>1. CASE Emit
  <2>1. emitted + 1 \in Events /\ emitted' \in 0..MaxEvents
    BY <1>1, Numbers DEF Emit, TypeOK
  <2>2. UNCHANGED <<job, attempt, closing, toPut, timedOut, exited, arrived, resolved>>
    BY <1>1 DEF Emit, Alive, closer, result
  <2>3. started' \in BOOLEAN
    BY <1>1, Zenon DEF Emit, TypeOK
  <2>4. wpc' \in [Workers -> {"new", "idle", "sending", "gone"}]
    BY <1>1 DEF Emit, TypeOK
  <2>5. dropped' \in SUBSET Events
    BY <1>1, <2>1 DEF Emit, TypeOK
  <2>6. queue' \in Seq(Events \cup {Sentinel}) /\ Len(queue') <= QueueSize
    <3>1. queue' = queue \/ (Len(queue) < QueueSize /\ queue' = Append(queue, emitted + 1))
      BY <1>1 DEF Emit, PutNowait
    <3>2. CASE queue' = queue
      BY <3>2 DEF TypeOK
    <3>3. CASE Len(queue) < QueueSize /\ queue' = Append(queue, emitted + 1)
      BY <2>1, <3>3, QueueAppend, Numbers
    <3> QED
      BY <3>1, <3>2, <3>3
  <2> QED
    BY <2>1, <2>2, <2>3, <2>4, <2>5, <2>6 DEF TypeOK
<1>2. CASE CloseBegins
  <2>1. toPut' \in 0..Cardinality(Workers)
    BY <1>2, PoolSize DEF CloseBegins
  <2>2. closing' \in {"open", "putting", "joining", "returned"}
    BY <1>2 DEF CloseBegins
  <2> QED
    BY <1>2, <2>1, <2>2 DEF CloseBegins, Alive, TypeOK, pool, result
<1>3. CASE PutSentinel
  <2>1. toPut' \in 0..Cardinality(Workers)
    BY <1>3, PoolSize DEF PutSentinel, TypeOK
  <2>2. closing' \in {"open", "putting", "joining", "returned"}
    BY <1>3 DEF PutSentinel, TypeOK
  <2>3. queue' \in Seq(Events \cup {Sentinel}) /\ Len(queue') <= QueueSize
    <3>1. queue' = queue \/ (Len(queue) < QueueSize /\ queue' = Append(queue, Sentinel))
      BY <1>3 DEF PutSentinel, PutNowait
    <3>2. CASE queue' = queue
      BY <3>2 DEF TypeOK
    <3>3. CASE Len(queue) < QueueSize /\ queue' = Append(queue, Sentinel)
      BY <3>3, QueueAppend, Numbers
    <3> QED
      BY <3>1, <3>2, <3>3
  <2> QED
    BY <1>3, <2>1, <2>2, <2>3 DEF PutSentinel, Alive, TypeOK, pool, result
<1>4. CASE Joined
  BY <1>4 DEF Joined, Alive, TypeOK, pool, result
<1>5. CASE JoinTimeout
  <2>1. timedOut' \in BOOLEAN
    BY <1>5, Zenon DEF JoinTimeout
  <2> QED
    BY <1>5, <2>1 DEF JoinTimeout, Alive, TypeOK, pool, result
<1>6. ASSUME NEW w \in Workers, GetItem(w)
      PROVE  TypeOK'
  <2>1. queue # <<>> /\ queue' = Tail(queue)
    BY <1>6 DEF GetItem
  <2>2. /\ queue' \in Seq(Events \cup {Sentinel}) /\ Len(queue') <= QueueSize
        /\ Head(queue) \in Events \cup {Sentinel}
    BY <2>1, QueueTail, Numbers DEF TypeOK
  <2>3. 1 \in 1..MaxRetries
    BY Numbers
  <2>4. /\ wpc' \in [Workers -> {"new", "idle", "sending", "gone"}]
        /\ job' \in [Workers -> Events \cup {Sentinel}]
        /\ attempt' \in [Workers -> 1..MaxRetries]
    BY <1>6, <2>2, <2>3 DEF GetItem, TypeOK
  <2> QED
    BY <1>6, <2>2, <2>4 DEF GetItem, Alive, TypeOK, closer, result
<1>7. ASSUME NEW w \in Workers, NEW arrives \in BOOLEAN, NEW ok \in BOOLEAN,
             Attempt(w, arrives, ok)
      PROVE  TypeOK'
  <2>1. job[w] \in Events
    BY <1>7 DEF Attempt, PlaceInv
  <2>2. arrived' \in Seq([by : Workers, event : Events])
    BY <1>7, <2>1, OneMoreArrival DEF Attempt, TypeOK
  <2>3. \/ Done(w)
        \/ /\ attempt[w] # MaxRetries /\ attempt' = [attempt EXCEPT ![w] = @ + 1]
           /\ UNCHANGED <<wpc, job, resolved>>
    BY <1>7 DEF Attempt
  <2>4. 1 \in 1..MaxRetries /\ (attempt[w] # MaxRetries => attempt[w] + 1 \in 1..MaxRetries)
    BY Numbers DEF TypeOK
  <2>5. attempt' \in [Workers -> 1..MaxRetries]
    BY <2>3, <2>4 DEF Done, TypeOK
  <2>6. /\ wpc' \in [Workers -> {"new", "idle", "sending", "gone"}]
        /\ job' \in [Workers -> Events \cup {Sentinel}] /\ resolved' \in SUBSET Events
    BY <2>1, <2>3 DEF Done, TypeOK
  <2> QED
    BY <1>7, <2>2, <2>5, <2>6 DEF Attempt, Alive, TypeOK, closer
<1>8. CASE UNCHANGED vars
  BY <1>8 DEF vars, TypeOK
<1> QED
  BY <1>0, <1>1, <1>2, <1>3, <1>4, <1>5, <1>6, <1>7, <1>8 DEF Next, WorkerStep

-----------------------------------------------------------------------------
(* Places and order.                                                       *)

\* A step in which no worker takes or finishes an event.
SameSenders ==
  \A w \in Workers : (wpc'[w] = "sending" <=> wpc[w] = "sending") /\ job'[w] = job[w]

LEMMA SendersStay == SameSenders => Sending' = Sending
  BY DEF SameSenders, Sending

\* Starting the workers is no delivery.
LEMMA EmitSenders == TypeOK /\ CloseInv /\ Emit => SameSenders
<1> SUFFICES ASSUME TypeOK, CloseInv, Emit, NEW w \in Workers
             PROVE  (wpc'[w] = "sending" <=> wpc[w] = "sending") /\ job'[w] = job[w]
  BY DEF SameSenders
<1>1. job'[w] = job[w]
  BY DEF Emit
<1>2. CASE wpc' = wpc
  BY <1>1, <1>2
<1>3. CASE ~started /\ wpc' = [v \in Workers |-> "idle"]
  <2>1. wpc[w] = "new" /\ wpc'[w] = "idle"
    BY <1>3 DEF CloseInv
  <2> QED
    BY <1>1, <2>1
<1> QED
  BY <1>2, <1>3 DEF Emit

\* A step that moves no event between its places.
LEMMA PlacesStay ==
  ASSUME PlaceInv, OrderInv, SameSenders, Queued' = Queued,
         UNCHANGED <<emitted, dropped, resolved>>
  PROVE  /\ PlaceInv'
         /\ \A e \in Queued', f \in Sending' \cup resolved' : f < e
<1>1. Sending' = Sending
  BY SendersStay
<1>2. PlaceInv'
  BY <1>1 DEF PlaceInv, SameSenders
<1> QED
  BY <1>1, <1>2 DEF OrderInv

\* emit(): the event is queued behind the others or dropped.
LEMMA EmitPlaces == TypeOK /\ PlaceInv /\ OrderInv /\ CloseInv /\ Emit => PlaceInv' /\ OrderInv'
<1> SUFFICES ASSUME TypeOK, PlaceInv, OrderInv, CloseInv, Emit PROVE PlaceInv' /\ OrderInv'
  OBVIOUS
<1> DEFINE n == emitted + 1
<1>1. /\ emitted \in Nat /\ emitted' = n /\ n \in Events /\ n # Sentinel
      /\ 1..n = 1..emitted \cup {n} /\ n \notin 1..emitted
      /\ UNCHANGED <<resolved, job>>
  BY Numbers DEF Emit, TypeOK, result
<1>2. SameSenders /\ Sending' = Sending
  BY EmitSenders, SendersStay
<1>3. \A e \in dropped \cup Queued \cup Sending \cup resolved :
        e \in Nat /\ e <= emitted /\ e # n /\ e < n
  BY <1>1, InRange
<1> HIDE DEF n
<1>4. CASE queue' = queue /\ dropped' = dropped \cup {n}
  <2>1. Queued' = Queued
    BY <1>4 DEF Queued
  <2>2. /\ 1..emitted' = dropped' \cup Queued' \cup Sending' \cup resolved'
        /\ dropped' \cap (Queued' \cup Sending' \cup resolved') = {}
    BY <1>1, <1>2, <1>3, <1>4, <2>1 DEF PlaceInv
  <2>3. PlaceInv'
    BY <1>1, <1>2, <2>2 DEF PlaceInv, SameSenders
  <2>4. OrderInv'
    BY <1>1, <1>2, <1>4, <2>1 DEF OrderInv
  <2> QED
    BY <2>3, <2>4
<1>5. CASE closing = "open" /\ queue' = Append(queue, n) /\ dropped' = dropped
  <2>1. /\ Len(queue) \in Nat
        /\ DOMAIN queue = 1..Len(queue) /\ DOMAIN queue' = 1..(Len(queue) + 1)
        /\ queue'[Len(queue) + 1] = n
        /\ \A i \in DOMAIN queue : queue'[i] = queue[i]
        /\ Queued' = Queued \cup {n}
    BY <1>1, <1>5, QueueAppend
  <2>2. /\ 1..emitted' = dropped' \cup Queued' \cup Sending' \cup resolved'
        /\ dropped' \cap (Queued' \cup Sending' \cup resolved') = {}
    BY <1>1, <1>2, <1>3, <1>5, <2>1 DEF PlaceInv
  <2>3. PlaceInv'
    BY <1>1, <1>2, <2>2 DEF PlaceInv, SameSenders
  <2>4. \A i \in DOMAIN queue : queue[i] # Sentinel /\ queue[i] < n
    <3>1. \A i \in DOMAIN queue : queue[i] # Sentinel
      BY <1>5 DEF CloseInv
    <3>2. \A i \in DOMAIN queue : queue[i] \in Queued
      BY <3>1 DEF Queued
    <3> QED
      BY <1>3, <3>1, <3>2
  <2>5. ASSUME NEW i \in DOMAIN queue', NEW j \in DOMAIN queue', i < j, queue'[j] # Sentinel
        PROVE  queue'[i] # Sentinel /\ queue'[i] < queue'[j]
    <3>1. i \in DOMAIN queue /\ queue'[i] = queue[i]
      BY <2>1, <2>5
    <3>2. CASE j = Len(queue) + 1
      BY <2>1, <2>4, <3>1, <3>2
    <3>3. CASE j # Len(queue) + 1
      <4>1. j \in DOMAIN queue /\ queue'[j] = queue[j]
        BY <2>1, <3>3
      <4> QED
        BY <2>5, <3>1, <4>1 DEF OrderInv
    <3> QED
      BY <3>2, <3>3
  <2>6. \A e \in Queued', f \in Sending' \cup resolved' : f < e
    BY <1>1, <1>2, <1>3, <2>1 DEF OrderInv
  <2> QED
    BY <2>3, <2>5, <2>6 DEF OrderInv
<1>6. \/ queue' = queue /\ dropped' = dropped \cup {n}
      \/ closing = "open" /\ queue' = Append(queue, n) /\ dropped' = dropped
  <2>1. queue' # queue \/ queue' # Append(queue, n)
    BY <1>1, QueueAppend
  <2> QED
    BY <2>1 DEF Emit, PutNowait, n
<1> QED
  BY <1>4, <1>5, <1>6

\* A sentinel goes behind everything.
LEMMA SentinelPlaces ==
  ASSUME TypeOK, PlaceInv, OrderInv, PutSentinel
  PROVE  PlaceInv' /\ OrderInv'
<1>1. SameSenders /\ UNCHANGED <<emitted, dropped, resolved>>
  BY DEF PutSentinel, pool, result, SameSenders
<1>2. CASE queue' = queue
  <2>1. Queued' = Queued
    BY <1>2 DEF Queued
  <2> QED
    BY <1>1, <1>2, <2>1, PlacesStay DEF OrderInv
<1>3. CASE queue' = Append(queue, Sentinel)
  <2>1. /\ Len(queue) \in Nat
        /\ DOMAIN queue = 1..Len(queue) /\ DOMAIN queue' = 1..(Len(queue) + 1)
        /\ queue'[Len(queue) + 1] = Sentinel
        /\ \A i \in DOMAIN queue : queue'[i] = queue[i]
        /\ Queued' = Queued
    BY <1>3, QueueAppend
  <2>2. ASSUME NEW i \in DOMAIN queue', NEW j \in DOMAIN queue', i < j, queue'[j] # Sentinel
        PROVE  queue'[i] # Sentinel /\ queue'[i] < queue'[j]
    <3>1. i \in DOMAIN queue /\ j \in DOMAIN queue
      BY <2>1, <2>2
    <3>2. queue'[i] = queue[i] /\ queue'[j] = queue[j]
      BY <2>1, <3>1
    <3> QED
      BY <2>2, <3>1, <3>2 DEF OrderInv
  <2> QED
    BY <1>1, <2>1, <2>2, PlacesStay DEF OrderInv
<1> QED
  BY <1>2, <1>3 DEF PutSentinel, PutNowait

\* queue.get(): the oldest event changes hands, or a sentinel ends the worker.
LEMMA GetPlaces ==
  ASSUME TypeOK, PlaceInv, OrderInv, NEW w \in Workers, GetItem(w)
  PROVE  PlaceInv' /\ OrderInv'
<1> DEFINE h == Head(queue)
<1>1. /\ wpc[w] = "idle" /\ queue # <<>> /\ queue' = Tail(queue)
      /\ UNCHANGED <<emitted, dropped, resolved>>
  BY DEF GetItem, result
<1>2. /\ Len(queue) \in Nat
      /\ DOMAIN queue = 1..Len(queue) /\ DOMAIN queue' = 1..(Len(queue) - 1)
      /\ h \in Events \cup {Sentinel}
      /\ \A i \in DOMAIN queue' : i + 1 \in DOMAIN queue /\ queue'[i] = queue[i + 1]
  BY <1>1, QueueTail
<1>3. ASSUME NEW i \in DOMAIN queue', NEW j \in DOMAIN queue', i < j, queue'[j] # Sentinel
      PROVE  queue'[i] # Sentinel /\ queue'[i] < queue'[j]
  <2>1. /\ i + 1 \in DOMAIN queue /\ queue'[i] = queue[i + 1]
        /\ j + 1 \in DOMAIN queue /\ queue'[j] = queue[j + 1]
    BY <1>2
  <2>2. i + 1 < j + 1
    BY <1>2, <1>3
  <2> QED
    BY <1>3, <2>1, <2>2 DEF OrderInv
<1>4. CASE h # Sentinel
  <2>1. wpc' = [wpc EXCEPT ![w] = "sending"] /\ job' = [job EXCEPT ![w] = h]
    BY <1>4 DEF GetItem
  <2>2. /\ Sending' = Sending \cup {h} /\ wpc'[w] = "sending" /\ job'[w] = h
        /\ \A v \in Workers \ {w} : wpc'[v] = wpc[v] /\ job'[v] = job[v]
    BY <1>1, <2>1, SendingGrows
  <2>3. h \in Queued /\ Queued' = Queued \ {h} /\ \A e \in Queued' : h < e
    BY <1>1, <1>4, TakenOnce
  <2> HIDE DEF h
  <2>4. h \notin Sending \cup resolved
    <3>1. ~(h < h)
      BY <2>3, InRange
    <3> QED
      BY <2>3, <3>1 DEF OrderInv
  <2>5. \A v \in Workers : wpc[v] = "sending" => job[v] # h
    BY <2>4 DEF Sending
  <2>6. /\ 1..emitted' = dropped' \cup Queued' \cup Sending' \cup resolved'
        /\ dropped' \cap (Queued' \cup Sending' \cup resolved') = {}
        /\ Sending' \cap resolved' = {}
    BY <1>1, <2>2, <2>3, <2>4 DEF PlaceInv
  <2>7. \A u, v \in Workers :
          wpc'[u] = "sending" /\ wpc'[v] = "sending" /\ job'[u] = job'[v] => u = v
    BY <2>2, <2>5 DEF PlaceInv
  <2>8. \A v \in Workers : wpc'[v] = "sending" => job'[v] \in Events
    BY <1>2, <1>4, <2>2 DEF PlaceInv
  <2>9. PlaceInv'
    BY <2>6, <2>7, <2>8 DEF PlaceInv
  <2>10. \A e \in Queued', f \in Sending' \cup resolved' : f < e
    BY <1>1, <2>2, <2>3 DEF OrderInv
  <2> QED
    BY <1>3, <2>9, <2>10 DEF OrderInv
<1>5. CASE h = Sentinel
  <2>1. wpc' = [wpc EXCEPT ![w] = "gone"] /\ job' = job
    BY <1>5 DEF GetItem
  <2>2. SameSenders
    BY <1>1, <2>1 DEF SameSenders, TypeOK
  <2>3. Queued' = Queued
    BY <1>1, <1>5, TakenOnce
  <2> QED
    BY <1>1, <1>3, <2>2, <2>3, PlacesStay DEF OrderInv
<1> QED
  BY <1>4, <1>5

\* An attempt that is the last one resolves the event.
LEMMA AttemptPlaces ==
  ASSUME TypeOK, PlaceInv, OrderInv, NEW w \in Workers, NEW arrives, NEW ok,
         Attempt(w, arrives, ok)
  PROVE  PlaceInv' /\ OrderInv'
<1>1. wpc[w] = "sending" /\ UNCHANGED <<emitted, dropped, queue>>
  BY DEF Attempt
<1>2. Queued' = Queued
  BY <1>1 DEF Queued
<1>3. CASE Done(w)
  <2> DEFINE e == job[w]
  <2>1. /\ Sending' = Sending \ {e} /\ e \in Sending /\ wpc'[w] = "idle"
        /\ \A v \in Workers \ {w} : wpc'[v] = wpc[v] /\ job'[v] = job[v]
    BY <1>1, <1>3, SendingShrinks DEF Done
  <2>2. resolved' = resolved \cup {e}
    BY <1>3 DEF Done
  <2> HIDE DEF e
  <2>3. Sending' \cup resolved' = Sending \cup resolved /\ Sending' \cap resolved' = {}
    BY <2>1, <2>2 DEF PlaceInv
  <2>4. PlaceInv'
    BY <1>1, <1>2, <2>1, <2>3 DEF PlaceInv
  <2>5. OrderInv'
    BY <1>1, <1>2, <2>3 DEF OrderInv
  <2> QED
    BY <2>4, <2>5
<1>4. CASE UNCHANGED <<wpc, job, resolved>>
  <2>1. SameSenders
    BY <1>4 DEF SameSenders
  <2> QED
    BY <1>1, <1>2, <1>4, <2>1, PlacesStay DEF OrderInv
<1> QED
  BY <1>3, <1>4 DEF Attempt

LEMMA InitPlaces == Init => PlaceInv /\ OrderInv
<1> SUFFICES ASSUME Init PROVE PlaceInv /\ OrderInv
  OBVIOUS
<1>1. Queued = {} /\ Sending = {} /\ 1..emitted = {}
  BY DEF Init, Queued, Sending
<1> QED
  BY <1>1 DEF Init, PlaceInv, OrderInv

LEMMA NextPlaces ==
  TypeOK /\ PlaceInv /\ OrderInv /\ CloseInv /\ [Next]_vars => PlaceInv' /\ OrderInv'
<1> SUFFICES ASSUME TypeOK, PlaceInv, OrderInv, CloseInv, [Next]_vars
             PROVE  PlaceInv' /\ OrderInv'
  OBVIOUS
<1>1. CASE UNCHANGED <<emitted, dropped, queue, wpc, job, resolved>>
  <2>1. SameSenders /\ Queued' = Queued
    BY <1>1 DEF SameSenders, Queued
  <2> QED
    BY <1>1, <2>1, PlacesStay DEF OrderInv
<1>2. CASE CloseBegins \/ Joined \/ JoinTimeout \/ ProcessExit \/ UNCHANGED vars
  BY <1>1, <1>2 DEF CloseBegins, Joined, JoinTimeout, ProcessExit, vars, pool, result
<1> QED
  BY <1>2, EmitPlaces, SentinelPlaces, GetPlaces, AttemptPlaces DEF Next, WorkerStep

-----------------------------------------------------------------------------
(* close().                                                                *)

\* The numbers of SentinelsFit.
LEMMA CloseNumbers ==
  ASSUME TypeOK
  PROVE  /\ Cardinality(Workers) \in Nat /\ Cardinality(Gone) \in Nat /\ toPut \in Nat
         /\ Len(queue) \in Nat /\ DOMAIN queue = 1..Len(queue)
         /\ Gone = {} => Cardinality(Gone) = 0
  BY PoolSize, FS_EmptySet DEF TypeOK, Gone

\* Without sentinels and before any worker has ended there is room for all of them.
Unclosed ==
  Gone = {} /\ toPut <= Cardinality(Workers) /\ \A i \in DOMAIN queue : queue[i] # Sentinel

LEMMA NoSentinelFits == TypeOK /\ Unclosed => SentinelsFit
<1> SUFFICES ASSUME TypeOK, Unclosed PROVE SentinelsFit
  OBVIOUS
<1> USE DEF Unclosed
<1> DEFINE m == Len(queue)
           c == Cardinality(Workers)
           g == Cardinality(Gone)
<1>1. c \in Nat /\ g = 0 /\ toPut \in Nat /\ m \in Nat /\ DOMAIN queue = 1..m /\ toPut <= c
  BY CloseNumbers
<1>2. \A i \in DOMAIN queue : queue[i] = Sentinel <=> i > m
  BY <1>1
<1>3. (Len(queue) - m) + g + toPut <= c
  <2> HIDE DEF c, g
  <2> QED
    BY <1>1
<1>4. m \in 0..Len(queue)
  BY <1>1
<1> QED
  BY <1>2, <1>3, <1>4 DEF SentinelsFit

\* A step that leaves the queue and the workers that have ended alone.
LEMMA FitStays ==
  ASSUME SentinelsFit, UNCHANGED <<queue, toPut>>, Gone' = Gone
  PROVE  SentinelsFit'
  BY DEF SentinelsFit

LEMMA InitClose == Init => CloseInv
<1> SUFFICES ASSUME Init PROVE CloseInv
  OBVIOUS
<1>1. TypeOK
  BY InitTypes
<1>2. Gone = {} /\ (\A i \in DOMAIN queue : queue[i] # Sentinel)
  BY DEF Init, Gone
<1>3. toPut <= Cardinality(Workers)
  BY PoolSize DEF Init
<1>4. SentinelsFit
  BY <1>1, <1>2, <1>3, NoSentinelFits DEF Unclosed
<1> QED
  BY <1>2, <1>4 DEF Init, CloseInv

\* emit() before close() starts the workers, after it only drops.
LEMMA EmitClose == TypeOK /\ TypeOK' /\ CloseInv /\ Emit => CloseInv'
<1> SUFFICES ASSUME TypeOK, TypeOK', CloseInv, Emit PROVE CloseInv'
  OBVIOUS
<1>0. UNCHANGED <<closing, toPut, timedOut>>
  BY DEF Emit, closer
<1>1. CASE closing = "open"
  <2>1. started' /\ toPut' = 0
    BY <1>0, <1>1 DEF Emit, CloseInv
  <2>2. \A w \in Workers : wpc'[w] # "new" /\ wpc'[w] # "gone"
    BY <1>1 DEF Emit, CloseInv
  <2>3. \A i \in DOMAIN queue' : queue'[i] # Sentinel
    <3>1. \A i \in DOMAIN queue : queue[i] # Sentinel
      BY <1>1 DEF CloseInv
    <3>2. CASE queue' = queue
      BY <3>1, <3>2
    <3>3. CASE queue' = Append(queue, emitted + 1)
      <4>1. emitted + 1 \in Events /\ emitted + 1 # Sentinel
        BY Numbers DEF Emit, TypeOK
      <4>2. /\ Len(queue) \in Nat
            /\ DOMAIN queue = 1..Len(queue) /\ DOMAIN queue' = 1..(Len(queue) + 1)
            /\ queue'[Len(queue) + 1] = emitted + 1
            /\ \A i \in DOMAIN queue : queue'[i] = queue[i]
        BY <3>3, <4>1, QueueAppend
      <4>3. DOMAIN queue' = DOMAIN queue \cup {Len(queue) + 1}
        BY <4>2
      <4> QED
        BY <3>1, <4>1, <4>2, <4>3
    <3> QED
      BY <1>1, <3>2, <3>3 DEF Emit, PutNowait
  <2>4. Gone' = {}
    BY <2>2 DEF Gone
  <2>5. toPut' <= Cardinality(Workers)
    BY <2>1, PoolSize
  <2>6. SentinelsFit'
    <3>1. Unclosed'
      BY <2>3, <2>4, <2>5 DEF Unclosed
    <3> QED
      BY <3>1, NoSentinelFits, PTL
  <2> QED
    BY <1>0, <1>1, <2>1, <2>2, <2>3, <2>4, <2>6 DEF CloseInv
<1>2. CASE closing # "open"
  <2>1. UNCHANGED <<queue, started, wpc>>
    BY <1>2 DEF Emit
  <2>2. SentinelsFit' /\ Gone' = Gone
    BY <1>0, <2>1, FitStays DEF CloseInv, Gone
  <2> QED
    BY <1>0, <2>1, <2>2 DEF CloseInv
<1> QED
  BY <1>1, <1>2

\* close() begins: one sentinel for each worker is to be put.
LEMMA CloseBeginsClose == TypeOK /\ TypeOK' /\ CloseInv /\ CloseBegins => CloseInv'
<1> SUFFICES ASSUME TypeOK, TypeOK', CloseInv, CloseBegins PROVE CloseInv'
  OBVIOUS
<1>1. /\ closing = "open" /\ UNCHANGED <<queue, started, wpc, timedOut>>
      /\ closing' = (IF started THEN "putting" ELSE "returned")
      /\ toPut' = (IF started THEN Cardinality(Workers) ELSE 0)
  BY DEF CloseBegins, pool
<1>2. Gone' = {} /\ \A i \in DOMAIN queue' : queue'[i] # Sentinel
  BY <1>1 DEF CloseInv, Gone
<1>3. toPut' <= Cardinality(Workers)
  BY <1>1, PoolSize
<1>4. Unclosed'
  BY <1>2, <1>3 DEF Unclosed
<1>5. SentinelsFit'
  BY <1>4, NoSentinelFits, PTL
<1>6. closing' # "putting" => toPut' = 0
  BY <1>1
<1> QED
  BY <1>1, <1>2, <1>5, <1>6 DEF CloseInv

\* Each sentinel uses up one of those to be put; when none is left the workers are joined.
LEMMA PutSentinelClose == TypeOK /\ CloseInv /\ PutSentinel => CloseInv'
<1> SUFFICES ASSUME TypeOK, CloseInv, PutSentinel PROVE CloseInv'
  OBVIOUS
<1>1. closing = "putting" /\ UNCHANGED <<started, wpc, timedOut>> /\ started
  BY DEF PutSentinel, pool, CloseInv
<1>2. Gone' = Gone
  BY <1>1 DEF Gone
<1>3. CASE toPut > 0
  <2>1. closing' = closing /\ toPut' = toPut - 1 /\ (queue' = queue \/ queue' = Append(queue, Sentinel))
    BY <1>3 DEF PutSentinel, PutNowait
  <2> DEFINE c == Cardinality(Workers)
             g == Cardinality(Gone)
  <2>2. /\ c \in Nat /\ g \in Nat /\ toPut \in Nat /\ Len(queue) \in Nat
        /\ DOMAIN queue = 1..Len(queue) /\ Cardinality(Gone') = g
    BY <1>2, CloseNumbers
  <2>3. PICK m \in 0..Len(queue) :
          /\ \A i \in DOMAIN queue : queue[i] = Sentinel <=> i > m
          /\ (Len(queue) - m) + g + toPut <= c
    BY DEF CloseInv, SentinelsFit
  <2> HIDE DEF c, g
  <2>4. CASE queue' = queue
    <3>1. (Len(queue) - m) + g + (toPut - 1) <= c
      BY <2>2, <2>3
    <3>2. SentinelsFit'
      BY <2>1, <2>2, <2>3, <2>4, <3>1 DEF SentinelsFit, c
    <3> QED
      BY <1>1, <1>2, <2>1, <2>4, <3>2 DEF CloseInv
  <2>5. CASE queue' = Append(queue, Sentinel)
    <3>1. /\ Len(queue') = Len(queue) + 1 /\ DOMAIN queue' = 1..(Len(queue) + 1)
          /\ queue'[Len(queue) + 1] = Sentinel
          /\ \A i \in DOMAIN queue : queue'[i] = queue[i]
      BY <2>5, QueueAppend
    <3>2. \A i \in DOMAIN queue' : i \in DOMAIN queue \/ i = Len(queue) + 1
      BY <2>2, <3>1
    <3>3. \A i \in DOMAIN queue' : queue'[i] = Sentinel <=> i > m
      <4>1. Len(queue) + 1 > m
        BY <2>2
      <4> QED
        BY <2>3, <3>1, <3>2, <4>1
    <3>4. (Len(queue) + 1 - m) + g + (toPut - 1) <= c /\ m \in 0..(Len(queue) + 1)
      BY <2>2, <2>3
    <3>5. SentinelsFit'
      BY <2>1, <2>2, <3>1, <3>3, <3>4 DEF SentinelsFit, c
    <3>6. Gone # {} => \A i \in DOMAIN queue' : queue'[i] = Sentinel
      BY <3>1, <3>2 DEF CloseInv
    <3> QED
      BY <1>1, <1>2, <2>1, <3>5, <3>6 DEF CloseInv
  <2> QED
    BY <2>1, <2>4, <2>5
<1>4. CASE ~(toPut > 0)
  <2>1. closing' = "joining" /\ UNCHANGED <<queue, toPut>>
    BY <1>4 DEF PutSentinel
  <2>2. toPut = 0
    BY <1>4, CloseNumbers
  <2>3. SentinelsFit'
    BY <1>2, <2>1, FitStays DEF CloseInv
  <2> QED
    BY <1>1, <1>2, <2>1, <2>2, <2>3 DEF CloseInv
<1> QED
  BY <1>3, <1>4

\* The joins return, all of them or too late.
LEMMA JoinClose == CloseInv /\ (Joined \/ JoinTimeout) => CloseInv'
<1> SUFFICES ASSUME CloseInv, Joined \/ JoinTimeout PROVE CloseInv'
  OBVIOUS
<1>1. /\ closing = "joining" /\ closing' = "returned"
      /\ UNCHANGED <<queue, started, wpc, toPut>> /\ Gone' = Gone
      /\ timedOut' \/ \A w \in Workers : wpc[w] = "gone"
  BY DEF Joined, JoinTimeout, pool, Gone
<1>2. SentinelsFit'
  BY <1>1, FitStays DEF CloseInv
<1> QED
  BY <1>1, <1>2 DEF CloseInv

\* queue.get(): the worker that gets a sentinel finds only sentinels behind it.
LEMMA GetClose ==
  ASSUME TypeOK, OrderInv, CloseInv, NEW w \in Workers, GetItem(w)
  PROVE  CloseInv'
<1>1. /\ wpc[w] = "idle" /\ queue # <<>> /\ queue' = Tail(queue)
      /\ UNCHANGED <<started, closing, toPut, timedOut>> /\ started
  BY DEF GetItem, closer, CloseInv
<1>2. /\ Len(queue) \in Nat /\ Len(queue) > 0 /\ Len(queue') = Len(queue) - 1
      /\ DOMAIN queue = 1..Len(queue) /\ DOMAIN queue' = 1..(Len(queue) - 1)
      /\ Head(queue) = queue[1]
      /\ \A i \in DOMAIN queue' : i + 1 \in DOMAIN queue /\ queue'[i] = queue[i + 1]
  BY <1>1, QueueTail
<1>3. (\A i \in DOMAIN queue : queue[i] # Sentinel) => \A i \in DOMAIN queue' : queue'[i] # Sentinel
  BY <1>2
<1>4. (\A i \in DOMAIN queue : queue[i] = Sentinel) => \A i \in DOMAIN queue' : queue'[i] = Sentinel
  BY <1>2
<1>5. closing = "returned" => timedOut
  BY <1>1 DEF CloseInv
<1> DEFINE c == Cardinality(Workers)
           g == Cardinality(Gone)
<1>6. c \in Nat /\ g \in Nat /\ toPut \in Nat /\ IsFiniteSet(Gone)
  BY CloseNumbers, PoolSize DEF Gone
<1>7. PICK m \in 0..Len(queue) :
        /\ \A i \in DOMAIN queue : queue[i] = Sentinel <=> i > m
        /\ (Len(queue) - m) + g + toPut <= c
  BY DEF CloseInv, SentinelsFit
<1>8. CASE Head(queue) # Sentinel
  <2>1. wpc' = [wpc EXCEPT ![w] = "sending"]
    BY <1>8 DEF GetItem
  <2>2. wpc'[w] = "sending" /\ \A v \in Workers \ {w} : wpc'[v] = wpc[v]
    BY <2>1 DEF TypeOK
  <2>3. Gone' = Gone
    BY <1>1, <2>2 DEF Gone
  <2>4. m > 0 /\ m - 1 \in 0..Len(queue')
    BY <1>2, <1>7, <1>8
  <2>5. \A i \in DOMAIN queue' : queue'[i] = Sentinel <=> i > m - 1
    BY <1>2, <1>7
  <2>6. (Len(queue') - (m - 1)) + g + toPut <= c
    <3> HIDE DEF c, g
    <3> QED
      BY <1>2, <1>6, <1>7
  <2>7. SentinelsFit'
    BY <1>1, <2>3, <2>4, <2>5, <2>6 DEF SentinelsFit
  <2> QED
    BY <1>1, <1>3, <1>4, <1>5, <2>2, <2>3, <2>7 DEF CloseInv
<1>9. CASE Head(queue) = Sentinel
  <2>1. wpc' = [wpc EXCEPT ![w] = "gone"]
    BY <1>9 DEF GetItem
  <2>2. wpc'[w] = "gone" /\ \A v \in Workers \ {w} : wpc'[v] = wpc[v]
    BY <2>1 DEF TypeOK
  <2>3. Gone' = Gone \cup {w} /\ w \notin Gone
    BY <1>1, <2>2 DEF Gone
  <2>4. Cardinality(Gone') = g + 1
    BY <1>6, <2>3, FS_AddElement
  <2>5. m = 0
    BY <1>2, <1>7, <1>9
  <2>6. \A i \in DOMAIN queue : queue[i] = Sentinel
    BY <1>2, <1>7, <2>5
  <2>7. \A i \in DOMAIN queue' : queue'[i] = Sentinel
    BY <1>4, <2>6
  <2>8. (Len(queue') - 0) + (g + 1) + toPut <= c
    <3> HIDE DEF c, g
    <3> QED
      BY <1>2, <1>6, <1>7, <2>5
  <2>9. 0 \in 0..Len(queue') /\ \A i \in DOMAIN queue' : queue'[i] = Sentinel <=> i > 0
    BY <1>2, <2>7
  <2>10. SentinelsFit'
    BY <1>1, <2>4, <2>8, <2>9 DEF SentinelsFit
  <2>11. closing # "open"
    BY <1>2, <1>9 DEF CloseInv
  <2>12. \A v \in Workers : wpc'[v] # "new"
    BY <1>1, <2>2 DEF CloseInv
  <2> QED
    BY <1>1, <1>5, <2>7, <2>10, <2>11, <2>12 DEF CloseInv
<1> QED
  BY <1>8, <1>9

\* A worker that sends goes on or comes back for the next item.
LEMMA AttemptClose ==
  ASSUME TypeOK, PlaceInv, CloseInv, NEW w \in Workers, NEW arrives, NEW ok,
         Attempt(w, arrives, ok)
  PROVE  CloseInv'
<1>1. wpc[w] = "sending" /\ UNCHANGED <<queue, started, closing, toPut, timedOut>>
  BY DEF Attempt, closer
<1>2. \A v \in Workers : wpc'[v] = wpc[v] \/ (v = w /\ wpc'[v] = "idle")
  BY DEF Attempt, Done, TypeOK
<1>3. Gone' = Gone
  BY <1>1, <1>2 DEF Gone
<1>4. SentinelsFit'
  BY <1>1, <1>3, FitStays DEF CloseInv
<1>5. started /\ (closing = "returned" => timedOut)
  BY <1>1 DEF CloseInv
<1> QED
  BY <1>1, <1>2, <1>3, <1>4, <1>5 DEF CloseInv

LEMMA NextClose ==
  TypeOK /\ TypeOK' /\ PlaceInv /\ OrderInv /\ CloseInv /\ [Next]_vars => CloseInv'
<1> SUFFICES ASSUME TypeOK, TypeOK', PlaceInv, OrderInv, CloseInv, [Next]_vars
             PROVE  CloseInv'
  OBVIOUS
<1>1. CASE ProcessExit \/ UNCHANGED vars
  <2>1. UNCHANGED <<queue, started, closing, toPut, timedOut, wpc>> /\ Gone' = Gone
    BY <1>1 DEF ProcessExit, pool, closer, vars, Gone
  <2>2. SentinelsFit'
    BY <2>1, FitStays DEF CloseInv
  <2> QED
    BY <2>1, <2>2 DEF CloseInv
<1> QED
  BY <1>1, EmitClose, CloseBeginsClose, PutSentinelClose, JoinClose, GetClose, AttemptClose
     DEF Next, WorkerStep

\* Once all workers have ended there is neither a sentinel nor an event left.
LEMMA ClosedIsClean == TypeOK /\ CloseInv => CleanClose
<1> SUFFICES ASSUME TypeOK, CloseInv, closing = "returned", ~timedOut
             PROVE  /\ queue = <<>> /\ Sending = {}
                    /\ started => \A w \in Workers : wpc[w] = "gone"
  BY DEF CleanClose, ClosedInTime
<1>1. CASE ~started
  BY <1>1 DEF CloseInv, Sending
<1>2. CASE started
  <2>1. \A w \in Workers : wpc[w] = "gone"
    BY <1>2 DEF CloseInv
  <2>2. Gone = Workers /\ Sending = {} /\ Workers # {}
    BY <2>1, SinkAssumption DEF Gone, Sending
  <2> DEFINE c == Cardinality(Workers)
  <2>3. c \in Nat /\ toPut \in Nat /\ Len(queue) \in Nat /\ DOMAIN queue = 1..Len(queue)
    BY CloseNumbers
  <2>4. PICK m \in 0..Len(queue) :
          /\ \A i \in DOMAIN queue : queue[i] = Sentinel <=> i > m
          /\ (Len(queue) - m) + c + toPut <= c
    BY <2>2 DEF CloseInv, SentinelsFit
  <2>5. \A i \in DOMAIN queue : queue[i] = Sentinel
    BY <2>2 DEF CloseInv
  <2>6. m = 0
    <3>1. ASSUME m > 0 PROVE FALSE
      <4>1. 1 \in DOMAIN queue /\ ~(1 > m)
        BY <2>3, <3>1
      <4> QED
        BY <2>4, <2>5, <4>1
    <3> QED
      BY <2>3, <3>1
  <2>7. Len(queue) = 0
    <3> HIDE DEF c
    <3> QED
      BY <2>3, <2>4, <2>6
  <2>8. queue = <<>>
    BY <2>7 DEF TypeOK
  <2> QED
    BY <2>1, <2>2, <2>8
<1> QED
  BY <1>1, <1>2

-----------------------------------------------------------------------------
(* What the endpoint sees.                                                 *)

\* A count is a number, and zero when the endpoint has not seen the event.
LEMMA PostsCount ==
  ASSUME TypeOK, NEW e
  PROVE  /\ Posts(arrived, e) \in Nat /\ IsFiniteSet({i \in DOMAIN arrived : arrived[i].event = e})
         /\ (\A i \in DOMAIN arrived : arrived[i].event # e) => Posts(arrived, e) = 0
<1> DEFINE P == {i \in DOMAIN arrived : arrived[i].event = e}
<1>1. Len(arrived) \in Nat /\ DOMAIN arrived = 1..Len(arrived)
  BY DEF TypeOK
<1>2. IsFiniteSet(1..Len(arrived)) /\ P \subseteq 1..Len(arrived)
  BY <1>1, FS_Interval
<1>3. IsFiniteSet(P)
  BY <1>2, FS_Subset
<1>4. Cardinality(P) \in Nat
  BY <1>3, FS_CardinalityType
<1>5. (\A i \in DOMAIN arrived : arrived[i].event # e) => P = {}
  OBVIOUS
<1> QED
  BY <1>3, <1>4, <1>5, FS_EmptySet DEF Posts

\* One more request counts for its own event only.
LEMMA PostsAppend ==
  ASSUME TypeOK, NEW w \in Workers, NEW e \in Events,
         arrived' = Append(arrived, [by |-> w, event |-> e]), NEW x
  PROVE  Posts(arrived', x) = IF x = e THEN Posts(arrived, x) + 1 ELSE Posts(arrived, x)
<1> DEFINE P == {i \in DOMAIN arrived : arrived[i].event = x}
           Q == {i \in DOMAIN arrived' : arrived'[i].event = x}
           n == Len(arrived) + 1
<1>1. /\ n \notin DOMAIN arrived /\ DOMAIN arrived' = DOMAIN arrived \cup {n}
      /\ arrived'[n].event = e /\ \A i \in DOMAIN arrived : arrived'[i] = arrived[i]
  BY OneMoreArrival
<1> HIDE DEF n
<1>2. Q = IF x = e THEN P \cup {n} ELSE P
  BY <1>1
<1>3. IsFiniteSet(P) /\ n \notin P
  BY <1>1, PostsCount
<1> HIDE DEF P, Q
<1>4. Cardinality(Q) = IF x = e THEN Cardinality(P) + 1 ELSE Cardinality(P)
  BY <1>2, <1>3, FS_AddElement
<1> QED
  BY <1>4 DEF Posts, P, Q

\* A step without a request and without a change of hands.
LEMMA ArrivalsStay ==
  ASSUME ArrivalInv, RetriesInPlace, SameSenders, UNCHANGED <<arrived, resolved, attempt>>
  PROVE  ArrivalInv' /\ RetriesInPlace'
<1>1. Sending' = Sending
  BY SendersStay
<1>2. \A e : Posts(arrived', e) = Posts(arrived, e)
  BY DEF Posts
<1>3. ArrivalInv'
  BY <1>1, <1>2 DEF ArrivalInv, SameSenders
<1>4. RetriesInPlace'
  BY DEF RetriesInPlace
<1> QED
  BY <1>3, <1>4

\* The event a worker takes is later than everything the endpoint has seen.
LEMMA GetArrivals ==
  ASSUME TypeOK, PlaceInv, OrderInv, ArrivalInv, RetriesInPlace, NEW w \in Workers, GetItem(w)
  PROVE  ArrivalInv' /\ RetriesInPlace'
<1> DEFINE h == Head(queue)
<1>1. /\ wpc[w] = "idle" /\ queue # <<>> /\ queue' = Tail(queue)
      /\ UNCHANGED <<arrived, resolved>>
  BY DEF GetItem, result
<1>2. CASE h # Sentinel
  <2>1. /\ wpc' = [wpc EXCEPT ![w] = "sending"] /\ job' = [job EXCEPT ![w] = h]
        /\ attempt' = [attempt EXCEPT ![w] = 1]
    BY <1>2 DEF GetItem
  <2>2. /\ Sending' = Sending \cup {h} /\ wpc'[w] = "sending" /\ job'[w] = h
        /\ \A v \in Workers \ {w} : wpc'[v] = wpc[v] /\ job'[v] = job[v]
    BY <1>1, <2>1, SendingGrows
  <2>3. attempt'[w] = 1 /\ \A v \in Workers \ {w} : attempt'[v] = attempt[v]
    BY <2>1 DEF TypeOK
  <2>4. h \in Queued
    BY <1>1, <1>2, TakenOnce
  <2> HIDE DEF h
  <2>5. \A i \in DOMAIN arrived : arrived[i].event < h
    BY <2>4 DEF ArrivalInv, OrderInv
  <2>6. h \in Nat /\ \A i \in DOMAIN arrived : arrived[i].event \in Nat
    BY <2>4, InRange DEF ArrivalInv
  <2>7. \A i \in DOMAIN arrived : arrived[i].event # h /\ arrived[i].event <= h
    BY <2>5, <2>6
  <2>8. Posts(arrived, h) = 0
    BY <2>7, PostsCount
  <2>9. \A e : Posts(arrived', e) = Posts(arrived, e)
    BY <1>1 DEF Posts
  <2>10. \A v \in Workers : wpc'[v] = "sending" => Posts(arrived', job'[v]) < attempt'[v]
    <3> SUFFICES ASSUME NEW v \in Workers, wpc'[v] = "sending"
                 PROVE  Posts(arrived', job'[v]) < attempt'[v]
      OBVIOUS
    <3>1. CASE v = w
      <4>1. Posts(arrived', job'[v]) = 0 /\ attempt'[v] = 1
        BY <2>2, <2>3, <2>8, <2>9, <3>1
      <4> QED
        BY <4>1
    <3>2. CASE v # w
      <4>1. Posts(arrived', job'[v]) = Posts(arrived, job[v])
        BY <2>2, <2>9, <3>2
      <4> QED
        BY <2>2, <2>3, <3>2, <4>1 DEF ArrivalInv
    <3> QED
      BY <3>1, <3>2
  <2>11. \A v \in Workers, i \in DOMAIN arrived' :
           wpc'[v] = "sending" /\ arrived'[i].by = v => arrived'[i].event <= job'[v]
    BY <1>1, <2>2, <2>7 DEF ArrivalInv
  <2>12. ArrivalInv'
    BY <1>1, <2>2, <2>10, <2>11 DEF ArrivalInv
  <2>13. RetriesInPlace'
    BY <1>1 DEF RetriesInPlace
  <2> QED
    BY <2>12, <2>13
<1>3. CASE h = Sentinel
  <2>1. wpc' = [wpc EXCEPT ![w] = "gone"] /\ UNCHANGED <<job, attempt>>
    BY <1>3 DEF GetItem
  <2>2. SameSenders
    BY <1>1, <2>1 DEF SameSenders, TypeOK
  <2> QED
    BY <1>1, <2>1, <2>2, ArrivalsStay
<1> QED
  BY <1>2, <1>3

\* One attempt posts at most once, behind what the same worker posted before.
LEMMA AttemptArrivals ==
  ASSUME TypeOK, PlaceInv, OrderInv, ArrivalInv, RetriesInPlace, NEW w \in Workers,
         NEW arrives \in BOOLEAN, NEW ok \in BOOLEAN, Attempt(w, arrives, ok)
  PROVE  ArrivalInv' /\ RetriesInPlace'
<1> DEFINE e == job[w]
<1>1. wpc[w] = "sending" /\ e \in Events /\ e \in Sending
  BY DEF Attempt, PlaceInv, Sending
<1>2. e \in Nat /\ \A f \in Sending \cup resolved : f \in Nat
  BY <1>1, InRange
\* The log.
<1>3. \/ UNCHANGED arrived
      \/ arrived' = Append(arrived, [by |-> w, event |-> e])
  BY DEF Attempt
<1>4. \A x : /\ Posts(arrived, x) \in Nat /\ Posts(arrived', x) \in Nat
             /\ x # e => Posts(arrived', x) = Posts(arrived, x)
             /\ Posts(arrived', x) <= Posts(arrived, x) + 1
  <2>1. \A x : Posts(arrived, x) \in Nat
    BY PostsCount
  <2>2. CASE UNCHANGED arrived
    BY <2>1, <2>2
  <2>3. CASE arrived' = Append(arrived, [by |-> w, event |-> e])
    <3>1. \A x : Posts(arrived', x) = IF x = e THEN Posts(arrived, x) + 1 ELSE Posts(arrived, x)
      BY <1>1, <2>3, PostsAppend
    <3> QED
      BY <2>1, <3>1
  <2> QED
    BY <1>3, <2>2, <2>3
<1>5. \A i \in DOMAIN arrived' :
        \/ i \in DOMAIN arrived /\ arrived'[i] = arrived[i]
        \/ /\ arrived'[i].by = w /\ arrived'[i].event = e
           /\ \A j \in DOMAIN arrived' : j <= i /\ (j < i => j \in DOMAIN arrived)
  <2>1. CASE UNCHANGED arrived
    BY <2>1
  <2>2. CASE arrived' = Append(arrived, [by |-> w, event |-> e])
    <3>1. /\ Len(arrived) \in Nat /\ DOMAIN arrived = 1..Len(arrived)
          /\ DOMAIN arrived' = 1..(Len(arrived) + 1)
          /\ arrived'[Len(arrived) + 1].by = w /\ arrived'[Len(arrived) + 1].event = e
          /\ \A i \in DOMAIN arrived : arrived'[i] = arrived[i]
      BY <1>1, <2>2, OneMoreArrival
    <3> QED
      BY <3>1
  <2> QED
    BY <1>3, <2>1, <2>2
\* The order of one worker's requests, and how often one event arrives.
<1>6. ASSUME NEW i \in DOMAIN arrived', NEW j \in DOMAIN arrived', i < j,
             arrived'[i].by = arrived'[j].by
      PROVE  arrived'[i].event <= arrived'[j].event
  <2>0. i \in Nat /\ j \in Nat
    <3>1. arrived \in Seq([by : Workers, event : Events])
      BY DEF TypeOK
    <3>2. DOMAIN arrived = 1..Len(arrived) /\ Len(arrived) \in Nat
      BY <3>1
    <3>3. DOMAIN arrived' = DOMAIN arrived \/ DOMAIN arrived' = 1..(Len(arrived) + 1)
      BY <1>1, <1>3, OneMoreArrival
    <3> QED
      BY <3>2, <3>3
  <2>1. i \in DOMAIN arrived /\ arrived'[i] = arrived[i]
    BY <1>5, <1>6, <2>0
  <2>2. CASE j \in DOMAIN arrived /\ arrived'[j] = arrived[j]
    BY <1>6, <2>1, <2>2 DEF RetriesInPlace
  <2>3. CASE arrived'[j].by = w /\ arrived'[j].event = e
    BY <1>1, <1>6, <2>1, <2>3 DEF ArrivalInv
  <2> QED
    BY <1>5, <2>2, <2>3
<1>7. /\ attempt[w] \in Nat /\ attempt[w] <= MaxRetries
      /\ Posts(arrived, e) < attempt[w] /\ MaxRetries \in Nat
  BY <1>1, Numbers DEF TypeOK, ArrivalInv
<1>8. \A x \in Events : Posts(arrived', x) <= MaxRetries
  <2> SUFFICES ASSUME NEW x \in Events PROVE Posts(arrived', x) <= MaxRetries
    OBVIOUS
  <2>1. CASE x = e
    <3> HIDE DEF e
    <3>1. Posts(arrived', e) <= Posts(arrived, e) + 1 /\ Posts(arrived', e) \in Nat
          /\ Posts(arrived, e) \in Nat
      BY <1>4
    <3> QED
      BY <1>7, <2>1, <3>1
  <2>2. CASE x # e
    <3>1. Posts(arrived', x) = Posts(arrived, x)
      BY <1>4, <2>2
    <3>2. Posts(arrived, x) <= MaxRetries
      BY DEF RetriesInPlace, Posts
    <3> QED
      BY <3>1, <3>2
  <2> QED
    BY <2>1, <2>2
<1>9. RetriesInPlace'
  BY <1>6, <1>8 DEF RetriesInPlace, Posts
\* The worker goes on with the next attempt, or is done.
<1>10. CASE Done(w)
  <2>1. /\ Sending' = Sending \ {e} /\ wpc'[w] = "idle"
        /\ \A v \in Workers \ {w} : wpc'[v] = wpc[v] /\ job'[v] = job[v]
    BY <1>1, <1>10, SendingShrinks DEF Done
  <2>2. resolved' = resolved \cup {e} /\ \A v \in Workers \ {w} : attempt'[v] = attempt[v]
    BY <1>10 DEF Done, TypeOK
  <2>3. Sending' \cup resolved' = Sending \cup resolved
    BY <1>1, <2>1, <2>2
  <2>4. \A i \in DOMAIN arrived' : arrived'[i].event \in Sending' \cup resolved'
    BY <1>1, <1>5, <2>3 DEF ArrivalInv
  <2>5. \A v \in Workers : wpc'[v] = "sending" => v # w /\ job[v] # e /\ wpc[v] = "sending"
    BY <1>1, <2>1 DEF PlaceInv
  <2>6. \A v \in Workers, i \in DOMAIN arrived' :
          wpc'[v] = "sending" /\ arrived'[i].by = v => arrived'[i].event <= job'[v]
    BY <1>5, <2>1, <2>5 DEF ArrivalInv
  <2>7. \A v \in Workers : wpc'[v] = "sending" => Posts(arrived', job'[v]) < attempt'[v]
    BY <1>4, <2>1, <2>2, <2>5 DEF ArrivalInv
  <2> QED
    BY <1>9, <2>4, <2>6, <2>7 DEF ArrivalInv
<1>11. CASE attempt' = [attempt EXCEPT ![w] = @ + 1] /\ UNCHANGED <<wpc, job, resolved>>
  <2>1. attempt'[w] = attempt[w] + 1 /\ \A v \in Workers \ {w} : attempt'[v] = attempt[v]
    BY <1>11 DEF TypeOK
  <2>2. Sending' = Sending
    BY <1>11 DEF Sending
  <2>3. \A i \in DOMAIN arrived' : arrived'[i].event \in Sending' \cup resolved'
    BY <1>1, <1>5, <1>11, <2>2 DEF ArrivalInv
  <2>4. \A v \in Workers, i \in DOMAIN arrived' :
          wpc'[v] = "sending" /\ arrived'[i].by = v => arrived'[i].event <= job'[v]
    BY <1>2, <1>5, <1>11 DEF ArrivalInv
  <2>5. ASSUME NEW v \in Workers, wpc'[v] = "sending"
        PROVE  Posts(arrived', job'[v]) < attempt'[v]
    <3>1. CASE v = w
      <4>1. Posts(arrived', e) <= Posts(arrived, e) + 1 /\ Posts(arrived', e) \in Nat
            /\ Posts(arrived, e) \in Nat /\ job'[v] = e
        BY <1>4, <1>11, <3>1
      <4> HIDE DEF e
      <4>2. Posts(arrived', e) < attempt[w] + 1
        BY <1>7, <4>1
      <4> QED
        BY <2>1, <3>1, <4>1, <4>2
    <3>2. CASE v # w
      <4>1. wpc[v] = "sending" /\ job'[v] = job[v] /\ job[v] # e
        BY <1>1, <1>11, <2>5, <3>2 DEF PlaceInv
      <4> QED
        BY <1>4, <2>1, <3>2, <4>1 DEF ArrivalInv
    <3> QED
      BY <3>1, <3>2
  <2> QED
    BY <1>9, <2>3, <2>4, <2>5 DEF ArrivalInv
<1> QED
  BY <1>10, <1>11 DEF Attempt

LEMMA InitArrivals == Init => ArrivalInv /\ RetriesInPlace
<1> SUFFICES ASSUME Init PROVE ArrivalInv /\ RetriesInPlace
  OBVIOUS
<1>1. TypeOK
  BY InitTypes
<1>2. DOMAIN arrived = {} /\ \A w \in Workers : wpc[w] # "sending"
  BY DEF Init
<1>3. \A e : Posts(arrived, e) = 0
  BY <1>1, <1>2, PostsCount
<1>4. \A e \in Events : Posts(arrived, e) <= MaxRetries
  BY <1>3, Numbers
<1> QED
  BY <1>2, <1>4 DEF ArrivalInv, RetriesInPlace, Posts

LEMMA NextArrivals ==
  TypeOK /\ PlaceInv /\ OrderInv /\ CloseInv /\ ArrivalInv /\ RetriesInPlace /\ [Next]_vars
    => ArrivalInv' /\ RetriesInPlace'
<1> SUFFICES ASSUME TypeOK, PlaceInv, OrderInv, CloseInv, ArrivalInv, RetriesInPlace,
                    [Next]_vars
             PROVE  ArrivalInv' /\ RetriesInPlace'
  OBVIOUS
<1>1. CASE Emit
  BY <1>1, EmitSenders, ArrivalsStay DEF Emit, result
<1>2. CASE CloseBegins \/ PutSentinel \/ Joined \/ JoinTimeout \/ ProcessExit \/ UNCHANGED vars
  <2>1. UNCHANGED <<wpc, job, attempt, arrived, resolved>>
    BY <1>2 DEF CloseBegins, PutSentinel, Joined, JoinTimeout, ProcessExit, vars, pool, result
  <2>2. SameSenders
    BY <2>1 DEF SameSenders
  <2> QED
    BY <2>1, <2>2, ArrivalsStay
<1> QED
  BY <1>1, <1>2, GetArrivals, AttemptArrivals DEF Next, WorkerStep

-----------------------------------------------------------------------------
(* Counting the places.                                                    *)

\* Two sets without a common member have as many members as both together.
LEMMA DisjointUnion ==
  ASSUME NEW S, NEW T, IsFiniteSet(S), IsFiniteSet(T), S \cap T = {}
  PROVE  /\ IsFiniteSet(S \cup T)
         /\ Cardinality(S) \in Nat /\ Cardinality(T) \in Nat
         /\ Cardinality(S \cup T) = Cardinality(S) + Cardinality(T)
<1>1. Cardinality(S) \in Nat /\ Cardinality(T) \in Nat /\ Cardinality(S \cap T) = 0
  BY FS_CardinalityType, FS_EmptySet
<1>2. /\ IsFiniteSet(S \cup T)
      /\ Cardinality(S \cup T) = Cardinality(S) + Cardinality(T) - Cardinality(S \cap T)
  BY FS_Union
<1> QED
  BY <1>1, <1>2

\* As many events are being sent as workers send.
LEMMA OneEventEach ==
  ASSUME PlaceInv
  PROVE  Cardinality(Sending) = Cardinality({w \in Workers : wpc[w] = "sending"})
<1> DEFINE B == {w \in Workers : wpc[w] = "sending"}
           f == [w \in B |-> job[w]]
<1>1. IsFiniteSet(B)
  BY PoolSize
<1>2. Sending = {job[w] : w \in B}
  BY DEF Sending
<1>3. f \in [B -> Sending]
  BY <1>2
<1>4. \A x, y \in B : f[x] = f[y] => x = y
  BY DEF PlaceInv
<1>5. \A e \in Sending : \E x \in B : f[x] = e
  BY <1>2
<1> HIDE DEF f, B
<1>6. f \in Bijection(B, Sending)
  BY <1>3, <1>4, <1>5 DEF Bijection, Injection, Surjection, IsInjective
<1>7. ExistsBijection(B, Sending)
  BY <1>6 DEF ExistsBijection
<1>8. Cardinality(Sending) = Cardinality(B)
  BY <1>1, <1>7, FS_Bijection
<1> QED
  BY <1>8 DEF B

\* Places that do not overlap and cover what was emitted hold each event once.
LEMMA PlacesCount == TypeOK /\ PlaceInv /\ OrderInv => EachEventOnce
<1> SUFFICES ASSUME TypeOK, PlaceInv, OrderInv PROVE EachEventOnce
  OBVIOUS
<1>1. emitted \in Nat /\ IsFiniteSet(1..emitted) /\ Cardinality(1..emitted) = emitted
  BY InRange, FS_Interval
<1>2. IsFiniteSet(dropped) /\ IsFiniteSet(Queued) /\ IsFiniteSet(Sending) /\ IsFiniteSet(resolved)
  BY <1>1, FS_Subset DEF PlaceInv
<1>3. Queued \cap (Sending \cup resolved) = {}
  <2>1. \A e \in Queued : ~(e < e)
    BY InRange
  <2> QED
    BY <2>1 DEF OrderInv
<1> DEFINE A == Sending \cup resolved
           B == Queued \cup A
<1>4. /\ IsFiniteSet(A) /\ Cardinality(A) = Cardinality(Sending) + Cardinality(resolved)
      /\ Cardinality(Sending) \in Nat /\ Cardinality(resolved) \in Nat
  BY <1>2, DisjointUnion DEF PlaceInv
<1>5. /\ IsFiniteSet(B) /\ Cardinality(B) = Cardinality(Queued) + Cardinality(A)
      /\ Cardinality(Queued) \in Nat
  <2> HIDE DEF A
  <2> QED
    BY <1>2, <1>3, <1>4, DisjointUnion DEF A
<1>6. dropped \cap B = {} /\ dropped \cup B = 1..emitted
  BY DEF PlaceInv
<1>7. Cardinality(dropped \cup B) = Cardinality(dropped) + Cardinality(B) /\ Cardinality(dropped) \in Nat
  <2> HIDE DEF B
  <2> QED
    BY <1>2, <1>5, <1>6, DisjointUnion
<1> HIDE DEF A, B
<1>8. Cardinality(dropped) + Cardinality(Queued) + Cardinality(Sending) + Cardinality(resolved)
        = emitted
  <2>1. Cardinality(dropped \cup B) = emitted
    BY <1>1, <1>6, Zenon
  <2>2. Cardinality(dropped) + Cardinality(B) = emitted
    BY <1>7, <2>1
  <2>3. \A d, q, a, c \in Nat : d + (q + (a + c)) = d + q + a + c
    OBVIOUS
  <2> QED
    BY <1>4, <1>5, <1>7, <2>2, <2>3
<1> QED
  BY <1>8, OneEventEach DEF EachEventOnce, PlaceInv

-----------------------------------------------------------------------------
\* The inductive invariant holds in every reachable state.
LEMMA AlwaysSinkInv == Spec => []SinkInv
<1>1. Init => SinkInv
  BY InitTypes, InitPlaces, InitArrivals, InitClose DEF SinkInv
<1>2. SinkInv /\ [Next]_vars => SinkInv'
  BY NextTypes, NextPlaces, NextArrivals, NextClose DEF SinkInv
<1> QED
  BY <1>1, <1>2, PTL DEF Spec

\* Every reachable state of the sink is well typed; the queue stays within max_queue_size.
THEOREM SinkTyped == Spec => []TypeOK
<1>1. SinkInv => TypeOK
  BY DEF SinkInv
<1> QED
  BY <1>1, AlwaysSinkInv, PTL

\* However many workers there are and however full the queue is, no event is lost between
\* put_nowait, queue.get and the delivery, and no two workers send the same one.
THEOREM EventsInOnePlace == Spec => []EachEventOnce
<1>1. SinkInv => EachEventOnce
  BY PlacesCount DEF SinkInv
<1> QED
  BY <1>1, AlwaysSinkInv, PTL

\* A close() whose joins all return in time leaves no event, no sentinel and no worker:
\* a worker only ends behind the last event, and there are not more sentinels than workers.
THEOREM CloseLeavesNothing == Spec => []CleanClose
<1>1. SinkInv => CleanClose
  BY ClosedIsClean DEF SinkInv
<1> QED
  BY <1>1, AlwaysSinkInv, PTL

\* Whatever answers are lost, the endpoint sees an event at most max_retries times, and
\* the events of one worker in the order of emit().
THEOREM RetriesKeepOrder == Spec => []RetriesInPlace
<1>1. SinkInv => RetriesInPlace
  BY DEF SinkInv
<1> QED
  BY <1>1, AlwaysSinkInv, PTL
=============================================================================
