---------------------------- MODULE WebhookSink ----------------------------
(***************************************************************************)
(* WebhookEventSink of agent_os/webhooks.py: the event loop emits lifecycle *)
(* events into a bounded queue, a pool of worker threads posts them with    *)
(* bounded retries, close() queues one sentinel per worker and joins them  *)
(* for a limited time.                                                     *)
(*                                                                         *)
(* emit() and close() are called on the event loop only and so exclude      *)
(* each other; the workers run in threads of their own.  The endpoint and   *)
(* the network are external: a request may arrive although its answer does *)
(* not.  Events are numbered in the order in which they are emitted.       *)
(*                                                                         *)
(* The workers are daemon threads: when the process exits, after close()    *)
(* in the shutdown of the server or without it, they end where they are     *)
(* and what is queued is lost.                                             *)
(***************************************************************************)
EXTENDS Naturals, Sequences, FiniteSets

CONSTANTS Workers,    \* num_workers threads
          QueueSize,  \* max_queue_size
          MaxRetries, \* max_retries: attempts for one event
          MaxEvents   \* bound: events emitted

ASSUME SinkAssumption ==
  /\ IsFiniteSet(Workers) /\ Workers # {}
  /\ QueueSize \in Nat \ {0}
  /\ MaxRetries \in Nat \ {0}
  /\ MaxEvents \in Nat

Events == 1..MaxEvents

\* _SHUTDOWN_SENTINEL; also `no event' for a worker.
Sentinel == 0

VARIABLES emitted,  \* calls of emit() so far
          dropped,  \* events emit() dropped: queue full, or sink closed
          queue,
          started,  \* the workers have been started
          wpc,      \* each worker: new, idle (in queue.get), sending, gone
          job,      \* the event it sends
          attempt,  \* the attempt it is at
          closing,  \* close(): open, putting, joining, returned
          toPut,    \* sentinels close() has yet to put
          timedOut, \* a join() of close() has timed out
          exited,   \* the process has ended
          arrived,  \* requests the endpoint has seen, in order, and who sent them
          resolved  \* events delivered or given up

vars == <<emitted, dropped, queue, started, wpc, job, attempt, closing, toPut, timedOut,
          exited, arrived, resolved>>
pool   == <<wpc, job, attempt>>
closer == <<closing, toPut, timedOut>>
result == <<arrived, resolved>>

TypeOK ==
  /\ emitted \in 0..MaxEvents
  /\ dropped \in SUBSET Events
  /\ queue \in Seq(Events \cup {Sentinel}) /\ Len(queue) <= QueueSize
  /\ started \in BOOLEAN
  /\ wpc \in [Workers -> {"new", "idle", "sending", "gone"}]
  /\ job \in [Workers -> Events \cup {Sentinel}]
  /\ attempt \in [Workers -> 1..MaxRetries]
  /\ closing \in {"open", "putting", "joining", "returned"}
  /\ toPut \in 0..Cardinality(Workers)
  /\ timedOut \in BOOLEAN
  /\ exited \in BOOLEAN
  /\ arrived \in Seq([by : Workers, event : Events])
  /\ resolved \in SUBSET Events

Init ==
  /\ emitted = 0
  /\ dropped = {}
  /\ queue = <<>>
  /\ started = FALSE
  /\ wpc = [w \in Workers |-> "new"]
  /\ job = [w \in Workers |-> Sentinel]
  /\ attempt = [w \in Workers |-> 1]
  /\ closing = "open"
  /\ toPut = 0
  /\ timedOut = FALSE
  /\ exited = FALSE
  /\ arrived = <<>>
  /\ resolved = {}

\* The loop and the workers only act while the process lives.
Alive == ~exited /\ UNCHANGED exited

-----------------------------------------------------------------------------
(* The event loop.                                                         *)

\* put_nowait: a full queue raises, and the caller passes over it.
PutNowait(x) == queue' = IF Len(queue) < QueueSize THEN Append(queue, x) ELSE queue

\* emit(): drop when closed or full, start the workers on first use.
Emit ==
  /\ Alive
  /\ closing \in {"open", "returned"}
  /\ emitted < MaxEvents
  /\ emitted' = emitted + 1
  /\ IF closing = "open"
     THEN /\ PutNowait(emitted + 1)
          /\ dropped' = IF queue' = queue THEN dropped \cup {emitted + 1} ELSE dropped
          /\ started' = TRUE
          /\ wpc' = IF started THEN wpc ELSE [w \in Workers |-> "idle"]
     ELSE /\ dropped' = dropped \cup {emitted + 1}
          /\ UNCHANGED <<queue, started, wpc>>
  /\ UNCHANGED <<job, attempt, closer, result>>

\* close() with no worker started returns at once.
CloseBegins ==
  /\ Alive
  /\ closing = "open"
  /\ closing' = IF started THEN "putting" ELSE "returned"
  /\ toPut' = IF started THEN Cardinality(Workers) ELSE 0
  /\ UNCHANGED <<emitted, dropped, queue, started, pool, timedOut, result>>

\* One sentinel for each worker, lost if the queue is full at that moment.
PutSentinel ==
  /\ Alive
  /\ closing = "putting"
  /\ IF toPut > 0
     THEN PutNowait(Sentinel) /\ toPut' = toPut - 1 /\ UNCHANGED closing
     ELSE closing' = "joining" /\ UNCHANGED <<queue, toPut>>
  /\ UNCHANGED <<emitted, dropped, started, pool, timedOut, result>>

\* Mutant: only one of the workers is joined.
JoinedOne ==
  /\ Alive
  /\ closing = "joining"
  /\ \E w \in Workers : wpc[w] = "gone"
  /\ closing' = "returned"
  /\ UNCHANGED <<emitted, dropped, queue, started, pool, toPut, timedOut, result>>

\* join() of every worker has returned ...
Joined ==
  /\ Alive
  /\ closing = "joining"
  /\ \A w \in Workers : wpc[w] = "gone"
  /\ closing' = "returned"
  /\ UNCHANGED <<emitted, dropped, queue, started, pool, toPut, timedOut, result>>

\* ... or the deadline has passed.
JoinTimeout ==
  /\ Alive
  /\ closing = "joining"
  /\ \E w \in Workers : wpc[w] # "gone"
  /\ closing' = "returned"
  /\ timedOut' = TRUE
  /\ UNCHANGED <<emitted, dropped, queue, started, pool, toPut, result>>

\* The process ends: the lifespan has closed the sinks, a command is done, or it is
\* killed.  Nobody waits for the daemon threads.
ProcessExit ==
  /\ ~exited
  /\ exited' = TRUE
  /\ UNCHANGED <<emitted, dropped, queue, started, pool, closer, result>>

-----------------------------------------------------------------------------
(* A worker.                                                               *)

\* Mutant: the item is looked at and taken off the queue only after delivery.
PeekItem(w) ==
  /\ Alive
  /\ wpc[w] = "idle"
  /\ queue # <<>>
  /\ IF Head(queue) = Sentinel
     THEN /\ wpc' = [wpc EXCEPT ![w] = "gone"]
          /\ queue' = Tail(queue)
          /\ UNCHANGED <<job, attempt>>
     ELSE /\ wpc' = [wpc EXCEPT ![w] = "sending"]
          /\ job' = [job EXCEPT ![w] = Head(queue)]
          /\ attempt' = [attempt EXCEPT ![w] = 1]
          /\ UNCHANGED queue
  /\ UNCHANGED <<emitted, dropped, started, closer, result>>

\* queue.get(): a sentinel ends the thread.
GetItem(w) ==
  /\ Alive
  /\ wpc[w] = "idle"
  /\ queue # <<>>
  /\ IF Head(queue) = Sentinel
     THEN wpc' = [wpc EXCEPT ![w] = "gone"] /\ UNCHANGED <<job, attempt>>
     ELSE /\ wpc' = [wpc EXCEPT ![w] = "sending"]
          /\ job' = [job EXCEPT ![w] = Head(queue)]
          /\ attempt' = [attempt EXCEPT ![w] = 1]
  /\ queue' = Tail(queue)
  /\ UNCHANGED <<emitted, dropped, started, closer, result>>

Done(w) ==
  /\ wpc' = [wpc EXCEPT ![w] = "idle"]
  /\ job' = [job EXCEPT ![w] = Sentinel]
  /\ attempt' = [attempt EXCEPT ![w] = 1]
  /\ resolved' = resolved \cup {job[w]}

\* Mutant: one retry more than max_retries attempts.
AttemptOnceMore(w, arrives, ok) ==
  /\ Alive
  /\ wpc[w] = "sending"
  /\ ok => arrives
  /\ arrived' = IF arrives THEN Append(arrived, [by |-> w, event |-> job[w]]) ELSE arrived
  /\ IF ok \/ (attempt[w] = MaxRetries /\ ~arrives)
     THEN Done(w)
     ELSE /\ attempt' = [attempt EXCEPT ![w] = IF @ < MaxRetries THEN @ + 1 ELSE @]
          /\ UNCHANGED <<wpc, job, resolved>>
  /\ UNCHANGED <<emitted, dropped, queue, started, closer>>

\* Mutant: an exception inside the delivery ends the thread.
AttemptKillsWorker(w, arrives, ok) ==
  /\ Alive
  /\ wpc[w] = "sending"
  /\ ok => arrives
  /\ arrived' = IF arrives THEN Append(arrived, [by |-> w, event |-> job[w]]) ELSE arrived
  /\ IF ok THEN Done(w)
     ELSE wpc' = [wpc EXCEPT ![w] = "gone"] /\ UNCHANGED <<job, attempt, resolved>>
  /\ UNCHANGED <<emitted, dropped, queue, started, closer>>

\* One request of _send_with_retry.  Whatever goes wrong counts as a failed
\* attempt; a target that is not safe does not get the request.
Attempt(w, arrives, ok) ==
  /\ Alive
  /\ wpc[w] = "sending"
  /\ ok => arrives
  /\ arrived' = IF arrives THEN Append(arrived, [by |-> w, event |-> job[w]]) ELSE arrived
  /\ IF ok \/ attempt[w] = MaxRetries
     THEN Done(w)
     ELSE /\ attempt' = [attempt EXCEPT ![w] = @ + 1]
          /\ UNCHANGED <<wpc, job, resolved>>
  /\ UNCHANGED <<emitted, dropped, queue, started, closer>>

WorkerStep(w) == GetItem(w) \/ \E arrives, ok \in BOOLEAN : Attempt(w, arrives, ok)

-----------------------------------------------------------------------------
Next ==
  \/ Emit
  \/ CloseBegins
  \/ PutSentinel
  \/ Joined
  \/ JoinTimeout
  \/ ProcessExit
  \/ \E w \in Workers : WorkerStep(w)

Spec == Init /\ [][Next]_vars

\* While the process lives its threads are scheduled, requests have a timeout, and
\* close() goes on once called.  Nothing is assumed of the moment at which it exits.
Fairness ==
  /\ \A w \in Workers : WF_vars(WorkerStep(w))
  /\ WF_vars(PutSentinel)
  /\ WF_vars(Joined \/ JoinTimeout)

FairSpec == Spec /\ Fairness

-----------------------------------------------------------------------------
(* Properties.                                                             *)

Queued  == {queue[i] : i \in DOMAIN queue} \ {Sentinel}
Sending == {job[w] : w \in {v \in Workers : wpc[v] = "sending"}}

\* Every event is in one place: dropped, queued, in the hands of one worker, or
\* resolved.  No two workers send the same event and none is forgotten, neither
\* under saturation nor while sentinels end the pool.
EachEventOnce ==
  /\ 1..emitted = dropped \cup Queued \cup Sending \cup resolved
  /\ Cardinality(dropped) + Cardinality(Queued) + Cardinality(Sending)
       + Cardinality(resolved) = emitted
  /\ Cardinality(Sending) = Cardinality({w \in Workers : wpc[w] = "sending"})

\* The close() that the shutdown waits for came back before its deadline.
ClosedInTime == closing = "returned" /\ ~timedOut

\* When close() returns before its deadline, everything that was accepted is
\* resolved and no worker is left.
CleanClose ==
  ClosedInTime =>
    /\ queue = <<>> /\ Sending = {}
    /\ started => \A w \in Workers : wpc[w] = "gone"

\* However answers are lost and sends repeated, the endpoint sees an event at most max_retries
\* times, and what one worker posts arrives in the order it was emitted, retries included;
\* with the default of one worker that is the order the endpoint sees.
RetriesInPlace ==
  /\ \A e \in Events : Cardinality({i \in DOMAIN arrived : arrived[i].event = e}) <= MaxRetries
  /\ \A i, j \in DOMAIN arrived :
       i < j /\ arrived[i].by = arrived[j].by => arrived[i].event <= arrived[j].event

\* Every event that was accepted is delivered or given up, unless the process exits
\* without a close() that returned in time: only then do the daemon workers take queued
\* or half sent events with them.
AcceptedIsResolved ==
  \A e \in Events :
    emitted >= e /\ e \notin dropped ~> e \in resolved \/ (exited /\ ~ClosedInTime)

=============================================================================
