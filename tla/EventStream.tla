---------------------------- MODULE EventStream ----------------------------
(***************************************************************************)
(* GET /api/runs/{run_id}/events: the generator event_stream() of          *)
(* agent_os/server/api.py, which replays a run's events from ?after=<seq>,  *)
(* tails new rows and says `end' when the run is terminal, against the     *)
(* writers of the ledger.  Events are their seq numbers: append_event       *)
(* numbers them MAX(seq) + 1, so the log of a run is 1..last.               *)
(*                                                                         *)
(* The generator runs on the event loop and is suspended at every yield    *)
(* (until the server has sent the chunk) and in its sleep; handlers and    *)
(* run tasks append in between.  The console and the connection are        *)
(* external: chunks in flight are lost when the connection breaks, and the *)
(* console asks again from the last event it has.                          *)
(***************************************************************************)
EXTENDS Integers, Sequences

CONSTANTS MaxEvents,      \* bound: events of the run
          MaxDrops        \* bound: broken connections

ASSUME StreamAssumption ==
  /\ MaxEvents \in Nat \ {0}
  /\ MaxDrops \in Nat

\* The chunk `event: end'.
End == 0

VARIABLES last,      \* MAX(seq) of the run's events
          terminal,  \* the run's status is terminal
          spc,       \* where the generator is suspended
          cursor,    \* last_seq
          upto,      \* highest seq of the batch list_events returned
          wire,      \* chunks sent and not yet received
          received,  \* events the console has
          ended,     \* the console has seen `end' since its last request
          drops

streamVars == <<last, terminal, spc, cursor, upto, wire, received, ended, drops>>
writer     == <<last, terminal>>
console    == <<received, ended, drops>>

\* off: no request open; replay, tail: at a yield of the first loop, of the
\* loop inside `while True'; sleep: in asyncio.sleep; done: returned.
StreamPoints == {"off", "replay", "tail", "sleep", "done"}

StreamTypeOK ==
  /\ last \in 0..MaxEvents
  /\ terminal \in BOOLEAN
  /\ spc \in StreamPoints
  /\ cursor \in 0..MaxEvents
  /\ upto \in 0..MaxEvents
  /\ wire \in Seq(0..MaxEvents)
  /\ received \in Seq(1..MaxEvents)
  /\ ended \in BOOLEAN
  /\ drops \in 0..MaxDrops

StreamInit ==
  /\ last = 0
  /\ terminal = FALSE
  /\ spc = "off"
  /\ cursor = 0
  /\ upto = 0
  /\ wire = <<>>
  /\ received = <<>>
  /\ ended = FALSE
  /\ drops = 0

-----------------------------------------------------------------------------
(* The writers: execute_run, the handlers and dispatch_schedule.  Neither   *)
(* call looks at the status it finds.  The cancel endpoint does not reach   *)
(* the task of a scheduled run, so that run goes on logging after its       *)
(* terminal status and may put another status over it.                      *)

AppendEvent ==
  /\ last < MaxEvents
  /\ last' = last + 1
  /\ UNCHANGED <<terminal, spc, cursor, upto, wire, console>>

SetStatus ==
  /\ terminal' = ~terminal
  /\ UNCHANGED <<last, spc, cursor, upto, wire, console>>

-----------------------------------------------------------------------------
(* The generator.                                                          *)

Yield(chunk) == wire' = Append(wire, chunk)

\* Mutant: the status is never looked at again.
TailForever ==
  /\ spc' = "sleep"
  /\ UNCHANGED <<wire, cursor, upto>>

\* get_run after a batch is used up: say `end' and return, or go to sleep.
CheckStatus ==
  /\ IF terminal THEN Yield(End) /\ spc' = "done"
                 ELSE UNCHANGED wire /\ spc' = "sleep"
  /\ UNCHANGED <<cursor, upto>>

\* Mutant: last_seq is taken from the newest row before the rows are sent.
ReadBatchNewest(c, point, otherwise) ==
  IF last > c
  THEN /\ upto' = last
       /\ cursor' = last
       /\ Yield(last)
       /\ spc' = point
  ELSE otherwise

\* list_events(after = c) and its first yield, or what follows an empty batch.
ReadBatch(c, point, otherwise) ==
  IF last > c
  THEN /\ upto' = last
       /\ cursor' = c + 1
       /\ Yield(c + 1)
       /\ spc' = point
  ELSE otherwise

\* The next event of the batch at hand.
YieldNext ==
  /\ spc \in {"replay", "tail"}
  /\ cursor < upto
  /\ cursor' = cursor + 1
  /\ Yield(cursor + 1)
  /\ UNCHANGED <<spc, upto, writer, console>>

\* The replayed batch is used up: enter `while True'.
EnterTail ==
  /\ spc = "replay"
  /\ cursor = upto
  /\ ReadBatch(cursor, "tail", CheckStatus)
  /\ UNCHANGED <<writer, console>>

\* A batch of the tail is used up: look at the status only.
TailBatchDone ==
  /\ spc = "tail"
  /\ cursor = upto
  /\ CheckStatus
  /\ UNCHANGED <<writer, console>>

Wake ==
  /\ spc = "sleep"
  /\ ReadBatch(cursor, "tail", CheckStatus)
  /\ UNCHANGED <<writer, console>>

-----------------------------------------------------------------------------
(* The console and the connection (external).                              *)

\* A request with after = the last event received.  Both loops of the
\* generator read the same empty batch when there is nothing to replay.
Connect ==
  /\ spc = "off"
  /\ ~ended
  /\ IF last > Len(received)
     THEN ReadBatch(Len(received), "replay", FALSE)
     ELSE /\ cursor' = Len(received)
          /\ upto' = Len(received)
          /\ IF terminal THEN Yield(End) /\ spc' = "done"
                         ELSE UNCHANGED wire /\ spc' = "sleep"
  /\ UNCHANGED <<writer, console>>

Receive ==
  /\ wire # <<>>
  /\ wire' = Tail(wire)
  /\ IF Head(wire) = End
     THEN ended' = TRUE /\ UNCHANGED received
     ELSE received' = Append(received, Head(wire)) /\ UNCHANGED ended
  /\ UNCHANGED <<spc, cursor, upto, writer, drops>>

Disconnect ==
  /\ spc # "off"
  /\ ~ended
  /\ drops < MaxDrops
  /\ drops' = drops + 1
  /\ spc' = "off"
  /\ wire' = <<>>
  /\ UNCHANGED <<cursor, upto, writer, received, ended>>

\* After `end' a console may ask again from where it is.
Reopen ==
  /\ ended
  /\ ended' = FALSE
  /\ spc' = "off"
  /\ UNCHANGED <<cursor, upto, wire, writer, received, drops>>

-----------------------------------------------------------------------------
Stream == YieldNext \/ EnterTail \/ TailBatchDone \/ Wake

StreamNext ==
  \/ AppendEvent
  \/ SetStatus
  \/ YieldNext
  \/ EnterTail
  \/ TailBatchDone
  \/ Wake
  \/ Connect
  \/ Receive
  \/ Disconnect
  \/ Reopen

StreamSpec == StreamInit /\ [][StreamNext]_streamVars

\* The loop resumes the generator, the network delivers or breaks (finitely
\* often), and a console whose connection broke asks again.  Nobody has to ask
\* after `end'.
Fairness ==
  /\ WF_streamVars(Stream)
  /\ WF_streamVars(Receive)
  /\ WF_streamVars(Connect)

FairSpec == StreamSpec /\ Fairness

-----------------------------------------------------------------------------
(* Properties.                                                             *)

\* Whatever breaks and however batches and appends interleave, the console has
\* the run's events in order, none twice and none missing, and what is in
\* flight continues exactly where it is.
NoGapNoDuplicate ==
  /\ \A i \in DOMAIN received : received[i] = i
  /\ \A i \in DOMAIN wire : wire[i] # End => wire[i] = Len(received) + i
  /\ Len(received) <= last

\* What a request promises, whoever writes when.  A request, the first one, one
\* after a broken connection or one after `end', delivers every event the log had
\* when it was made.  An event logged later arrives, or the console is told `end'
\* (and then misses it unless it asks again: the status is read after a batch that
\* may be older than the last event, and events may follow a terminal status).
\* And a run that stays terminal has its `end' told.
RequestDelivers ==
  /\ \A n \in 1..MaxEvents :
       /\ (spc = "off" /\ ~ended /\ last >= n) ~> Len(received) >= n
       /\ last >= n ~> (Len(received) >= n \/ ended)
  /\ <>[]terminal => []<>ended
=============================================================================
