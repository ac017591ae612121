--------------------------- MODULE ThreadSessions ---------------------------
(***************************************************************************)
(* The drivers of one conversation thread: agent-os run, agent-os chat and  *)
(* agent-os session (cli/app.py), and the browser's websocket (server/      *)
(* api.py), over the thread's checkpoint and its row in the session index   *)
(* (sessions.py).                                                          *)
(*                                                                         *)
(* A pass streams the graph until it ends or interrupts at a gate; its       *)
(* nodes are the subject of AgentGraph, here a pass raises any number of     *)
(* gates.  Drivers are processes or connections: they come and go, die with *)
(* a pass half done, and may work on the thread at the same time.           *)
(***************************************************************************)
EXTENDS Naturals

CONSTANTS Drivers,
          Bindings,  \* backend bindings, up to the fields binding_conflicts compares
          Valid,     \* those validate_backend_binding accepts
          None,      \* no checkpoint; no binding in a checkpoint older than bindings
          MaxStarts, \* bound: invocations and connections
          MaxGates,  \* bound: gates the graph raises
          MaxTurns   \* bound: finished chat turns

ASSUME ThreadAssumption ==
  /\ Valid \subseteq Bindings /\ None \notin Bindings
  /\ MaxStarts \in Nat /\ MaxGates \in Nat \ {0} /\ MaxTurns \in Nat

Kinds == {"run", "chat", "socket", "delete"}

\* What a pass is given: initial_state, a message, Command(resume=...), nothing.  The first
\* answer of a resumed chat is given to a pass of its own.
Replies == {"answer", "first answer"}
Inputs  == Replies \cup {"task", "message", "continue"}

\* The checkpoint of the thread: where it stands, its pending gate (0: none), its binding.
Checkpoint == [next : {"mid", "gate", "end"}, gate : 0..MaxGates, binding : Bindings \cup {None}]

ASSUME NoCheckpoint == None \notin Checkpoint

VARIABLES thread,   \* the checkpoint, or None
          row,      \* sessions.turn_count, 0 without a row
          pc,       \* each driver: what it does next
          kind,     \* what it is
          resumed,  \* it was started with --resume
          bound,    \* its own binding, from environment, profile or workspace
          prompt,   \* the gate whose prompt it shows; a socket's pending_interrupt
          input,    \* what its pass was given
          carried,  \* the binding in the state its pass works on
          seen,     \* the turn count it has read
          gates, starts,
          turns,      \* history: finished chat turns
          answered,   \* history: <<gate, prompt>> for every answer that reached a gate
          overlapped  \* history: a driver started while another one was there

driver  == <<kind, resumed, bound>>
history == <<gates, starts, turns, answered, overlapped>>
vars    == <<thread, row, pc, driver, prompt, input, carried, seen, history>>

Points == {"off", "bind", "ask", "first", "text", "pass", "look", "index", "count", "confirm", "unlist"}

TypeOK ==
  /\ thread \in Checkpoint \cup {None}
  /\ row \in 0..MaxTurns /\ seen \in [Drivers -> 0..MaxTurns]
  /\ pc \in [Drivers -> Points]
  /\ kind \in [Drivers -> Kinds]
  /\ resumed \in [Drivers -> BOOLEAN]
  /\ bound \in [Drivers -> Bindings \cup {None}]
  /\ prompt \in [Drivers -> 0..MaxGates]
  /\ input \in [Drivers -> Inputs]
  /\ carried \in [Drivers -> Bindings \cup {None}]
  /\ gates \in 0..MaxGates /\ starts \in 0..MaxStarts /\ turns \in 0..MaxTurns
  /\ answered \in SUBSET ((1..MaxGates) \X (0..MaxGates))
  /\ overlapped \in BOOLEAN

\* No thread yet, or one that was left at a gate or in the middle before bindings existed.
Init ==
  /\ \/ thread = None /\ gates = 0
     \/ thread = [next |-> "gate", gate |-> 1, binding |-> None] /\ gates = 1
     \/ thread = [next |-> "mid", gate |-> 0, binding |-> None] /\ gates = 0
  /\ row = 0 /\ seen = [d \in Drivers |-> 0]
  /\ pc = [d \in Drivers |-> "off"]
  /\ kind = [d \in Drivers |-> "run"]
  /\ resumed = [d \in Drivers |-> FALSE]
  /\ bound = [d \in Drivers |-> None]
  /\ prompt = [d \in Drivers |-> 0]
  /\ input = [d \in Drivers |-> "continue"]
  /\ carried = [d \in Drivers |-> None]
  /\ starts = 0 /\ turns = 0 /\ answered = {} /\ overlapped = FALSE

-----------------------------------------------------------------------------
(* Helpers.                                                                *)

\* _pending_interrupt of the snapshot: 0 if there is none.
PendingInterrupt == IF thread # None /\ thread.next = "gate" THEN thread.gate ELSE 0

GoTo(d, p) == pc' = [pc EXCEPT ![d] = p]

Show(d, g) == prompt' = [prompt EXCEPT ![d] = g]

\* The driver exits; what it held in memory is gone.
Exits(d) ==
  /\ GoTo(d, "off")
  /\ kind' = [kind EXCEPT ![d] = "run"]
  /\ resumed' = [resumed EXCEPT ![d] = FALSE]
  /\ bound' = [bound EXCEPT ![d] = None]
  /\ prompt' = [prompt EXCEPT ![d] = 0]
  /\ input' = [input EXCEPT ![d] = "continue"]
  /\ carried' = [carried EXCEPT ![d] = None]
  /\ seen' = [seen EXCEPT ![d] = 0]

\* A new invocation or connection; async_main has resolved its binding.
Begins(d, k, resume, b) ==
  /\ pc[d] = "off" /\ starts < MaxStarts
  /\ starts' = starts + 1
  /\ kind' = [kind EXCEPT ![d] = k]
  /\ resumed' = [resumed EXCEPT ![d] = resume]
  /\ bound' = [bound EXCEPT ![d] = b]
  /\ overlapped' = (overlapped \/ \E u \in Drivers \ {d} : pc[u] # "off")

\* _initial_state and initial_state: a task's first checkpoint.
InitialState(b) == [next |-> "mid", gate |-> 0, binding |-> b]

\* astream_events begins.  A state update starts the graph anew, and a gate that was pending
\* is gone with the next checkpoint; an answer goes to the gate that is pending now.
Stream(d, in, b) ==
  /\ GoTo(d, "pass")
  /\ input' = [input EXCEPT ![d] = in]
  /\ carried' = [carried EXCEPT ![d] = IF in = "task" THEN b ELSE thread.binding]
  /\ thread' = CASE in = "task"    -> InitialState(b)
                 [] in = "message" -> [thread EXCEPT !.next = "mid", !.gate = 0]
                 [] OTHER          -> thread
  /\ answered' = IF in \in Replies /\ PendingInterrupt # 0
                 THEN answered \cup {<<PendingInterrupt, prompt[d]>>} ELSE answered

-----------------------------------------------------------------------------
(* Starting a driver.                                                      *)

\* agent-os run TASK, on a new or an existing thread id: _initial_state.
RunTask(d, b) ==
  /\ Begins(d, "run", FALSE, b)
  /\ Stream(d, "task", b)
  /\ Show(d, 0)
  /\ UNCHANGED <<row, seen, gates, turns>>

\* agent-os chat without --resume: nothing is looked at before the first message.
OpenChat(d, b) ==
  /\ Begins(d, "chat", FALSE, b)
  /\ GoTo(d, "text")
  /\ Show(d, 0)
  /\ UNCHANGED <<thread, row, seen, input, carried, gates, turns, answered>>

\* Mutant: a reconnecting browser does not look for a pending approval.
ConnectAfresh(d, b) ==
  /\ Begins(d, "socket", FALSE, b)
  /\ GoTo(d, "text")
  /\ Show(d, 0)
  /\ UNCHANGED <<thread, row, seen, input, carried, gates, turns, answered>>

\* websocket_endpoint: a pending approval is shown before any text is read.
Connect(d, b) ==
  /\ Begins(d, "socket", FALSE, b)
  /\ GoTo(d, "text")
  /\ Show(d, PendingInterrupt)
  /\ UNCHANGED <<thread, row, seen, input, carried, gates, turns, answered>>

\* binding_conflicts; a checkpoint without a binding needs the same --force-rebind.
Conflict(b) == thread.binding # b

\* --force-rebind is accepted once validate_backend_binding has resolved the binding.
MayRebind(b, force) == force /\ b \in Valid

\* What a resumed run or chat does with its snapshot: ask for the answer, or go on.
Resumes(d, k) ==
  \/ /\ PendingInterrupt # 0
     /\ Show(d, PendingInterrupt)
     /\ GoTo(d, IF k = "chat" THEN "first" ELSE "ask")
     /\ UNCHANGED <<thread, input, carried, answered>>
  \/ /\ PendingInterrupt = 0 /\ k = "run"
     /\ Show(d, 0)
     /\ Stream(d, "continue", None)
  \/ /\ PendingInterrupt = 0 /\ k = "chat"
     /\ Show(d, 0)
     /\ GoTo(d, "text")
     /\ UNCHANGED <<thread, input, carried, answered>>

\* agent-os [chat] --resume: _run_graph also refuses a thread that has ended.  A conflict
\* is refused unless it is forced with a binding that is valid.
Resume(d, k, b, force) ==
  /\ thread # None
  /\ k = "run" => thread.next # "end"
  /\ Begins(d, k, TRUE, b)
  /\ \/ ~Conflict(b) /\ Resumes(d, k)
     \/ /\ Conflict(b) /\ MayRebind(b, force)
        /\ GoTo(d, "bind")
        /\ UNCHANGED <<thread, prompt, input, carried, answered>>
  /\ UNCHANGED <<row, seen, gates, turns>>

\* Mutant: the warning is printed, the checkpoint keeps its binding.
RebindWarnsOnly(d) ==
  /\ pc[d] = "bind" /\ thread # None
  /\ Resumes(d, kind[d])
  /\ UNCHANGED <<row, seen, driver, gates, starts, turns, overlapped>>

\* aupdate_state writes a checkpoint of its own; the gate may have to be raised again.
Rebind(d) ==
  /\ pc[d] = "bind" /\ thread # None
  /\ \E g \in {PendingInterrupt, 0} :
       /\ thread' = [thread EXCEPT !.binding = bound[d], !.gate = g,
                                   !.next = IF @ = "gate" /\ g = 0 THEN "mid" ELSE @]
       /\ Show(d, g)
       /\ GoTo(d, IF g # 0 THEN (IF kind[d] = "chat" THEN "first" ELSE "ask")
                  ELSE IF kind[d] = "chat" THEN "text" ELSE "pass")
       /\ input' = [input EXCEPT ![d] = "continue"]
       /\ carried' = [carried EXCEPT ![d] = bound[d]]
  /\ UNCHANGED <<row, seen, driver, history>>

-----------------------------------------------------------------------------
(* Passes and what follows them.                                           *)

\* The operator answers the prompt; _read_feedback asks until it understands the answer.
GiveAnswer(d) ==
  /\ pc[d] \in {"ask", "first"} /\ thread # None
  /\ Stream(d, IF pc[d] = "first" THEN "first answer" ELSE "answer", None)
  /\ UNCHANGED <<row, seen, driver, prompt, gates, starts, turns, overlapped>>

\* A message in chat: the first one of a thread is its task.
ChatText(d) ==
  /\ pc[d] = "text" /\ kind[d] = "chat"
  /\ Stream(d, IF thread = None THEN "task" ELSE "message", bound[d])
  /\ UNCHANGED <<row, seen, driver, prompt, gates, starts, turns, overlapped>>

\* A message from the browser: the answer if an approval is pending, else a new task.
SocketText(d) ==
  /\ pc[d] = "text" /\ kind[d] = "socket"
  /\ prompt[d] # 0 => thread # None
  /\ Stream(d, IF prompt[d] # 0 THEN "answer" ELSE "task", bound[d])
  /\ UNCHANGED <<row, seen, driver, prompt, gates, starts, turns, overlapped>>

\* The pass is over: the graph has ended or raised a gate.  A resumed chat goes on to the
\* next message after its first answer without looking where the graph stands.
PassEnds(d) ==
  /\ pc[d] = "pass"
  /\ \/ /\ thread' = [next |-> "end", gate |-> 0, binding |-> carried[d]]
        /\ UNCHANGED gates
     \/ /\ gates < MaxGates
        /\ gates' = gates + 1
        /\ thread' = [next |-> "gate", gate |-> gates + 1, binding |-> carried[d]]
  /\ GoTo(d, IF input[d] = "first answer" THEN "text" ELSE "look")
  /\ input' = [input EXCEPT ![d] = "continue"]
  /\ carried' = [carried EXCEPT ![d] = None]
  /\ UNCHANGED <<row, seen, driver, prompt, starts, turns, answered, overlapped>>

\* An exception, Ctrl-C, a broken connection or the death of the process in a pass: the
\* checkpoint is the last one that was saved.
PassStops(d) ==
  /\ pc[d] = "pass"
  /\ thread' \in {thread, [next |-> "mid", gate |-> 0, binding |-> carried[d]]}
  /\ Exits(d)
  /\ UNCHANGED <<row, history>>

\* Mutant: the prompt that was answered is shown again.
LookAtOldPrompt(d) ==
  /\ pc[d] = "look" /\ kind[d] = "run"
  /\ \/ PendingInterrupt # 0 /\ GoTo(d, "ask") /\ UNCHANGED <<driver, prompt, input, carried, seen>>
     \/ PendingInterrupt = 0 /\ Exits(d)
  /\ UNCHANGED <<thread, row, history>>

\* aget_state after a pass of agent-os run: a gate, or done, or neither, which ends it too.
LookInRun(d) ==
  /\ pc[d] = "look" /\ kind[d] = "run"
  /\ \/ /\ PendingInterrupt # 0
        /\ Show(d, PendingInterrupt)
        /\ GoTo(d, "ask")
        /\ UNCHANGED <<driver, input, carried, seen>>
     \/ PendingInterrupt = 0 /\ Exits(d)
  /\ UNCHANGED <<thread, row, history>>

\* The same in chat: a finished turn is counted, unless its tool failed.
LookInChat(d) ==
  /\ pc[d] = "look" /\ kind[d] = "chat"
  /\ \/ /\ PendingInterrupt # 0
        /\ Show(d, PendingInterrupt)
        /\ GoTo(d, "ask")
        /\ UNCHANGED <<driver, input, carried, seen, turns>>
     \/ /\ thread # None => thread.next = "end"
        /\ turns < MaxTurns
        /\ turns' = turns + 1
        /\ Show(d, 0)
        /\ GoTo(d, "index")
        /\ UNCHANGED <<driver, input, carried, seen>>
     \/ PendingInterrupt = 0 /\ Exits(d) /\ UNCHANGED turns
  /\ UNCHANGED <<thread, row, gates, starts, answered, overlapped>>

\* The same in the browser's connection, which then waits for the next text.
LookInSocket(d) ==
  /\ pc[d] = "look" /\ kind[d] = "socket"
  /\ Show(d, PendingInterrupt)
  /\ GoTo(d, "text")
  /\ UNCHANGED <<thread, row, seen, driver, input, carried, history>>

\* Mutant: the row is counted up when it is read and again when it is written.
UpsertReadsAhead(d) ==
  /\ pc[d] = "index"
  /\ seen' = [seen EXCEPT ![d] = IF row = 0 THEN 0 ELSE row + 1]
  /\ GoTo(d, "count")
  /\ UNCHANGED <<thread, row, driver, prompt, input, carried, history>>

\* upsert_session reads the row ...
UpsertRead(d) ==
  /\ pc[d] = "index"
  /\ seen' = [seen EXCEPT ![d] = row]
  /\ GoTo(d, "count")
  /\ UNCHANGED <<thread, row, driver, prompt, input, carried, history>>

\* ... and inserts or updates it.  An insert that finds a row by now is an error and ends the
\* chat; an update of a row that is gone writes nothing.
UpsertWrite(d) ==
  /\ pc[d] = "count"
  /\ \/ seen[d] = 0 /\ row # 0 /\ Exits(d) /\ UNCHANGED row
     \/ /\ seen[d] # 0 \/ row = 0
        /\ row' = IF seen[d] # 0 /\ row = 0 THEN 0 ELSE seen[d] + 1
        /\ seen' = [seen EXCEPT ![d] = 0]
        /\ GoTo(d, "text")
        /\ UNCHANGED <<driver, prompt, input, carried>>
  /\ UNCHANGED <<thread, history>>

\* Ctrl-C, the end of input, /exit, a closed connection, or death outside a pass.  A chat
\* that exits in order leaves the thread alone too: its session log needs a function,
\* sessions._get_db, that does not exist, and the failed import only prints a warning.
Leave(d) ==
  /\ pc[d] \notin {"off", "pass"}
  /\ Exits(d)
  /\ UNCHANGED <<thread, row, history>>

\* agent-os session delete asks for a confirmation (a refusal is Leave) ...
AskDelete(d) ==
  /\ row # 0
  /\ Begins(d, "delete", FALSE, None)
  /\ GoTo(d, "confirm")
  /\ UNCHANGED <<thread, row, seen, prompt, input, carried, gates, turns, answered>>

\* ... and deletes the checkpoints first, then the row.
DeleteThread(d) ==
  /\ pc[d] = "confirm"
  /\ thread' = None
  /\ GoTo(d, "unlist")
  /\ UNCHANGED <<row, seen, driver, prompt, input, carried, history>>

DeleteSession(d) ==
  /\ pc[d] = "unlist"
  /\ row' = 0
  /\ Exits(d)
  /\ UNCHANGED <<thread, history>>

Next ==
  \E d \in Drivers :
    \/ \E b \in Bindings : RunTask(d, b) \/ OpenChat(d, b) \/ Connect(d, b)
    \/ \E k \in {"run", "chat"}, b \in Bindings, force \in BOOLEAN : Resume(d, k, b, force)
    \/ Rebind(d) \/ GiveAnswer(d) \/ ChatText(d) \/ SocketText(d)
    \/ PassEnds(d) \/ PassStops(d)
    \/ LookInRun(d) \/ LookInChat(d) \/ LookInSocket(d)
    \/ UpsertRead(d) \/ UpsertWrite(d) \/ Leave(d)
    \/ AskDelete(d) \/ DeleteThread(d) \/ DeleteSession(d)

Spec == Init /\ [][Next]_vars

-----------------------------------------------------------------------------
(* Properties.                                                             *)

\* An answer goes to the gate whose prompt the operator saw: over any number of gates,
\* killed passes, resumes, rebinds and reconnects, as long as the thread has one driver at a
\* time (_pending_interrupt before every _read_feedback, pending_interrupt of the socket).
AnswerFits == ~overlapped => \A a \in answered : a[1] = a[2]

\* A resumed thread never changes its backends in the middle: every pass of a driver that
\* was started with --resume works on a state bound to the driver's own backends, a chat's
\* later messages included (_prepare_resume_binding).
ResumedIsBound ==
  ~overlapped => \A d \in Drivers : pc[d] = "pass" /\ resumed[d] => carried[d] = bound[d]

\* A browser that reconnects while an approval is pending answers it with its first text and
\* does not restart the task (websocket_endpoint restores the approval on connect).
SocketKeepsGate ==
  [][\A d \in Drivers :
       /\ kind[d] = "socket" /\ pc[d] = "text" /\ pc'[d] = "pass"
       /\ ~overlapped /\ PendingInterrupt # 0
       => input'[d] = "answer"]_vars

\* The session index never shows more turns than were finished, however upserts, deletions
\* and deaths between them interleave.
TurnsNotOvercounted == row <= turns

=============================================================================
