------------------------ MODULE ThreadSessionsProofs ------------------------
(***************************************************************************)
(* Theorems about ThreadSessions, for every set of drivers and bindings    *)
(* and every bound on starts, gates and turns.                             *)
(***************************************************************************)
EXTENDS ThreadSessions, FiniteSetTheorems, TLAPS

USE ThreadAssumption

-----------------------------------------------------------------------------
(* The inductive invariant, in four parts.                                 *)

\* Until two drivers have overlapped there is at most one.
OneDriver ==
  ~overlapped => \A d, u \in Drivers : pc[d] # "off" /\ pc[u] # "off" => d = u

\* The places where an answer or a text to the browser's gate is read.
AtPrompt(d) == pc[d] \in {"ask", "first"} \/ (pc[d] = "text" /\ kind[d] = "socket")

\* There the prompt shown is the gate that is pending now.
PromptInv == ~overlapped => \A d \in Drivers : AtPrompt(d) => prompt[d] = PendingInterrupt

\* A driver started with --resume has its own binding in the checkpoint and in
\* the state its pass works on, once it is past the rebind.
BoundInv ==
  ~overlapped => \A d \in Drivers : resumed[d] /\ pc[d] \notin {"off", "bind"} =>
    /\ thread # None => thread.binding = bound[d]
    /\ pc[d] = "pass" => carried[d] = bound[d]

\* Only a chat asks for a first answer, and only a chat counts turns.
KindInv ==
  \A d \in Drivers :
    /\ pc[d] \in {"first", "index", "count"} => kind[d] = "chat"
    /\ input[d] = "first answer" => pc[d] = "pass" /\ kind[d] = "chat"

\* Chats whose finished turn is not yet in the index.
Uncounted == {d \in Drivers : pc[d] \in {"index", "count"}}

\* The index and what any chat has read of it leave room for every turn that is
\* still to be counted: two chats that count at once cannot overtake the turns.
CountInv ==
  /\ IsFiniteSet(Uncounted)
  /\ row + Cardinality(Uncounted) <= turns
  /\ \A d \in Drivers : pc[d] = "count" => seen[d] + Cardinality(Uncounted) <= turns

ThreadInv == TypeOK /\ OneDriver /\ PromptInv /\ BoundInv /\ KindInv /\ CountInv
-----------------------------------------------------------------------------
(* Frames: a step is a step of one driver.                                 *)

Step(d) ==
  \/ \E b \in Bindings : RunTask(d, b) \/ OpenChat(d, b) \/ Connect(d, b)
  \/ \E k \in {"run", "chat"}, b \in Bindings, force \in BOOLEAN : Resume(d, k, b, force)
  \/ Rebind(d) \/ GiveAnswer(d) \/ ChatText(d) \/ SocketText(d)
  \/ PassEnds(d) \/ PassStops(d)
  \/ LookInRun(d) \/ LookInChat(d) \/ LookInSocket(d)
  \/ UpsertRead(d) \/ UpsertWrite(d) \/ Leave(d)
  \/ AskDelete(d) \/ DeleteThread(d) \/ DeleteSession(d)

TypeDrivers ==
  /\ pc \in [Drivers -> Points]
  /\ kind \in [Drivers -> Kinds]
  /\ resumed \in [Drivers -> BOOLEAN]
  /\ bound \in [Drivers -> Bindings \cup {None}]
  /\ prompt \in [Drivers -> 0..MaxGates]
  /\ input \in [Drivers -> Inputs]
  /\ carried \in [Drivers -> Bindings \cup {None}]
  /\ seen \in [Drivers -> 0..MaxTurns]

TypeThread ==
  /\ thread \in Checkpoint \cup {None}
  /\ row \in 0..MaxTurns
  /\ gates \in 0..MaxGates /\ starts \in 0..MaxStarts /\ turns \in 0..MaxTurns
  /\ answered \in SUBSET ((1..MaxGates) \X (0..MaxGates))
  /\ overlapped \in BOOLEAN

\* The type invariant is the drivers' part and the thread's.
LEMMA TypeParts ==
  /\ TypeOK => TypeDrivers /\ TypeThread
  /\ TypeDrivers' /\ TypeThread' => TypeOK'
BY DEF TypeOK, TypeDrivers, TypeThread

\* What the other drivers hold in memory is theirs alone.
Frame(d) ==
  \A u \in Drivers \ {d} :
    /\ pc'[u] = pc[u] /\ kind'[u] = kind[u] /\ resumed'[u] = resumed[u]
    /\ bound'[u] = bound[u] /\ prompt'[u] = prompt[u] /\ input'[u] = input[u]
    /\ carried'[u] = carried[u] /\ seen'[u] = seen[u]

\* A driver that exits forgets what it held; nothing else moves.
LEMMA ExitsEffect ==
  ASSUME TypeDrivers, NEW d \in Drivers, Exits(d)
  PROVE  TypeDrivers' /\ Frame(d) /\ pc'[d] = "off" /\ input'[d] = "continue"
BY DEF TypeDrivers, Exits, GoTo, Frame, Points, Kinds, Inputs

\* One more start, recorded as an overlap if somebody is there.
Begun(d) ==
  /\ pc[d] = "off" /\ starts < MaxStarts
  /\ starts' = starts + 1
  /\ overlapped' = (overlapped \/ \E u \in Drivers \ {d} : pc[u] # "off")

\* A new driver is one more start; it has overlapped with whoever is there.
LEMMA BegunEffect ==
  ASSUME TypeOK, NEW d \in Drivers, Begun(d)
  PROVE  /\ starts' \in 0..MaxStarts
         /\ overlapped' \in BOOLEAN
         /\ ~overlapped' => ~overlapped /\ \A u \in Drivers \ {d} : pc[u] = "off"
<1>1. starts' \in 0..MaxStarts
  BY DEF Begun, TypeOK
<1>2. /\ overlapped' \in BOOLEAN
      /\ ~overlapped' => ~overlapped /\ \A u \in Drivers \ {d} : pc[u] = "off"
  BY Zenon DEF Begun
<1> QED
  BY <1>1, <1>2

\* The gate that is pending is one that was raised.
LEMMA PendingTyped ==
  ASSUME TypeThread
  PROVE  PendingInterrupt \in 0..MaxGates
BY DEF TypeThread, PendingInterrupt, Checkpoint

\* What the start of a pass does, by what it is given.
LEMMA StreamEffect ==
  ASSUME TypeOK, NEW d \in Drivers, NEW in \in Inputs, NEW b \in Bindings \cup {None},
         in # "task" => thread # None, Stream(d, in, b)
  PROVE  /\ pc' = [pc EXCEPT ![d] = "pass"]
         /\ input' = [input EXCEPT ![d] = in]
         /\ thread' \in Checkpoint
         /\ carried' = [carried EXCEPT ![d] = thread'.binding]
         /\ thread'.binding = IF in = "task" THEN b ELSE thread.binding
         /\ answered' \in SUBSET ((1..MaxGates) \X (0..MaxGates))
         /\ \A a \in answered' : a \in answered \/ a = <<PendingInterrupt, prompt[d]>>
         /\ ~(in \in Replies) => answered' = answered
<1>0. /\ in # "task" => thread \in Checkpoint
      /\ prompt[d] \in 0..MaxGates /\ PendingInterrupt \in 0..MaxGates
      /\ answered \in SUBSET ((1..MaxGates) \X (0..MaxGates))
  BY TypeParts, PendingTyped DEF TypeThread, TypeDrivers
<1>1. CASE in = "task"
  <2>1. thread' = InitialState(b)
    BY <1>1 DEF Stream
  <2>2. thread' \in Checkpoint /\ thread'.binding = b
    BY <2>1 DEF InitialState, Checkpoint
  <2>3. carried' = [carried EXCEPT ![d] = b]
    BY <1>1 DEF Stream
  <2>4. answered' = answered
    BY <1>1 DEF Stream, Replies
  <2> QED
    BY <1>0, <1>1, <2>2, <2>3, <2>4 DEF Stream, GoTo
<1>2. CASE in # "task"
  <2>1. thread \in Checkpoint
    BY <1>0, <1>2
  <2>2. thread' = [thread EXCEPT !.next = "mid", !.gate = 0] \/ thread' = thread
    BY <1>2 DEF Stream
  <2>3. thread' \in Checkpoint /\ thread'.binding = thread.binding
    <3>1. CASE thread' = [thread EXCEPT !.next = "mid", !.gate = 0]
      <4>1. thread' = [next |-> "mid", gate |-> 0, binding |-> thread.binding]
        BY <2>1, <3>1 DEF Checkpoint
      <4>2. thread.binding \in Bindings \cup {None}
        BY <2>1 DEF Checkpoint
      <4> QED
        BY <4>1, <4>2 DEF Checkpoint
    <3>2. CASE thread' = thread
      BY <2>1, <3>2
    <3> QED
      BY <2>2, <3>1, <3>2
  <2>4. carried' = [carried EXCEPT ![d] = thread.binding]
    BY <1>2 DEF Stream
  <2>5. PendingInterrupt # 0 => <<PendingInterrupt, prompt[d]>> \in (1..MaxGates) \X (0..MaxGates)
    BY <1>0
  <2>6. \/ answered' = answered
        \/ /\ PendingInterrupt # 0 /\ in \in Replies
           /\ answered' = answered \cup {<<PendingInterrupt, prompt[d]>>}
    BY DEF Stream
  <2>7. /\ answered' \in SUBSET ((1..MaxGates) \X (0..MaxGates))
        /\ \A a \in answered' : a \in answered \/ a = <<PendingInterrupt, prompt[d]>>
        /\ ~(in \in Replies) => answered' = answered
    BY <1>0, <2>5, <2>6
  <2> QED
    BY <1>2, <2>3, <2>4, <2>7 DEF Stream, GoTo
<1> QED
  BY <1>1, <1>2
-----------------------------------------------------------------------------
(* Type correctness and frames, action by action.                          *)

\* What every step of driver d guarantees: a typed state, the other drivers'
\* memory untouched, and no overlap that is not recorded.
Sound(d) ==
  /\ TypeOK'
  /\ Frame(d)
  /\ ~overlapped' => ~overlapped /\ \A u \in Drivers \ {d} : pc[u] = "off"

\* A driver that is there when no two have overlapped is alone.
LEMMA Alone ==
  ASSUME OneDriver, NEW d \in Drivers, pc[d] # "off", overlapped' = overlapped
  PROVE  ~overlapped' => ~overlapped /\ \A u \in Drivers \ {d} : pc[u] = "off"
BY DEF OneDriver

\* The four ways to start a driver with a binding of its own.
LEMMA SoundStarts ==
  ASSUME ThreadInv, NEW d \in Drivers, NEW b \in Bindings \cup {None},
         RunTask(d, b) \/ OpenChat(d, b) \/ Connect(d, b) \/ AskDelete(d)
  PROVE  Sound(d)
<1> USE DEF Sound, Frame, TypeDrivers, TypeThread
<1>0. TypeOK /\ TypeDrivers /\ TypeThread
  BY TypeParts DEF ThreadInv
<1>k. /\ "run" \in Kinds /\ "chat" \in Kinds /\ "socket" \in Kinds /\ "delete" \in Kinds
      /\ FALSE \in BOOLEAN /\ b \in Bindings \cup {None} /\ None \in Bindings \cup {None}
      /\ "task" \in Inputs /\ PendingInterrupt \in 0..MaxGates /\ 0 \in 0..MaxGates
      /\ "text" \in Points /\ "pass" \in Points /\ "confirm" \in Points
  BY <1>0, PendingTyped DEF Kinds, Inputs, Points
<1>1. CASE RunTask(d, b)
  <2>1. Begins(d, "run", FALSE, b) /\ Stream(d, "task", b) /\ Show(d, 0)
        /\ UNCHANGED <<row, seen, gates, turns>>
    BY <1>1 DEF RunTask
  <2>r. /\ Begun(d)
        /\ kind' = [kind EXCEPT ![d] = "run"]
        /\ resumed' = [resumed EXCEPT ![d] = FALSE]
        /\ bound' = [bound EXCEPT ![d] = b]
    BY <2>1 DEF Begins, Begun
  <2>2. /\ starts' \in 0..MaxStarts /\ overlapped' \in BOOLEAN
        /\ ~overlapped' => ~overlapped /\ \A u \in Drivers \ {d} : pc[u] = "off"
    BY <1>0, <2>r, BegunEffect
  <2>3. /\ pc' = [pc EXCEPT ![d] = "pass"]
        /\ input' = [input EXCEPT ![d] = "task"]
        /\ thread' \in Checkpoint
        /\ carried' = [carried EXCEPT ![d] = thread'.binding]
        /\ thread'.binding = b
        /\ answered' \in SUBSET ((1..MaxGates) \X (0..MaxGates))
    BY <1>0, <1>k, <2>1, StreamEffect
  <2>4. TypeDrivers'
    BY <1>0, <1>k, <2>1, <2>2, <2>r, <2>3 DEF Show
  <2>5. TypeThread'
    BY <1>0, <2>1, <2>2, <2>3
  <2>6. Frame(d)
    BY <1>0, <2>1, <2>2, <2>r, <2>3 DEF Show
  <2> QED
    BY <2>2, <2>4, <2>5, <2>6, TypeParts
<1>2. ASSUME NEW k \in {"chat", "socket", "delete"}, NEW c \in Bindings \cup {None},
             NEW g \in 0..MaxGates, NEW p \in {"text", "confirm"},
             Begins(d, k, FALSE, c), GoTo(d, p), prompt' = [prompt EXCEPT ![d] = g],
             UNCHANGED <<thread, row, seen, input, carried, gates, turns, answered>>
      PROVE  Sound(d)
  <2>1. k \in Kinds /\ p \in Points
    BY DEF Kinds, Points
  <2>r. /\ Begun(d)
        /\ kind' = [kind EXCEPT ![d] = k]
        /\ resumed' = [resumed EXCEPT ![d] = FALSE]
        /\ bound' = [bound EXCEPT ![d] = c]
    BY <1>2 DEF Begins, Begun
  <2>2. /\ starts' \in 0..MaxStarts /\ overlapped' \in BOOLEAN
        /\ ~overlapped' => ~overlapped /\ \A u \in Drivers \ {d} : pc[u] = "off"
    BY <1>0, <2>r, BegunEffect
  <2>3. TypeDrivers'
    BY <1>0, <1>k, <1>2, <2>1, <2>2, <2>r DEF GoTo
  <2>4. TypeThread'
    BY <1>0, <1>2, <2>2
  <2>5. Frame(d)
    BY <1>0, <1>2, <2>2, <2>r DEF GoTo
  <2> QED
    BY <2>2, <2>3, <2>4, <2>5, TypeParts
<1>3. CASE OpenChat(d, b) \/ Connect(d, b)
  BY <1>2, <1>3, <1>k DEF OpenChat, Connect, Show
<1>4. CASE AskDelete(d)
  <2>1. prompt' = [prompt EXCEPT ![d] = prompt[d]] /\ prompt[d] \in 0..MaxGates
    BY <1>0, <1>4 DEF AskDelete
  <2> QED
    BY <1>2, <1>4, <1>k, <2>1 DEF AskDelete
<1> QED
  BY <1>1, <1>3, <1>4

\* agent-os --resume, whether it asks, goes on or has to rebind first.
LEMMA SoundResume ==
  ASSUME ThreadInv, NEW d \in Drivers, NEW k \in {"run", "chat"}, NEW b \in Bindings,
         NEW force \in BOOLEAN, Resume(d, k, b, force)
  PROVE  Sound(d)
<1> USE DEF Sound, Frame, TypeDrivers, TypeThread
<1>0. TypeOK /\ TypeDrivers /\ TypeThread
  BY TypeParts DEF ThreadInv
<1>k. /\ k \in Kinds /\ TRUE \in BOOLEAN /\ b \in Bindings \cup {None}
      /\ None \in Bindings \cup {None} /\ "continue" \in Inputs /\ "continue" # "task"
      /\ PendingInterrupt \in 0..MaxGates /\ 0 \in 0..MaxGates
  BY <1>0, PendingTyped DEF Kinds, Inputs
<1>1. /\ Begins(d, k, TRUE, b) /\ thread # None /\ UNCHANGED <<row, seen, gates, turns>>
  BY DEF Resume
<1>r. /\ Begun(d)
      /\ kind' = [kind EXCEPT ![d] = k]
      /\ resumed' = [resumed EXCEPT ![d] = TRUE]
      /\ bound' = [bound EXCEPT ![d] = b]
  BY <1>1 DEF Begins, Begun
<1>2. /\ starts' \in 0..MaxStarts /\ overlapped' \in BOOLEAN
      /\ ~overlapped' => ~overlapped /\ \A u \in Drivers \ {d} : pc[u] = "off"
  BY <1>0, <1>r, BegunEffect
<1>3. ASSUME NEW p \in Points, NEW g \in 0..MaxGates, GoTo(d, p),
             prompt' = [prompt EXCEPT ![d] = g], UNCHANGED <<thread, input, carried, answered>>
      PROVE  Sound(d)
  <2>1. TypeDrivers'
    BY <1>0, <1>k, <1>1, <1>2, <1>r, <1>3 DEF GoTo
  <2>2. TypeThread'
    BY <1>0, <1>1, <1>2, <1>3
  <2>3. Frame(d)
    BY <1>0, <1>1, <1>2, <1>r, <1>3 DEF GoTo
  <2> QED
    BY <1>2, <2>1, <2>2, <2>3, TypeParts
<1>4. ASSUME Show(d, 0), Stream(d, "continue", None)
      PROVE  Sound(d)
  <2>1. /\ pc' = [pc EXCEPT ![d] = "pass"]
        /\ input' = [input EXCEPT ![d] = "continue"]
        /\ thread' \in Checkpoint
        /\ carried' = [carried EXCEPT ![d] = thread'.binding]
        /\ answered' \in SUBSET ((1..MaxGates) \X (0..MaxGates))
    BY <1>0, <1>k, <1>1, <1>4, StreamEffect
  <2>2. thread'.binding \in Bindings \cup {None}
    BY <2>1 DEF Checkpoint
  <2>3. TypeDrivers'
    BY <1>0, <1>k, <1>1, <1>2, <1>r, <1>4, <2>1, <2>2 DEF Show, Points
  <2>4. TypeThread'
    BY <1>0, <1>1, <1>2, <2>1
  <2>5. Frame(d)
    BY <1>0, <1>1, <1>2, <1>r, <1>4, <2>1 DEF Show
  <2> QED
    BY <1>2, <2>3, <2>4, <2>5, TypeParts
<1>5. CASE Resumes(d, k)
  <2>1. "first" \in Points /\ "ask" \in Points /\ "text" \in Points
    BY DEF Points
  <2> QED
    BY <1>3, <1>4, <1>5, <1>k, <2>1 DEF Resumes, Show
<1>6. CASE GoTo(d, "bind") /\ UNCHANGED <<thread, prompt, input, carried, answered>>
  <2>1. prompt' = [prompt EXCEPT ![d] = prompt[d]] /\ prompt[d] \in 0..MaxGates /\ "bind" \in Points
    BY <1>0, <1>6 DEF Points
  <2> QED
    BY <1>3, <1>6, <2>1
<1> QED
  BY <1>5, <1>6 DEF Resume
\* A driver that is there goes on: what its step may do to the thread.
LEMMA SoundGoesOn ==
  ASSUME ThreadInv, NEW d \in Drivers, pc[d] # "off", TypeDrivers', TypeThread', Frame(d),
         overlapped' = overlapped
  PROVE  Sound(d)
BY Alone, TypeParts DEF ThreadInv, Sound

\* --force-rebind writes a checkpoint with the driver's binding, and shows the gate it has.
LEMMA RebindEffect ==
  ASSUME TypeOK, NEW d \in Drivers, Rebind(d)
  PROVE  /\ thread' \in Checkpoint
         /\ thread'.binding = bound[d]
         /\ prompt' = [prompt EXCEPT ![d] = PendingInterrupt']
         /\ PendingInterrupt' \in 0..MaxGates
         /\ \E p \in {"first", "ask", "text", "pass"} : pc' = [pc EXCEPT ![d] = p] /\
              (p = "first" => kind[d] = "chat") /\ (p = "text" => kind[d] = "chat")
         /\ input' = [input EXCEPT ![d] = "continue"]
         /\ carried' = [carried EXCEPT ![d] = bound[d]]
         /\ UNCHANGED <<row, seen, driver, history>>
<1>1. PICK g \in {PendingInterrupt, 0} :
        /\ thread' = [thread EXCEPT !.binding = bound[d], !.gate = g,
                                    !.next = IF @ = "gate" /\ g = 0 THEN "mid" ELSE @]
        /\ Show(d, g)
        /\ GoTo(d, IF g # 0 THEN (IF kind[d] = "chat" THEN "first" ELSE "ask")
                   ELSE IF kind[d] = "chat" THEN "text" ELSE "pass")
        /\ input' = [input EXCEPT ![d] = "continue"]
        /\ carried' = [carried EXCEPT ![d] = bound[d]]
  BY DEF Rebind
<1>2. thread \in Checkpoint /\ bound[d] \in Bindings \cup {None} /\ PendingInterrupt \in 0..MaxGates
  BY TypeParts, PendingTyped DEF Rebind, TypeThread, TypeDrivers
<1>3. PICK n \in {"mid", "gate", "end"} :
        /\ n = IF thread.next = "gate" /\ g = 0 THEN "mid" ELSE thread.next
        /\ thread' = [next |-> n, gate |-> g, binding |-> bound[d]]
  BY <1>1, <1>2 DEF Checkpoint
<1>g. g \in 0..MaxGates
  BY <1>1, <1>2
<1>4. thread' \in Checkpoint /\ thread'.binding = bound[d]
  BY <1>2, <1>3, <1>g DEF Checkpoint
<1>6. thread' # None
  BY <1>4, NoCheckpoint
<1>5. PendingInterrupt' = g
  <2>1. PendingInterrupt # 0 => thread.next = "gate"
    BY DEF PendingInterrupt
  <2>2. thread'.next = n /\ thread'.gate = g
    BY <1>3
  <2>3. CASE g # 0
    <3>1. n = "gate"
      BY <1>1, <1>3, <2>1, <2>3
    <3> QED
      BY <1>6, <2>2, <3>1 DEF PendingInterrupt
  <2>4. CASE g = 0
    <3>1. n # "gate"
      BY <1>2, <1>3, <2>4
    <3> QED
      BY <2>2, <2>4, <3>1 DEF PendingInterrupt
  <2> QED
    BY <2>3, <2>4
<1>7. \E p \in {"first", "ask", "text", "pass"} : pc' = [pc EXCEPT ![d] = p] /\
         (p = "first" => kind[d] = "chat") /\ (p = "text" => kind[d] = "chat")
  BY <1>1 DEF GoTo
<1>8. prompt' = [prompt EXCEPT ![d] = PendingInterrupt']
  BY <1>1, <1>5 DEF Show
<1> QED
  BY <1>1, <1>4, <1>5, <1>g, <1>7, <1>8 DEF Rebind
\* The rebind of a resumed driver.
LEMMA SoundRebind ==
  ASSUME ThreadInv, NEW d \in Drivers, Rebind(d)
  PROVE  Sound(d)
<1>0. TypeOK /\ TypeDrivers /\ TypeThread
  BY TypeParts DEF ThreadInv
<1>1. /\ thread' \in Checkpoint
      /\ prompt' = [prompt EXCEPT ![d] = PendingInterrupt']
      /\ PendingInterrupt' \in 0..MaxGates
      /\ \E p \in {"first", "ask", "text", "pass"} : pc' = [pc EXCEPT ![d] = p]
      /\ input' = [input EXCEPT ![d] = "continue"]
      /\ carried' = [carried EXCEPT ![d] = bound[d]]
      /\ UNCHANGED <<row, seen, driver, history>>
  BY <1>0, RebindEffect
<1>2. TypeDrivers'
  BY <1>0, <1>1 DEF TypeDrivers, driver, Points, Inputs
<1>3. TypeThread' /\ overlapped' = overlapped
  BY <1>0, <1>1 DEF TypeThread, history
<1>4. Frame(d)
  BY <1>0, <1>1 DEF Frame, TypeDrivers, driver
<1>5. pc[d] # "off"
  BY DEF Rebind
<1> QED
  BY <1>2, <1>3, <1>4, <1>5, SoundGoesOn

\* What is given to the pass by an answer, a chat's message or the browser's text.
GivenBy(d) ==
  IF pc[d] \in {"ask", "first"} THEN (IF pc[d] = "first" THEN "first answer" ELSE "answer")
  ELSE IF kind[d] = "chat" THEN (IF thread = None THEN "task" ELSE "message")
  ELSE (IF prompt[d] # 0 THEN "answer" ELSE "task")

\* The three ways to give a pass its input start it on the thread as it stands.
LEMMA GivesEffect ==
  ASSUME TypeOK, NEW d \in Drivers, GiveAnswer(d) \/ ChatText(d) \/ SocketText(d)
  PROVE  /\ pc[d] \in {"ask", "first", "text"}
         /\ GivenBy(d) \in Inputs
         /\ GivenBy(d) # "task" => thread # None
         /\ \E b \in {None, bound[d]} : /\ Stream(d, GivenBy(d), b)
                                        /\ GivenBy(d) = "task" => b = bound[d]
         /\ UNCHANGED <<row, seen, driver, prompt, gates, starts, turns, overlapped>>
<1> USE DEF GivenBy, Inputs, Replies
<1>1. CASE GiveAnswer(d)
  BY <1>1 DEF GiveAnswer
<1>2. CASE ChatText(d)
  BY <1>2 DEF ChatText
<1>3. CASE SocketText(d)
  BY <1>3 DEF SocketText
<1> QED
  BY <1>1, <1>2, <1>3

\* The start of such a pass, spelled out.
LEMMA GivenPass ==
  ASSUME TypeOK, NEW d \in Drivers, GiveAnswer(d) \/ ChatText(d) \/ SocketText(d)
  PROVE  /\ pc' = [pc EXCEPT ![d] = "pass"]
         /\ input' = [input EXCEPT ![d] = GivenBy(d)]
         /\ thread' \in Checkpoint
         /\ carried' = [carried EXCEPT ![d] = thread'.binding]
         /\ thread'.binding = IF GivenBy(d) = "task" THEN bound[d] ELSE thread.binding
         /\ answered' \in SUBSET ((1..MaxGates) \X (0..MaxGates))
         /\ \A a \in answered' : a \in answered \/ a = <<PendingInterrupt, prompt[d]>>
         /\ ~(GivenBy(d) \in Replies) => answered' = answered
         /\ UNCHANGED <<row, seen, driver, prompt, gates, starts, turns, overlapped>>
<1>1. PICK b \in {None, bound[d]} : /\ Stream(d, GivenBy(d), b)
                                    /\ GivenBy(d) = "task" => b = bound[d]
  BY GivesEffect
<1>2. b \in Bindings \cup {None}
  BY DEF TypeOK
<1>3. GivenBy(d) \in Inputs /\ (GivenBy(d) # "task" => thread # None)
  BY GivesEffect
<1>4. UNCHANGED <<row, seen, driver, prompt, gates, starts, turns, overlapped>>
  BY GivesEffect
<1> HIDE DEF GivenBy
<1> QED
  BY <1>1, <1>2, <1>3, <1>4, StreamEffect

\* Giving a pass its input.
LEMMA SoundGives ==
  ASSUME ThreadInv, NEW d \in Drivers, GiveAnswer(d) \/ ChatText(d) \/ SocketText(d)
  PROVE  Sound(d)
<1>0. TypeOK /\ TypeDrivers /\ TypeThread
  BY TypeParts DEF ThreadInv
<1>1. /\ pc' = [pc EXCEPT ![d] = "pass"]
      /\ input' = [input EXCEPT ![d] = GivenBy(d)]
      /\ thread' \in Checkpoint
      /\ carried' = [carried EXCEPT ![d] = thread'.binding]
      /\ answered' \in SUBSET ((1..MaxGates) \X (0..MaxGates))
      /\ UNCHANGED <<row, seen, driver, prompt, gates, starts, turns, overlapped>>
  BY <1>0, GivenPass
<1>2. thread'.binding \in Bindings \cup {None} /\ GivenBy(d) \in Inputs /\ pc[d] # "off"
  BY <1>0, <1>1, GivesEffect DEF Checkpoint
<1>3. TypeDrivers'
  BY <1>0, <1>1, <1>2 DEF TypeDrivers, driver, Points
<1>4. TypeThread' /\ overlapped' = overlapped
  BY <1>0, <1>1 DEF TypeThread
<1>5. Frame(d)
  BY <1>0, <1>1 DEF Frame, TypeDrivers, driver
<1> QED
  BY <1>2, <1>3, <1>4, <1>5, SoundGoesOn

\* The end of a pass, and a pass that is cut short.
LEMMA SoundPass ==
  ASSUME ThreadInv, NEW d \in Drivers, PassEnds(d) \/ PassStops(d)
  PROVE  Sound(d)
<1>0. TypeOK /\ TypeDrivers /\ TypeThread
  BY TypeParts DEF ThreadInv
<1>1. pc[d] # "off" /\ carried[d] \in Bindings \cup {None}
  BY <1>0 DEF PassEnds, PassStops, TypeDrivers
<1>2. CASE PassEnds(d)
  <2>1. thread' \in Checkpoint /\ gates' \in 0..MaxGates
    <3>1. CASE thread' = [next |-> "end", gate |-> 0, binding |-> carried[d]] /\ gates' = gates
      BY <1>0, <1>1, <3>1 DEF Checkpoint, TypeThread
    <3>2. CASE /\ gates < MaxGates /\ gates' = gates + 1
               /\ thread' = [next |-> "gate", gate |-> gates + 1, binding |-> carried[d]]
      BY <1>0, <1>1, <3>2 DEF Checkpoint, TypeThread
    <3> QED
      BY <1>2, <3>1, <3>2 DEF PassEnds
  <2>2. TypeDrivers' /\ Frame(d)
    BY <1>0, <1>2 DEF TypeDrivers, PassEnds, GoTo, Frame, driver, Points, Inputs
  <2>3. TypeThread' /\ overlapped' = overlapped
    BY <1>0, <1>2, <2>1 DEF TypeThread, PassEnds
  <2> QED
    BY <1>1, <2>2, <2>3, SoundGoesOn
<1>3. CASE PassStops(d)
  <2>1. [next |-> "mid", gate |-> 0, binding |-> carried[d]] \in Checkpoint
    BY <1>1 DEF Checkpoint
  <2>2. thread' \in Checkpoint \cup {None}
    BY <1>0, <1>3, <2>1 DEF PassStops, TypeThread
  <2>3. TypeDrivers' /\ Frame(d)
    BY <1>0, <1>3, ExitsEffect DEF PassStops
  <2>4. TypeThread' /\ overlapped' = overlapped
    BY <1>0, <1>3, <2>2 DEF TypeThread, PassStops, history
  <2> QED
    BY <1>1, <2>3, <2>4, SoundGoesOn
<1> QED
  BY <1>2, <1>3

\* Looking at the snapshot after a pass.
LEMMA SoundLook ==
  ASSUME ThreadInv, NEW d \in Drivers, LookInRun(d) \/ LookInChat(d) \/ LookInSocket(d)
  PROVE  Sound(d)
<1>0. TypeOK /\ TypeDrivers /\ TypeThread
  BY TypeParts DEF ThreadInv
<1>1. PendingInterrupt \in 0..MaxGates /\ pc[d] # "off"
  BY <1>0, PendingTyped DEF LookInRun, LookInChat, LookInSocket
<1>2. /\ UNCHANGED <<thread, row, gates, starts, answered, overlapped>>
      /\ turns' \in 0..MaxTurns
  BY <1>0 DEF LookInRun, LookInChat, LookInSocket, history, TypeThread
<1>3. TypeThread'
  BY <1>0, <1>2 DEF TypeThread
<1>4. ASSUME NEW g \in 0..MaxGates, NEW p \in {"ask", "index", "text"}, Show(d, g), GoTo(d, p),
             UNCHANGED <<driver, input, carried, seen>>
      PROVE  TypeDrivers' /\ Frame(d)
  BY <1>0, <1>4 DEF Show, GoTo, TypeDrivers, Frame, driver, Points
<1>5. TypeDrivers' /\ Frame(d)
  <2>1. CASE LookInRun(d)
    BY <1>0, <1>1, <1>4, <2>1, ExitsEffect DEF LookInRun
  <2>2. CASE LookInChat(d)
    BY <1>0, <1>1, <1>4, <2>2, ExitsEffect DEF LookInChat
  <2>3. CASE LookInSocket(d)
    BY <1>0, <1>1, <1>4, <2>3 DEF LookInSocket
  <2> QED
    BY <2>1, <2>2, <2>3
<1> QED
  BY <1>1, <1>2, <1>3, <1>5, SoundGoesOn

\* A chat that is counting is one of those counted as missing.
LEMMA Counting ==
  ASSUME TypeOK, CountInv, NEW d \in Drivers, pc[d] \in {"index", "count"}
  PROVE  Cardinality(Uncounted) \in Nat \ {0}
<1>1. d \in Uncounted
  BY DEF Uncounted
<1>2. IsFiniteSet(Uncounted)
  BY DEF CountInv
<1> HIDE DEF Uncounted
<1>3. Cardinality(Uncounted) \in Nat /\ (Cardinality(Uncounted) = 0 <=> Uncounted = {})
  BY <1>2, FS_CardinalityType, FS_EmptySet
<1> QED
  BY <1>1, <1>3

\* The row of the session index, read and written.
LEMMA SoundUpsert ==
  ASSUME ThreadInv, NEW d \in Drivers, UpsertRead(d) \/ UpsertWrite(d)
  PROVE  Sound(d)
<1>0. TypeOK /\ TypeDrivers /\ TypeThread
  BY TypeParts DEF ThreadInv
<1>1. pc[d] # "off" /\ row \in 0..MaxTurns /\ seen[d] \in 0..MaxTurns /\ turns \in 0..MaxTurns
  BY <1>0 DEF UpsertRead, UpsertWrite, TypeDrivers, TypeThread
<1>2. CASE UpsertRead(d)
  <2>1. TypeDrivers' /\ Frame(d)
    BY <1>0, <1>1, <1>2 DEF UpsertRead, GoTo, TypeDrivers, Frame, driver, Points
  <2>2. TypeThread' /\ overlapped' = overlapped
    BY <1>0, <1>2 DEF UpsertRead, TypeThread, history
  <2> QED
    BY <1>1, <2>1, <2>2, SoundGoesOn
<1>3. CASE UpsertWrite(d)
  <2>1. seen[d] + Cardinality(Uncounted) <= turns /\ Cardinality(Uncounted) \in Nat \ {0}
    BY <1>0, <1>3, Counting DEF UpsertWrite, ThreadInv, CountInv
  <2>2. row' \in 0..MaxTurns
    BY <1>1, <1>3, <2>1 DEF UpsertWrite
  <2>3. TypeDrivers' /\ Frame(d)
    <3>1. CASE Exits(d)
      BY <1>0, <3>1, ExitsEffect
    <3>2. CASE /\ seen' = [seen EXCEPT ![d] = 0]
               /\ GoTo(d, "text")
               /\ UNCHANGED <<driver, prompt, input, carried>>
      BY <1>0, <3>2 DEF GoTo, TypeDrivers, Frame, driver, Points
    <3> QED
      BY <1>3, <3>1, <3>2 DEF UpsertWrite
  <2>4. TypeThread' /\ overlapped' = overlapped
    BY <1>0, <1>3, <2>2 DEF UpsertWrite, TypeThread, history
  <2> QED
    BY <1>1, <2>3, <2>4, SoundGoesOn
<1> QED
  BY <1>2, <1>3

\* Leaving, and agent-os session delete once it is confirmed.
LEMMA SoundLeaves ==
  ASSUME ThreadInv, NEW d \in Drivers, Leave(d) \/ DeleteThread(d) \/ DeleteSession(d)
  PROVE  Sound(d)
<1>0. TypeOK /\ TypeDrivers /\ TypeThread
  BY TypeParts DEF ThreadInv
<1>1. CASE Leave(d) \/ DeleteSession(d)
  <2>1. TypeDrivers' /\ Frame(d) /\ pc[d] # "off"
    BY <1>0, <1>1, ExitsEffect DEF Leave, DeleteSession
  <2>2. TypeThread' /\ overlapped' = overlapped
    BY <1>0, <1>1 DEF Leave, DeleteSession, TypeThread, history
  <2> QED
    BY <2>1, <2>2, SoundGoesOn
<1>2. CASE DeleteThread(d)
  <2>1. TypeDrivers' /\ Frame(d) /\ pc[d] # "off"
    BY <1>0, <1>2 DEF DeleteThread, GoTo, TypeDrivers, Frame, driver, Points
  <2>2. TypeThread' /\ overlapped' = overlapped
    BY <1>0, <1>2 DEF DeleteThread, TypeThread, history
  <2> QED
    BY <2>1, <2>2, SoundGoesOn
<1> QED
  BY <1>1, <1>2

\* Every step of a driver.
LEMMA SoundStep ==
  ASSUME ThreadInv, NEW d \in Drivers, Step(d)
  PROVE  Sound(d)
<1>1. CASE \E b \in Bindings : RunTask(d, b) \/ OpenChat(d, b) \/ Connect(d, b)
  BY <1>1, SoundStarts
<1>2. CASE AskDelete(d)
  <2>1. None \in Bindings \cup {None}
    OBVIOUS
  <2> QED
    BY <1>2, <2>1, SoundStarts
<1>3. CASE \E k \in {"run", "chat"}, b \in Bindings, force \in BOOLEAN : Resume(d, k, b, force)
  BY <1>3, SoundResume
<1> QED
  BY <1>1, <1>2, <1>3, SoundRebind, SoundGives, SoundPass, SoundLook, SoundUpsert, SoundLeaves
     DEF Step
-----------------------------------------------------------------------------
(* The prompt, the binding and the kind of the driver that steps.          *)

\* What has to hold of the driver that stepped, and of the answers given.
PromptOf(d)  == ~overlapped /\ AtPrompt(d) => prompt[d] = PendingInterrupt
BindingOf(d) ==
  ~overlapped /\ resumed[d] /\ pc[d] \notin {"off", "bind"} =>
    /\ thread # None => thread.binding = bound[d]
    /\ pc[d] = "pass" => carried[d] = bound[d]
KindOf(d) ==
  /\ pc[d] \in {"first", "index", "count"} => kind[d] = "chat"
  /\ input[d] = "first answer" => pc[d] = "pass" /\ kind[d] = "chat"

\* It is enough to look at the driver that stepped: while nobody has overlapped
\* the others are off.
LEMMA OthersAreOff ==
  ASSUME ThreadInv, NEW d \in Drivers, Sound(d), PromptOf(d)', BindingOf(d)', KindOf(d)'
  PROVE  OneDriver' /\ PromptInv' /\ BoundInv' /\ KindInv'
<1>1. ASSUME ~overlapped', NEW u \in Drivers \ {d}
      PROVE  pc'[u] = "off"
  BY <1>1 DEF Sound, Frame
<1>2. OneDriver'
  BY <1>1 DEF OneDriver
<1>3. PromptInv'
  BY <1>1 DEF PromptInv, PromptOf, AtPrompt
<1>4. BoundInv'
  BY <1>1 DEF BoundInv, BindingOf
<1>5. KindInv'
  BY DEF ThreadInv, KindInv, KindOf, Sound, Frame
<1> QED
  BY <1>2, <1>3, <1>4, <1>5

\* A new driver that was not resumed.
LEMMA InvStarts ==
  ASSUME ThreadInv, NEW d \in Drivers, NEW b \in Bindings \cup {None},
         RunTask(d, b) \/ OpenChat(d, b) \/ Connect(d, b) \/ AskDelete(d)
  PROVE  PromptOf(d)' /\ BindingOf(d)' /\ KindOf(d)'
<1> USE DEF PromptOf, BindingOf, KindOf, AtPrompt
<1>0. TypeOK /\ TypeDrivers
  BY TypeParts DEF ThreadInv
<1>1. pc[d] = "off" /\ resumed'[d] = FALSE /\ input[d] # "first answer"
  <2>1. pc[d] = "off" /\ resumed' = [resumed EXCEPT ![d] = FALSE]
    BY DEF RunTask, OpenChat, Connect, AskDelete, Begins
  <2> QED
    BY <1>0, <2>1 DEF TypeDrivers, ThreadInv, KindInv
<1>2. CASE RunTask(d, b)
  BY <1>0, <1>1, <1>2 DEF RunTask, Begins, Stream, GoTo, Show, TypeDrivers
<1>3. CASE OpenChat(d, b)
  BY <1>0, <1>1, <1>3 DEF OpenChat, Begins, GoTo, Show, TypeDrivers
<1>4. CASE Connect(d, b)
  <2>1. PendingInterrupt' = PendingInterrupt
    BY <1>4 DEF Connect, PendingInterrupt
  <2> QED
    BY <1>0, <1>1, <1>4, <2>1 DEF Connect, Begins, GoTo, Show, TypeDrivers
<1>5. CASE AskDelete(d)
  BY <1>0, <1>1, <1>5 DEF AskDelete, Begins, GoTo, TypeDrivers
<1> QED
  BY <1>2, <1>3, <1>4, <1>5

\* A resumed driver: without a conflict the checkpoint carries its binding.
LEMMA InvResume ==
  ASSUME ThreadInv, NEW d \in Drivers, NEW k \in {"run", "chat"}, NEW b \in Bindings,
         NEW force \in BOOLEAN, Resume(d, k, b, force)
  PROVE  PromptOf(d)' /\ BindingOf(d)' /\ KindOf(d)'
<1> USE DEF PromptOf, BindingOf, KindOf, AtPrompt
<1>0. TypeOK /\ TypeDrivers
  BY TypeParts DEF ThreadInv
<1>1. /\ pc[d] = "off" /\ kind'[d] = k /\ bound'[d] = b /\ input[d] # "first answer"
      /\ thread # None
  <2>1. pc[d] = "off" /\ kind' = [kind EXCEPT ![d] = k] /\ bound' = [bound EXCEPT ![d] = b]
    BY DEF Resume, Begins
  <2> QED
    BY <1>0, <2>1 DEF TypeDrivers, ThreadInv, KindInv, Resume
<1>2. CASE GoTo(d, "bind") /\ UNCHANGED <<thread, prompt, input, carried, answered>>
  BY <1>0, <1>1, <1>2 DEF GoTo, TypeDrivers
<1>3. CASE ~Conflict(b) /\ Resumes(d, k)
  <2>1. thread.binding = b
    BY <1>3 DEF Conflict
  <2>2. ASSUME PendingInterrupt # 0, Show(d, PendingInterrupt),
               GoTo(d, IF k = "chat" THEN "first" ELSE "ask"),
               UNCHANGED <<thread, input, carried, answered>>
        PROVE  PromptOf(d)' /\ BindingOf(d)' /\ KindOf(d)'
    <3>1. PendingInterrupt' = PendingInterrupt
      BY <2>2 DEF PendingInterrupt
    <3> QED
      BY <1>0, <1>1, <2>1, <2>2, <3>1 DEF Show, GoTo, TypeDrivers
  <2>3. ASSUME Show(d, 0), Stream(d, "continue", None)
        PROVE  PromptOf(d)' /\ BindingOf(d)' /\ KindOf(d)'
    <3>1. /\ pc' = [pc EXCEPT ![d] = "pass"]
          /\ input' = [input EXCEPT ![d] = "continue"]
          /\ carried' = [carried EXCEPT ![d] = thread'.binding]
          /\ thread'.binding = thread.binding
      <4>1. "continue" \in Inputs /\ "continue" # "task" /\ None \in Bindings \cup {None}
        BY DEF Inputs
      <4> QED
        BY <1>0, <1>1, <2>3, <4>1, StreamEffect
    <3> QED
      BY <1>0, <1>1, <2>1, <3>1 DEF TypeDrivers
  <2>4. ASSUME k = "chat", Show(d, 0), GoTo(d, "text"), UNCHANGED <<thread, input, carried, answered>>
        PROVE  PromptOf(d)' /\ BindingOf(d)' /\ KindOf(d)'
    BY <1>0, <1>1, <2>1, <2>4 DEF GoTo, TypeDrivers
  <2> QED
    BY <1>3, <2>2, <2>3, <2>4 DEF Resumes
<1> QED
  BY <1>2, <1>3 DEF Resume

\* A rebind and the passes that are given their input.
LEMMA InvPasses ==
  ASSUME ThreadInv, NEW d \in Drivers, Rebind(d) \/ GiveAnswer(d) \/ ChatText(d) \/ SocketText(d)
  PROVE  PromptOf(d)' /\ BindingOf(d)' /\ KindOf(d)'
<1>0. TypeOK /\ TypeDrivers
  BY TypeParts DEF ThreadInv
<1>1. CASE Rebind(d)
  <2>1. PICK p \in {"first", "ask", "text", "pass"} :
          /\ pc' = [pc EXCEPT ![d] = p]
          /\ p = "first" => kind[d] = "chat"
          /\ p = "text" => kind[d] = "chat"
    BY <1>0, <1>1, RebindEffect
  <2>2. /\ thread'.binding = bound[d]
        /\ prompt' = [prompt EXCEPT ![d] = PendingInterrupt']
        /\ input' = [input EXCEPT ![d] = "continue"]
        /\ carried' = [carried EXCEPT ![d] = bound[d]]
        /\ kind' = kind /\ bound' = bound
    BY <1>0, <1>1, RebindEffect DEF driver
  <2>3. pc'[d] = p /\ prompt'[d] = PendingInterrupt' /\ input'[d] = "continue" /\ carried'[d] = bound[d]
    BY <1>0, <2>1, <2>2 DEF TypeDrivers
  <2> QED
    BY <2>1, <2>2, <2>3 DEF PromptOf, BindingOf, KindOf, AtPrompt
<1>2. CASE GiveAnswer(d) \/ ChatText(d) \/ SocketText(d)
  <2>1. /\ pc' = [pc EXCEPT ![d] = "pass"]
        /\ input' = [input EXCEPT ![d] = GivenBy(d)]
        /\ carried' = [carried EXCEPT ![d] = thread'.binding]
        /\ thread'.binding = IF GivenBy(d) = "task" THEN bound[d] ELSE thread.binding
        /\ kind' = kind /\ bound' = bound /\ resumed' = resumed /\ overlapped' = overlapped
    BY <1>0, <1>2, GivenPass DEF driver
  <2>2. /\ pc[d] \in {"ask", "first", "text"}
        /\ GivenBy(d) # "task" => thread # None
    BY <1>0, <1>2, GivesEffect
  <2>3. pc'[d] = "pass" /\ input'[d] = GivenBy(d) /\ carried'[d] = thread'.binding
    BY <1>0, <2>1 DEF TypeDrivers
  <2>4. BindingOf(d)'
    BY <2>1, <2>2, <2>3 DEF ThreadInv, BoundInv, BindingOf
  <2>5. KindOf(d)'
    <3>1. GivenBy(d) = "first answer" => pc[d] = "first"
      BY DEF GivenBy
    <3>2. pc[d] = "first" => kind[d] = "chat"
      BY DEF ThreadInv, KindInv
    <3> QED
      BY <2>1, <2>3, <3>1, <3>2 DEF KindOf
  <2>6. PromptOf(d)'
    BY <2>3 DEF PromptOf, AtPrompt
  <2> QED
    BY <2>4, <2>5, <2>6
<1> QED
  BY <1>1, <1>2

\* The end of a pass and what follows it.
LEMMA InvFollows ==
  ASSUME ThreadInv, NEW d \in Drivers,
         \/ PassEnds(d) \/ LookInRun(d) \/ LookInChat(d) \/ LookInSocket(d)
         \/ UpsertRead(d) \/ UpsertWrite(d) \/ DeleteThread(d)
         \/ PassStops(d) \/ Leave(d) \/ DeleteSession(d)
  PROVE  PromptOf(d)' /\ BindingOf(d)' /\ KindOf(d)'
<1>0. TypeOK /\ TypeDrivers
  BY TypeParts DEF ThreadInv
<1>1. CASE Exits(d)
  <2>1. pc'[d] = "off" /\ input'[d] = "continue"
    BY <1>0, <1>1, ExitsEffect
  <2> QED
    BY <2>1 DEF PromptOf, BindingOf, KindOf, AtPrompt
<1>2. CASE PassEnds(d)
  <2>0. thread'.binding = carried[d]
    <3>1. \/ thread' = [next |-> "end", gate |-> 0, binding |-> carried[d]]
          \/ thread' = [next |-> "gate", gate |-> gates + 1, binding |-> carried[d]]
      BY <1>2 DEF PassEnds
    <3> QED
      BY <3>1
  <2>1. /\ pc[d] = "pass" /\ input'[d] = "continue"
        /\ pc'[d] = IF input[d] = "first answer" THEN "text" ELSE "look"
        /\ UNCHANGED <<kind, resumed, bound, overlapped>>
    BY <1>0, <1>2 DEF PassEnds, GoTo, TypeDrivers, driver
  <2>2. input[d] = "first answer" => kind[d] = "chat"
    BY DEF ThreadInv, KindInv
  <2> QED
    BY <2>0, <2>1, <2>2 DEF PromptOf, BindingOf, KindOf, AtPrompt, ThreadInv, BoundInv
<1>3. ASSUME pc[d] \notin {"off", "bind", "pass"}, NEW p \in Points \ {"off", "bind", "pass", "first"},
             pc' = [pc EXCEPT ![d] = p],
             thread' \in {thread, None}, UNCHANGED <<driver, input, overlapped>>,
             p \in {"index", "count"} => kind[d] = "chat",
             p = "ask" \/ (p = "text" /\ kind[d] = "socket") =>
                prompt'[d] = PendingInterrupt /\ thread' = thread
      PROVE  PromptOf(d)' /\ BindingOf(d)' /\ KindOf(d)'
  <2>1. pc'[d] = p
    BY <1>0, <1>3 DEF TypeDrivers
  <2>2. thread' = thread => PendingInterrupt' = PendingInterrupt
    BY DEF PendingInterrupt
  <2>3. PromptOf(d)'
    BY <1>3, <2>1, <2>2 DEF PromptOf, AtPrompt, driver
  <2>4. BindingOf(d)'
    BY <1>3, <2>1 DEF BindingOf, ThreadInv, BoundInv, driver
  <2>5. KindOf(d)'
    BY <1>3, <2>1 DEF KindOf, ThreadInv, KindInv, driver
  <2> QED
    BY <2>3, <2>4, <2>5
<1>4. CASE LookInRun(d)
  <2>1. CASE Show(d, PendingInterrupt) /\ GoTo(d, "ask") /\ UNCHANGED <<driver, input, carried, seen>>
    BY <1>0, <1>3, <1>4, <2>1 DEF LookInRun, Show, GoTo, TypeDrivers, Points, history
  <2> QED
    BY <1>1, <1>4, <2>1 DEF LookInRun
<1>5. CASE LookInChat(d)
  <2>1. CASE Show(d, PendingInterrupt) /\ GoTo(d, "ask") /\ UNCHANGED <<driver, input, carried, seen>>
    BY <1>0, <1>3, <1>5, <2>1 DEF LookInChat, Show, GoTo, TypeDrivers, Points
  <2>2. CASE Show(d, 0) /\ GoTo(d, "index") /\ UNCHANGED <<driver, input, carried, seen>>
    BY <1>0, <1>3, <1>5, <2>2 DEF LookInChat, GoTo, Points
  <2> QED
    BY <1>1, <1>5, <2>1, <2>2 DEF LookInChat
<1>6. CASE LookInSocket(d)
  BY <1>0, <1>3, <1>6 DEF LookInSocket, Show, GoTo, TypeDrivers, Points, history
<1>7. CASE UpsertRead(d)
  BY <1>3, <1>7 DEF UpsertRead, GoTo, Points, history, ThreadInv, KindInv
<1>8. CASE UpsertWrite(d)
  <2>1. CASE GoTo(d, "text") /\ UNCHANGED <<driver, prompt, input, carried>>
    BY <1>3, <1>8, <2>1 DEF UpsertWrite, GoTo, Points, history, ThreadInv, KindInv
  <2> QED
    BY <1>1, <1>8, <2>1 DEF UpsertWrite
<1>9. CASE DeleteThread(d)
  BY <1>3, <1>9 DEF DeleteThread, GoTo, Points, history
<1>10. CASE PassStops(d) \/ Leave(d) \/ DeleteSession(d)
  BY <1>1, <1>10 DEF PassStops, Leave, DeleteSession
<1> QED
  BY <1>2, <1>4, <1>5, <1>6, <1>7, <1>8, <1>9, <1>10

\* Every step of a driver.
LEMMA InvStep ==
  ASSUME ThreadInv, NEW d \in Drivers, Step(d)
  PROVE  PromptOf(d)' /\ BindingOf(d)' /\ KindOf(d)'
<1>1. CASE \E b \in Bindings : RunTask(d, b) \/ OpenChat(d, b) \/ Connect(d, b)
  BY <1>1, InvStarts
<1>2. CASE AskDelete(d)
  <2>1. None \in Bindings \cup {None}
    OBVIOUS
  <2> QED
    BY <1>2, <2>1, InvStarts
<1>3. CASE \E k \in {"run", "chat"}, b \in Bindings, force \in BOOLEAN : Resume(d, k, b, force)
  BY <1>3, InvResume
<1> QED
  BY <1>1, <1>2, <1>3, InvPasses, InvFollows DEF Step
-----------------------------------------------------------------------------
(* Counting turns.                                                         *)

\* A step that leaves d with nothing to count, and the index no higher.
LEMMA CountShrinks ==
  ASSUME ThreadInv, NEW d \in Drivers, Sound(d), pc'[d] \notin {"index", "count"},
         row' <= row, turns' = turns
  PROVE  CountInv'
<1>0. TypeOK /\ TypeOK' /\ Frame(d)
  BY DEF ThreadInv, Sound
<1>1. IsFiniteSet(Uncounted)
  BY DEF ThreadInv, CountInv
<1>2. Uncounted' \in SUBSET Uncounted
  BY <1>0 DEF Uncounted, Frame
<1>3. /\ IsFiniteSet(Uncounted') /\ Cardinality(Uncounted') \in Nat /\ Cardinality(Uncounted) \in Nat
      /\ Cardinality(Uncounted') <= Cardinality(Uncounted)
  BY <1>1, <1>2, FS_Subset, FS_CardinalityType
<1>4. row \in Nat /\ row' \in Nat /\ turns \in Nat /\ \A u \in Drivers : seen[u] \in Nat
  BY <1>0 DEF TypeOK
<1>5. \A u \in Drivers : pc'[u] = "count" => pc[u] = "count" /\ seen'[u] = seen[u]
  BY <1>0 DEF Frame
<1>6. row' + Cardinality(Uncounted') <= turns'
  BY <1>3, <1>4 DEF ThreadInv, CountInv
<1>7. \A u \in Drivers : pc'[u] = "count" => seen'[u] + Cardinality(Uncounted') <= turns'
  BY <1>3, <1>4, <1>5 DEF ThreadInv, CountInv
<1> QED
  BY <1>3, <1>6, <1>7 DEF CountInv

\* A finished turn is one more turn and one more to count.
LEMMA CountLook ==
  ASSUME ThreadInv, NEW d \in Drivers, Sound(d), LookInChat(d)
  PROVE  CountInv'
<1>0. TypeOK /\ TypeOK' /\ Frame(d) /\ pc[d] = "look" /\ row' = row
  BY DEF ThreadInv, Sound, LookInChat
<1>1. CASE turns' = turns /\ pc'[d] \notin {"index", "count"}
  <2>1. row' <= row
    BY <1>0 DEF TypeOK
  <2> QED
    BY <1>1, <2>1, CountShrinks
<1>2. CASE turns' = turns + 1 /\ pc'[d] = "index"
  <2>1. IsFiniteSet(Uncounted) /\ d \notin Uncounted
    BY <1>0 DEF ThreadInv, CountInv, Uncounted
  <2>2. Uncounted' = Uncounted \cup {d}
    BY <1>0, <1>2 DEF Uncounted, Frame
  <2>3. /\ IsFiniteSet(Uncounted') /\ Cardinality(Uncounted) \in Nat
        /\ Cardinality(Uncounted') = Cardinality(Uncounted) + 1
    BY <2>1, <2>2, FS_AddElement, FS_CardinalityType
  <2>4. row \in Nat /\ turns \in Nat /\ \A u \in Drivers : seen[u] \in Nat
    BY <1>0 DEF TypeOK
  <2>5. \A u \in Drivers : pc'[u] = "count" => pc[u] = "count" /\ seen'[u] = seen[u]
    BY <1>0, <1>2 DEF Frame
  <2>6. row' + Cardinality(Uncounted') <= turns'
    BY <1>0, <1>2, <2>3, <2>4 DEF ThreadInv, CountInv
  <2>7. \A u \in Drivers : pc'[u] = "count" => seen'[u] + Cardinality(Uncounted') <= turns'
    BY <1>2, <2>3, <2>4, <2>5 DEF ThreadInv, CountInv
  <2> QED
    BY <2>3, <2>6, <2>7 DEF CountInv
<1>3. \/ turns' = turns /\ pc'[d] \notin {"index", "count"}
      \/ turns' = turns + 1 /\ pc'[d] = "index"
  <2>1. pc \in [Drivers -> Points]
    BY <1>0 DEF TypeOK
  <2> QED
    BY <2>1 DEF LookInChat, GoTo, Exits
<1> QED
  BY <1>1, <1>2, <1>3

\* Reading the row takes over its bound.
LEMMA CountRead ==
  ASSUME ThreadInv, NEW d \in Drivers, Sound(d), UpsertRead(d)
  PROVE  CountInv'
<1>0. TypeOK /\ TypeOK' /\ Frame(d)
  BY DEF ThreadInv, Sound
<1>1. /\ pc[d] = "index" /\ pc'[d] = "count" /\ seen'[d] = row /\ row' = row /\ turns' = turns
  BY <1>0 DEF UpsertRead, GoTo, TypeOK, history
<1>2. Uncounted' = Uncounted
  BY <1>0, <1>1 DEF Uncounted, Frame
<1>3. \A u \in Drivers : pc'[u] = "count" => u = d \/ (pc[u] = "count" /\ seen'[u] = seen[u])
  BY <1>0 DEF Frame
<1> HIDE DEF Uncounted
<1> QED
  BY <1>1, <1>2, <1>3 DEF ThreadInv, CountInv

\* Writing the row counts one turn and leaves one less to count.
LEMMA CountWrite ==
  ASSUME ThreadInv, NEW d \in Drivers, Sound(d), UpsertWrite(d)
  PROVE  CountInv'
<1>0. TypeOK /\ TypeOK' /\ Frame(d) /\ pc[d] = "count" /\ turns' = turns
  BY DEF ThreadInv, Sound, UpsertWrite, history
<1>1. pc'[d] \notin {"index", "count"}
  BY <1>0 DEF UpsertWrite, GoTo, Exits, TypeOK
<1>2. row \in Nat /\ turns \in Nat /\ \A u \in Drivers : seen[u] \in Nat
  BY <1>0 DEF TypeOK
<1>3. CASE row' \in {row, 0}
  <2>1. row' <= row
    BY <1>2, <1>3
  <2> QED
    BY <1>0, <1>1, <2>1, CountShrinks
<1>4. CASE row' = seen[d] + 1
  <2>1. IsFiniteSet(Uncounted) /\ d \in Uncounted
    BY <1>0 DEF ThreadInv, CountInv, Uncounted
  <2>2. Uncounted' = Uncounted \ {d}
    BY <1>0, <1>1 DEF Uncounted, Frame
  <2>3. /\ IsFiniteSet(Uncounted') /\ Cardinality(Uncounted) \in Nat
        /\ Cardinality(Uncounted') = Cardinality(Uncounted) - 1
    BY <2>1, <2>2, FS_RemoveElement, FS_CardinalityType
  <2>4. \A u \in Drivers : pc'[u] = "count" => pc[u] = "count" /\ seen'[u] = seen[u]
    BY <1>0, <1>1 DEF Frame
  <2>5. row' + Cardinality(Uncounted') <= turns'
    BY <1>0, <1>2, <1>4, <2>3 DEF ThreadInv, CountInv
  <2>6. \A u \in Drivers : pc'[u] = "count" => seen'[u] + Cardinality(Uncounted') <= turns'
    BY <1>0, <1>2, <2>3, <2>4 DEF ThreadInv, CountInv
  <2> QED
    BY <2>3, <2>5, <2>6 DEF CountInv
<1> QED
  BY <1>3, <1>4 DEF UpsertWrite

\* Every step of a driver.
LEMMA CountStep ==
  ASSUME ThreadInv, NEW d \in Drivers, Step(d), Sound(d)
  PROVE  CountInv'
<1>0. row \in Nat /\ pc \in [Drivers -> Points]
  BY DEF ThreadInv, TypeOK
<1>1. CASE LookInChat(d) \/ UpsertRead(d) \/ UpsertWrite(d)
  BY <1>1, CountLook, CountRead, CountWrite
<1>2. CASE DeleteSession(d)
  <2>1. row' <= row /\ turns' = turns /\ pc'[d] \notin {"index", "count"}
    BY <1>0, <1>2 DEF DeleteSession, Exits, GoTo, history
  <2> QED
    BY <2>1, CountShrinks
<1>3. ASSUME row' = row, turns' = turns, NEW p \in Points \ {"index", "count"}, GoTo(d, p)
      PROVE  CountInv'
  <2>1. row' <= row /\ pc'[d] \notin {"index", "count"}
    BY <1>0, <1>3 DEF GoTo
  <2> QED
    BY <1>3, <2>1, CountShrinks
<1> USE DEF Points, history
<1>4. ASSUME NEW b \in Bindings, RunTask(d, b) \/ OpenChat(d, b) \/ Connect(d, b)
      PROVE  CountInv'
  BY <1>3, <1>4 DEF RunTask, OpenChat, Connect, Stream
<1>5. ASSUME NEW k \in {"run", "chat"}, NEW b \in Bindings, NEW force \in BOOLEAN,
             Resume(d, k, b, force)
      PROVE  CountInv'
  <2>1. row' = row /\ turns' = turns
    BY <1>5 DEF Resume
  <2>2. \E p \in Points \ {"index", "count"} : GoTo(d, p)
    BY <1>5 DEF Resume, Resumes, Stream
  <2> QED
    BY <1>3, <2>1, <2>2
<1>6. CASE Rebind(d) \/ GiveAnswer(d) \/ ChatText(d) \/ SocketText(d)
  <2>1. row' = row /\ turns' = turns
    BY <1>6 DEF Rebind, GiveAnswer, ChatText, SocketText
  <2>2. \E p \in Points \ {"index", "count"} : GoTo(d, p)
    BY <1>6 DEF Rebind, GiveAnswer, ChatText, SocketText, Stream
  <2> QED
    BY <1>3, <2>1, <2>2
<1>7. CASE PassEnds(d) \/ PassStops(d) \/ LookInRun(d) \/ LookInSocket(d) \/ Leave(d)
  <2>1. row' = row /\ turns' = turns
    BY <1>7 DEF PassEnds, PassStops, LookInRun, LookInSocket, Leave
  <2>2. \E p \in Points \ {"index", "count"} : GoTo(d, p)
    BY <1>7 DEF PassEnds, PassStops, LookInRun, LookInSocket, Leave, Exits
  <2> QED
    BY <1>3, <2>1, <2>2
<1>8. CASE AskDelete(d) \/ DeleteThread(d)
  BY <1>3, <1>8 DEF AskDelete, DeleteThread
<1> QED
  BY <1>1, <1>2, <1>4, <1>5, <1>6, <1>7, <1>8 DEF Step

-----------------------------------------------------------------------------
(* The theorems.                                                           *)

\* Before the first driver.
LEMMA ThreadInit == Init => ThreadInv
<1> SUFFICES ASSUME Init
             PROVE  ThreadInv
  OBVIOUS
<1>1. thread \in Checkpoint \cup {None} /\ gates \in 0..MaxGates
  BY DEF Init, Checkpoint
<1>2. TypeOK
  <2>1. resumed \in [Drivers -> BOOLEAN] /\ overlapped \in BOOLEAN
    BY Zenon DEF Init
  <2>2. /\ pc \in [Drivers -> Points] /\ kind \in [Drivers -> Kinds] /\ input \in [Drivers -> Inputs]
        /\ bound \in [Drivers -> Bindings \cup {None}] /\ carried \in [Drivers -> Bindings \cup {None}]
    BY DEF Init, Points, Kinds, Inputs
  <2>3. /\ row \in 0..MaxTurns /\ seen \in [Drivers -> 0..MaxTurns] /\ turns \in 0..MaxTurns
        /\ prompt \in [Drivers -> 0..MaxGates] /\ starts \in 0..MaxStarts
        /\ answered \in SUBSET ((1..MaxGates) \X (0..MaxGates))
    BY DEF Init
  <2> QED
    BY <1>1, <2>1, <2>2, <2>3 DEF TypeOK
<1>3. OneDriver /\ PromptInv /\ BoundInv /\ KindInv
  BY DEF Init, OneDriver, PromptInv, AtPrompt, BoundInv, KindInv
<1>4. CountInv
  <2>1. Uncounted = {}
    BY DEF Init, Uncounted
  <2>2. IsFiniteSet(Uncounted) /\ Cardinality(Uncounted) = 0
    BY <2>1, FS_EmptySet
  <2> QED
    BY <2>2 DEF Init, CountInv
<1> QED
  BY <1>2, <1>3, <1>4 DEF ThreadInv

\* Every step keeps the invariant.
LEMMA ThreadNext == ThreadInv /\ [Next]_vars => ThreadInv'
<1> SUFFICES ASSUME ThreadInv, [Next]_vars
             PROVE  ThreadInv'
  OBVIOUS
<1>1. CASE UNCHANGED vars
  <2>1. TypeOK'
    BY <1>1 DEF ThreadInv, TypeOK, vars, driver, history
  <2>2. OneDriver' /\ BoundInv' /\ KindInv'
    BY <1>1 DEF ThreadInv, OneDriver, BoundInv, KindInv, vars, driver, history
  <2>3. PromptInv'
    BY <1>1 DEF ThreadInv, PromptInv, AtPrompt, PendingInterrupt, vars, driver, history
  <2>4. CountInv'
    BY <1>1 DEF ThreadInv, CountInv, Uncounted, vars, driver, history
  <2> QED
    BY <2>1, <2>2, <2>3, <2>4 DEF ThreadInv
<1>2. ASSUME NEW d \in Drivers, Step(d)
      PROVE  ThreadInv'
  <2>1. Sound(d)
    BY <1>2, SoundStep
  <2>2. OneDriver' /\ PromptInv' /\ BoundInv' /\ KindInv'
    BY <1>2, <2>1, InvStep, OthersAreOff
  <2>3. CountInv'
    BY <1>2, <2>1, CountStep
  <2> QED
    BY <2>1, <2>2, <2>3 DEF ThreadInv, Sound
<1> QED
  BY <1>1, <1>2 DEF Next, Step

\* The invariant holds in every reachable state.
LEMMA ThreadAlways == Spec => []ThreadInv
BY ThreadInit, ThreadNext, PTL DEF Spec

\* Every reachable state of a thread and its drivers is well typed.
THEOREM ThreadTyped == Spec => []TypeOK
<1>1. ThreadInv => TypeOK
  BY DEF ThreadInv
<1> QED
  BY <1>1, ThreadAlways, PTL

\* For any number of drivers, gates, deaths, resumes and reconnects: as long as
\* no two drivers have been there at once, every answer went to the gate whose
\* prompt the operator saw.
THEOREM AnswersFit == Spec => []AnswerFits
<1>1. Init => AnswerFits
  BY DEF Init, AnswerFits
<1>2. AnswerFits /\ ThreadInv /\ [Next]_vars => AnswerFits'
  <2> SUFFICES ASSUME AnswerFits, ThreadInv, [Next]_vars
               PROVE  AnswerFits'
    OBVIOUS
  <2>1. CASE UNCHANGED <<answered, overlapped>>
    BY <2>1 DEF AnswerFits
  <2>2. ASSUME NEW d \in Drivers, Step(d), answered' # answered
        PROVE  AnswerFits'
    <3>0. TypeOK /\ Sound(d)
      BY <2>2, SoundStep DEF ThreadInv
    <3>1. GiveAnswer(d) \/ ChatText(d) \/ SocketText(d)
      <4>1. ASSUME NEW b \in Bindings, RunTask(d, b)
            PROVE  FALSE
        BY <2>2, <4>1 DEF RunTask, Stream, Replies
      <4>2. ASSUME NEW k \in {"run", "chat"}, NEW b \in Bindings, NEW force \in BOOLEAN,
                   Resume(d, k, b, force)
            PROVE  FALSE
        BY <2>2, <4>2 DEF Resume, Resumes, Stream, Replies
      <4>3. ~(\E b \in Bindings : OpenChat(d, b) \/ Connect(d, b))
        BY <2>2 DEF OpenChat, Connect
      <4>4. ~(Rebind(d) \/ PassEnds(d) \/ PassStops(d) \/ LookInRun(d) \/ LookInChat(d)
                \/ LookInSocket(d) \/ UpsertRead(d) \/ UpsertWrite(d) \/ Leave(d)
                \/ AskDelete(d) \/ DeleteThread(d) \/ DeleteSession(d))
        BY <2>2 DEF Rebind, PassEnds, PassStops, LookInRun, LookInChat, LookInSocket,
             UpsertRead, UpsertWrite, Leave, AskDelete, DeleteThread, DeleteSession, history
      <4> QED
        BY <2>2, <4>1, <4>2, <4>3, <4>4 DEF Step
    <3>2. /\ \A a \in answered' : a \in answered \/ a = <<PendingInterrupt, prompt[d]>>
          /\ GivenBy(d) \in Replies
          /\ overlapped' = overlapped
      BY <2>2, <3>0, <3>1, GivenPass
    <3>3. AtPrompt(d)
      BY <3>1, <3>2 DEF AtPrompt, GivenBy, Replies, GiveAnswer, ChatText, SocketText
    <3>4. ~overlapped => prompt[d] = PendingInterrupt
      BY <3>3 DEF ThreadInv, PromptInv
    <3> QED
      BY <3>2, <3>4 DEF AnswerFits
  <2>3. ASSUME NEW d \in Drivers, Step(d), answered' = answered
        PROVE  AnswerFits'
    <3>1. ~overlapped' => ~overlapped
      BY <2>3, SoundStep DEF Sound
    <3> QED
      BY <2>3, <3>1 DEF AnswerFits
  <2> QED
    BY <2>1, <2>2, <2>3 DEF Next, Step, vars, history
<1> QED
  BY <1>1, <1>2, ThreadAlways, PTL DEF Spec

\* A resumed thread keeps its backends through every pass.
THEOREM ResumedStaysBound == Spec => []ResumedIsBound
<1>1. ThreadInv => ResumedIsBound
  BY DEF ThreadInv, BoundInv, ResumedIsBound
<1> QED
  BY <1>1, ThreadAlways, PTL

\* However many chats count, die and delete at once, the index never shows more
\* turns than were finished.
THEOREM NoTurnTooMany == Spec => []TurnsNotOvercounted
<1>1. ThreadInv => TurnsNotOvercounted
  <2> SUFFICES ASSUME ThreadInv
               PROVE  TurnsNotOvercounted
    OBVIOUS
  <2>1. IsFiniteSet(Uncounted) /\ row + Cardinality(Uncounted) <= turns
    BY DEF ThreadInv, CountInv
  <2>2. Cardinality(Uncounted) \in Nat
    BY <2>1, FS_CardinalityType
  <2> QED
    BY <2>1, <2>2 DEF ThreadInv, TypeOK, TurnsNotOvercounted
<1> QED
  BY <1>1, ThreadAlways, PTL

\* A browser that is alone on the thread answers a pending approval with its
\* next text; it never restarts the task over it.
THEOREM SocketAnswersGate == Spec => SocketKeepsGate
<1>1. ASSUME ThreadInv, [Next]_vars, NEW d \in Drivers,
             kind[d] = "socket", pc[d] = "text", pc'[d] = "pass", ~overlapped, PendingInterrupt # 0
      PROVE  input'[d] = "answer"
  <2>0. TypeOK /\ TypeDrivers
    BY <1>1, TypeParts DEF ThreadInv
  <2>1. prompt[d] # 0
    BY <1>1 DEF ThreadInv, PromptInv, AtPrompt
  <2>2. PICK u \in Drivers : Step(u)
    BY <1>1 DEF Next, Step, vars
  <2>3. u = d
    BY <1>1, <2>2, SoundStep DEF Sound, Frame
  <2>4. SocketText(d)
    <3>1. pc[d] # "off"
      BY <1>1
    <3>2. ~(\E b \in Bindings : RunTask(d, b) \/ OpenChat(d, b) \/ Connect(d, b)) /\ ~AskDelete(d)
      BY <3>1 DEF RunTask, OpenChat, Connect, AskDelete, Begins
    <3>3. ~(\E k \in {"run", "chat"}, b \in Bindings, force \in BOOLEAN : Resume(d, k, b, force))
      BY <3>1 DEF Resume, Begins
    <3>4. ~(Rebind(d) \/ GiveAnswer(d) \/ ChatText(d) \/ PassEnds(d) \/ PassStops(d) \/ LookInRun(d)
              \/ LookInChat(d) \/ LookInSocket(d) \/ UpsertRead(d) \/ UpsertWrite(d)
              \/ DeleteThread(d) \/ DeleteSession(d))
      BY <1>1 DEF Rebind, GiveAnswer, ChatText, PassEnds, PassStops, LookInRun, LookInChat,
           LookInSocket, UpsertRead, UpsertWrite, DeleteThread, DeleteSession
    <3>5. ~Leave(d)
      BY <1>1, <2>0, ExitsEffect DEF Leave
    <3> QED
      BY <2>2, <2>3, <3>2, <3>3, <3>4, <3>5 DEF Step
  <2>5. GivenBy(d) = "answer"
    BY <1>1, <2>1 DEF GivenBy
  <2> QED
    BY <2>0, <2>4, <2>5, GivenPass DEF TypeDrivers
<1>2. ThreadInv /\ [Next]_vars =>
        [\A d \in Drivers :
           /\ kind[d] = "socket" /\ pc[d] = "text" /\ pc'[d] = "pass"
           /\ ~overlapped /\ PendingInterrupt # 0
           => input'[d] = "answer"]_vars
  BY <1>1
<1> QED
  BY <1>2, ThreadAlways, PTL DEF Spec, SocketKeepsGate
=============================================================================
