--------------------------- MODULE EndpointProofs ---------------------------
(***************************************************************************)
(* Theorems about the two endpoints of agent_os/server/api.py that keep    *)
(* their own state between the requests of a client: the public concierge, *)
(* for any number of visitors, requests and clients, and the event stream, *)
(* for every length of the run's log and every number of broken            *)
(* connections.                                                            *)
(***************************************************************************)
EXTENDS PublicConcierge, EventStream, FiniteSetTheorems, SequenceTheorems, TLAPS

-----------------------------------------------------------------------------
(* The public concierge: the inductive invariant.                          *)

\* r has been accepted: its visitor id is fixed.
Taken(r) == pc[r] \notin {"idle", "refused"}

\* Request r speaks for the visitor of request q, who has an id unless r is q.
SameVisitor(r, q) ==
  /\ Taken(q)
  /\ visitor[r] = visitor[q]
  /\ r # q => visitor[r] # None

\* A row belongs to the visitor of the request that inserted it, and so does the Hermes
\* session bound to it, whose last answer is not older than the row.
RowFits(t) ==
  /\ Taken(t)
  /\ sessions[t].visitor = visitor[t]
  /\ sessions[t].hermes # None =>
       /\ SameVisitor(t, sessions[t].hermes)
       /\ sessions[t].updated <= answered[sessions[t].hermes]

RowInv == \A t \in Requests : sessions[t] # None => RowFits(t)

\* What respond holds belongs to the visitor it answers; before the lookup it holds nothing.
Holds(r) ==
  /\ pc[r] \in {"hermes", "bind"} => token[r] # None /\ SameVisitor(r, token[r])
  /\ pc[r] = "bind" => hermes[r] # None
  /\ hermes[r] # None => pc[r] \in {"hermes", "bind"} /\ SameVisitor(r, hermes[r])

HeldInv == \A r \in Requests : Holds(r)

\* A Hermes session hears the visitor of the request that opened it.
HeardInv == \A h \in Requests : \A p \in heard[h] : Taken(p) /\ SameVisitor(p, h)

\* Nothing is stamped with a time that is still to come.
ClockInv ==
  /\ \A h \in Requests : answered[h] <= now
  /\ \A a \in accepted : a[3] <= now

SessionInv == TypeOK /\ RowInv /\ HeldInv /\ HeardInv /\ ClockInv

\* Requests of client c that were accepted from t on, within one window.
Within(c, t) == {a \in accepted : a[2] = c /\ t <= a[3] /\ a[3] < t + Window}

\* Every request accepted in the window that ends now has its timestamp in the bucket.
RateInv ==
  /\ IsFiniteSet(accepted)
  /\ \A c \in Clients : IsFiniteSet(buckets[c])
  /\ Limit # 0 /\ ~restarted =>
       \A a \in accepted : now - a[3] < Window => [by |-> a[1], ts |-> a[3]] \in buckets[a[2]]

-----------------------------------------------------------------------------
(* Frames.                                                                 *)

\* A session token or a Hermes session is a request, or none.
LEMMA RowFields ==
  ASSUME TypeOK, NEW t \in Requests, sessions[t] # None
  PROVE  /\ sessions[t] \in Row
         /\ sessions[t].visitor \in Visitors \cup {None}
         /\ sessions[t].hermes \in Requests \cup {None}
         /\ sessions[t].updated \in Times
BY DEF TypeOK, Row

\* A row with another Hermes session and another time.
LEMMA RowEdit ==
  ASSUME NEW row \in Row, NEW h \in Requests, NEW u \in Times
  PROVE  [[row EXCEPT !.hermes = h] EXCEPT !.updated = u]
           = [visitor |-> row.visitor, hermes |-> h, updated |-> u]
<1> DEFINE edit == [[row EXCEPT !.hermes = h] EXCEPT !.updated = u]
<1>1. edit \in Row /\ edit.visitor = row.visitor /\ edit.hermes = h /\ edit.updated = u
  BY DEF Row
<1>2. edit = [visitor |-> edit.visitor, hermes |-> edit.hermes, updated |-> edit.updated]
  <2> HIDE DEF edit
  <2> QED
    BY <1>1 DEF Row
<1> QED
  BY <1>1, <1>2

\* bind_public_hermes_session rewrites one row, if it is still there.
LEMMA BindEffect ==
  ASSUME TypeOK, HeldInv, NEW r \in Requests, Bind(r)
  PROVE  /\ token[r] \in Requests
         /\ hermes[r] \in Requests
         /\ sessions' = [t \in Requests |->
              IF t = token[r] /\ sessions[t] # None
              THEN [visitor |-> sessions[t].visitor, hermes |-> hermes[r], updated |-> now]
              ELSE sessions[t]]
<1>1. token[r] \in Requests /\ hermes[r] \in Requests
  BY DEF Bind, HeldInv, Holds, TypeOK
<1>2. CASE sessions[token[r]] = None
  <2>1. sessions' = sessions
    BY <1>2 DEF Bind
  <2>2. sessions = [t \in Requests |-> sessions[t]]
    BY DEF TypeOK
  <2> QED
    BY <1>1, <1>2, <2>1, <2>2
<1>3. CASE sessions[token[r]] # None
  <2>1. sessions[token[r]] \in Row
    BY <1>1, <1>3, RowFields
  <2>2. sessions' = [sessions EXCEPT ![token[r]].hermes = hermes[r],
                                     ![token[r]].updated = now]
    BY <1>3 DEF Bind
  <2>3. sessions' = [t \in Requests |->
          IF t = token[r] THEN [[sessions[t] EXCEPT !.hermes = hermes[r]] EXCEPT !.updated = now]
          ELSE sessions[t]]
    BY <1>1, <2>2 DEF TypeOK
  <2>0. now \in Times
    BY DEF TypeOK
  <2>4. [[sessions[token[r]] EXCEPT !.hermes = hermes[r]] EXCEPT !.updated = now]
          = [visitor |-> sessions[token[r]].visitor, hermes |-> hermes[r], updated |-> now]
    BY <1>1, <2>0, <2>1, RowEdit
  <2> QED
    BY <1>1, <1>3, <2>3, <2>4
<1> QED
  BY <1>1, <1>2, <1>3

-----------------------------------------------------------------------------
(* Type correctness.                                                       *)

LEMMA TypeInit == Init => TypeOK
<1> SUFFICES ASSUME Init PROVE TypeOK
  OBVIOUS
<1>1. 0 \in Times
  BY ConciergeAssumption DEF Times
<1>2. buckets \in [Clients -> SUBSET Stamp] /\ heard \in [Requests -> SUBSET Requests]
  BY DEF Init
<1> QED
  BY <1>1, <1>2 DEF Init, TypeOK, Points

\* The clock, and what a crash leaves.
LEMMA TypeServer ==
  ASSUME TypeOK, Tick \/ Crash
  PROVE  TypeOK'
<1>1. CASE Tick
  BY <1>1, ConciergeAssumption DEF Tick, TypeOK, Times, request, held, history
<1>2. CASE Crash
  BY <1>2, ConciergeAssumption DEF Crash, TypeOK, Times, Points
<1> QED
  BY <1>1, <1>2

\* The rate limit.
LEMMA TypeEndpoint ==
  ASSUME TypeOK, NEW r \in Requests, NEW c \in Clients
  PROVE  /\ \A v \in Visitors \cup {None}, t \in Issued \cup {None} : Accept(r, c, v, t) => TypeOK'
         /\ Refuse(r, c) => TypeOK'
<1>1. Bucket(c) \subseteq Stamp
  BY DEF Bucket, TypeOK
<1>2. ASSUME NEW v \in Visitors \cup {None}, NEW t \in Issued \cup {None}, Accept(r, c, v, t)
      PROVE  TypeOK'
  <2>1. t \in Requests \cup {None}
    BY DEF Issued, TypeOK
  <2>2. [by |-> r, ts |-> now] \in Stamp
    BY DEF Stamp, TypeOK
  <2>3. buckets' \in [Clients -> SUBSET Stamp]
    BY <1>1, <1>2, <2>2 DEF Accept, TypeOK
  <2>4. accepted' \subseteq Requests \X Clients \X Times
    BY <1>2 DEF Accept, TypeOK
  <2> QED
    BY <1>2, <2>1, <2>3, <2>4 DEF Accept, TypeOK, GoTo, Points, held
<1>3. ASSUME Refuse(r, c) PROVE TypeOK'
  BY <1>1, <1>3 DEF Refuse, TypeOK, GoTo, Points, request, held, history
<1> QED
  BY <1>2, <1>3

\* respond, up to the lookup.
LEMMA TypeSession ==
  ASSUME TypeOK, NEW r \in Requests
  PROVE  /\ \A quiet \in BOOLEAN : Fallback(r, quiet) => TypeOK'
         /\ Purge(r) \/ Reuse(r) \/ Insert(r) => TypeOK'
<1>1. ASSUME NEW quiet \in BOOLEAN, Fallback(r, quiet) PROVE TypeOK'
  BY <1>1 DEF Fallback, RecordLead, LeadOf, TypeOK, GoTo, Points, request, held, history
<1>2. ASSUME Purge(r) PROVE TypeOK'
  BY <1>2 DEF Purge, TypeOK, GoTo, Points, request, history
<1>3. ASSUME Reuse(r) PROVE TypeOK'
  <2>1. asked[r] \in Requests /\ sessions[asked[r]] # None
    BY <1>3 DEF Reuse, Reusable, TypeOK
  <2>2. sessions[asked[r]].hermes \in Requests \cup {None}
    BY <2>1, RowFields
  <2> QED
    BY <1>3, <2>1, <2>2, ConciergeAssumption
    DEF Reuse, Resolved, TypeOK, Times, GoTo, Points, history
<1>4. ASSUME Insert(r) PROVE TypeOK'
  <2>1. [visitor |-> visitor[r], hermes |-> None, updated |-> at[r]] \in Row
    BY DEF TypeOK, Row
  <2> QED
    BY <1>4, <2>1, ConciergeAssumption
    DEF Insert, Resolved, TypeOK, Times, GoTo, Points, history
<1> QED
  BY <1>1, <1>2, <1>3, <1>4

\* The turn in Hermes.
LEMMA TypeTurn ==
  ASSUME TypeOK, HeldInv, NEW r \in Requests
  PROVE  /\ HermesFails(r) \/ Bind(r) => TypeOK'
         /\ \A line \in BOOLEAN : HermesAnswers(r, line) => TypeOK'
<1>0. SessionOf(r) \in Requests
  BY DEF SessionOf, TypeOK
<1>1. ASSUME HermesFails(r) PROVE TypeOK'
  <2>1. heard' \in [Requests -> SUBSET Requests]
    BY <1>0, <1>1 DEF HermesFails, TypeOK
  <2> QED
    BY <1>1, <2>1 DEF HermesFails, Reply, TypeOK, GoTo, Points, request
<1>2. ASSUME NEW line \in BOOLEAN, HermesAnswers(r, line) PROVE TypeOK'
  BY <1>0, <1>2 DEF HermesAnswers, TypeOK, GoTo, Points, request
<1>3. ASSUME Bind(r) PROVE TypeOK'
  <2>1. /\ token[r] \in Requests
        /\ hermes[r] \in Requests
        /\ sessions' = [t \in Requests |->
              IF t = token[r] /\ sessions[t] # None
              THEN [visitor |-> sessions[t].visitor, hermes |-> hermes[r], updated |-> now]
              ELSE sessions[t]]
    BY <1>3, BindEffect
  <2>2. ASSUME NEW t \in Requests, sessions[t] # None
        PROVE  [visitor |-> sessions[t].visitor, hermes |-> hermes[r], updated |-> now] \in Row
    BY <2>1, <2>2, RowFields DEF TypeOK, Row
  <2>3. sessions' \in [Requests -> Row \cup {None}]
    BY <2>1, <2>2 DEF TypeOK
  <2> QED
    BY <1>3, <2>1, <2>3 DEF Bind, Reply, TypeOK, GoTo, Points, request
<1> QED
  BY <1>1, <1>2, <1>3

LEMMA TypeStep ==
  ASSUME TypeOK, HeldInv, [Next]_vars
  PROVE  TypeOK'
<1>1. UNCHANGED vars => TypeOK'
  BY DEF vars, request, held, history, TypeOK
<1> QED
  BY <1>1, TypeServer, TypeEndpoint, TypeSession, TypeTurn DEF Next, Step

-----------------------------------------------------------------------------
(* One visitor for each conversation.                                      *)

\* A request that was accepted keeps its visitor id, over a crash too.
LEMMA TakenStays ==
  ASSUME TypeOK, [Next]_vars, NEW q \in Requests, Taken(q)
  PROVE  Taken(q)' /\ visitor'[q] = visitor[q]
<1>1. CASE UNCHANGED vars
  BY <1>1 DEF vars, request, Taken
<1>2. CASE Tick \/ Crash
  BY <1>2 DEF Tick, Crash, request, Taken, TypeOK
<1>3. ASSUME NEW r \in Requests, NEW c \in Clients, NEW v \in Visitors \cup {None},
             NEW t \in Issued \cup {None}, Accept(r, c, v, t) \/ Refuse(r, c)
      PROVE  Taken(q)' /\ visitor'[q] = visitor[q]
  BY <1>3 DEF Accept, Refuse, GoTo, request, Taken, TypeOK
<1>4. ASSUME NEW r \in Requests, Step(r)
      PROVE  Taken(q)' /\ visitor'[q] = visitor[q]
  <2>1. visitor' = visitor
    BY <1>4 DEF Step, Fallback, Purge, Reuse, Insert, HermesFails, HermesAnswers, Bind, request
  <2>2. \E x \in Points \ {"idle", "refused"} : pc' = [pc EXCEPT ![r] = x]
    BY <1>4 DEF Step, Fallback, Purge, Reuse, Insert, HermesFails, HermesAnswers, Bind,
                Reply, Resolved, GoTo, Points
  <2> QED
    BY <2>1, <2>2 DEF Taken, TypeOK
<1>5. ASSUME NEW r \in Requests, NEW c \in Clients, Refuse(r, c)
      PROVE  Taken(q)' /\ visitor'[q] = visitor[q]
  BY <1>5 DEF Refuse, GoTo, request, Taken, TypeOK
<1> QED
  BY <1>1, <1>2, <1>3, <1>4, <1>5 DEF Next

\* Whoever spoke for a visitor goes on doing so.
LEMMA SameVisitorStays ==
  ASSUME TypeOK, [Next]_vars, NEW p \in Requests, NEW q \in Requests, Taken(p), SameVisitor(p, q)
  PROVE  SameVisitor(p, q)'
BY TakenStays DEF SameVisitor

\* Every request speaks for itself, and speaking for the same visitor composes.
LEMMA SameVisitorJoins ==
  ASSUME NEW p \in Requests, NEW q \in Requests, NEW h \in Requests, Taken(p),
         SameVisitor(p, q), SameVisitor(q, h)
  PROVE  SameVisitor(p, p) /\ SameVisitor(p, h)
BY DEF SameVisitor

\* The clock does not go back, and answers are stamped with it.
LEMMA ClockStep ==
  ASSUME TypeOK, HeldInv, ClockInv, [Next]_vars
  PROVE  /\ ClockInv'
         /\ \A h \in Requests : answered[h] \in Times /\ answered'[h] \in Times
                                 /\ answered[h] <= answered'[h]
<1>0. TypeOK' /\ now \in Nat /\ now' \in Nat
  BY TypeStep DEF TypeOK, Times
<1>1. CASE UNCHANGED <<now, answered, accepted>>
  BY <1>0, <1>1 DEF ClockInv, TypeOK, Times
<1>2. CASE Tick
  BY <1>0, <1>2 DEF Tick, history, ClockInv, TypeOK, Times
<1>3. ASSUME NEW r \in Requests, NEW c \in Clients, NEW v \in Visitors \cup {None},
             NEW t \in Issued \cup {None}, Accept(r, c, v, t)
      PROVE  UNCHANGED <<now, answered>> /\ ClockInv'
  <2>1. accepted' = accepted \cup {<<r, c, now>>} /\ UNCHANGED <<now, answered>>
    BY <1>3 DEF Accept
  <2> QED
    BY <1>0, <2>1 DEF ClockInv
<1>4. ASSUME NEW r \in Requests, Bind(r)
      PROVE  /\ ClockInv'
             /\ \A h \in Requests : answered[h] <= answered'[h]
  <2>1. hermes[r] \in Requests
    BY <1>4, BindEffect
  <2>2. /\ answered' = [answered EXCEPT ![hermes[r]] = now]
        /\ UNCHANGED <<now, accepted>>
    BY <1>4 DEF Bind
  <2> QED
    BY <1>0, <2>1, <2>2 DEF ClockInv, TypeOK, Times
<1>5. ASSUME NEW r \in Requests, Step(r), ~Bind(r)
      PROVE  UNCHANGED <<now, answered, accepted>>
  BY <1>5 DEF Step, Fallback, Purge, Reuse, Insert, HermesFails, HermesAnswers, history
<1>6. ASSUME NEW r \in Requests, NEW c \in Clients, Refuse(r, c)
      PROVE  UNCHANGED <<now, answered, accepted>>
  BY <1>6 DEF Refuse, history
<1>7. UNCHANGED vars \/ Crash => UNCHANGED <<now, answered, accepted>>
  BY DEF vars, history, Crash
<1>8. \A h \in Requests : answered[h] \in Times /\ answered'[h] \in Times
  BY <1>0 DEF TypeOK
<1> QED
  BY <1>1, <1>2, <1>3, <1>4, <1>5, <1>6, <1>7, <1>8 DEF Next, Times, Tick, history

\* A row that is left alone still fits.
LEMMA RowKept ==
  ASSUME SessionInv, [Next]_vars, NEW t \in Requests, sessions[t] # None,
         sessions'[t] = sessions[t]
  PROVE  RowFits(t)'
<1>0. TypeOK /\ HeldInv /\ ClockInv /\ RowFits(t)
  BY DEF SessionInv, RowInv
<1>1. Taken(t)' /\ visitor'[t] = visitor[t]
  BY <1>0, TakenStays DEF RowFits
<1>2. ASSUME sessions[t].hermes # None
      PROVE  /\ SameVisitor(t, sessions[t].hermes)'
             /\ sessions[t].updated <= answered'[sessions[t].hermes]
  <2>1. sessions[t].hermes \in Requests /\ sessions[t].updated \in Times
    BY <1>0, <1>2, RowFields
  <2>2. SameVisitor(t, sessions[t].hermes)'
    <3>1. ASSUME NEW h \in Requests, SameVisitor(t, h) PROVE SameVisitor(t, h)'
      BY <1>0, <3>1, SameVisitorStays DEF RowFits
    <3>2. SameVisitor(t, sessions[t].hermes)
      BY <1>0, <1>2 DEF RowFits
    <3> QED
      BY <2>1, <3>1, <3>2 DEF SameVisitor, Taken
  <2>3. sessions[t].updated <= answered'[sessions[t].hermes]
    BY <1>0, <1>2, <2>1, ClockStep DEF RowFits, Times
  <2> QED
    BY <2>2, <2>3
<1> QED
  BY <1>0, <1>1, <1>2 DEF RowFits, SameVisitor, Taken

\* Only the lookup inserts a row and only the bind rewrites one.
LEMMA RowsStep ==
  ASSUME SessionInv, [Next]_vars
  PROVE  RowInv'
<1> SUFFICES ASSUME NEW t \in Requests, sessions'[t] # None
             PROVE  RowFits(t)'
  BY DEF RowInv
<1>0. TypeOK /\ HeldInv /\ ClockInv
  BY DEF SessionInv
<1>1. CASE sessions' = sessions
  BY <1>1, RowKept
<1>2. ASSUME NEW r \in Requests, Purge(r)
      PROVE  sessions'[t] = sessions[t] /\ sessions[t] # None
  BY <1>2 DEF Purge
<1>3. ASSUME NEW r \in Requests, Insert(r)
      PROVE  RowFits(t)'
  <2>1. CASE t # r
    <3>1. sessions'[t] = sessions[t] /\ sessions[t] # None
      BY <1>0, <1>3, <2>1 DEF Insert, TypeOK
    <3> QED
      BY <3>1, RowKept
  <2>2. CASE t = r
    <3>1. sessions'[t] = [visitor |-> visitor[t], hermes |-> None, updated |-> at[t]]
      BY <1>0, <1>3, <2>2 DEF Insert, TypeOK
    <3>2. Taken(t)
      BY <1>3, <2>2 DEF Insert, Taken
    <3>3. Taken(t)' /\ visitor'[t] = visitor[t]
      BY <1>0, <3>2, TakenStays
    <3> QED
      BY <3>1, <3>3 DEF RowFits
  <2> QED
    BY <2>1, <2>2
<1>4. ASSUME NEW r \in Requests, Bind(r)
      PROVE  RowFits(t)'
  <2>1. /\ token[r] \in Requests
        /\ hermes[r] \in Requests
        /\ sessions' = [u \in Requests |->
              IF u = token[r] /\ sessions[u] # None
              THEN [visitor |-> sessions[u].visitor, hermes |-> hermes[r], updated |-> now]
              ELSE sessions[u]]
    BY <1>0, <1>4, BindEffect
  <2>2. CASE t # token[r] \/ sessions[t] = None
    <3>1. sessions'[t] = sessions[t] /\ sessions[t] # None
      BY <2>1, <2>2
    <3> QED
      BY <3>1, RowKept
  <2>3. CASE t = token[r] /\ sessions[t] # None
    <3>1. sessions'[t] = [visitor |-> sessions[t].visitor, hermes |-> hermes[r], updated |-> now]
      BY <2>1, <2>3
    <3>2. Taken(t) /\ sessions[t].visitor = visitor[t]
      BY <2>3 DEF SessionInv, RowInv, RowFits
    <3>3. Taken(t)' /\ visitor'[t] = visitor[t]
      BY <1>0, <3>2, TakenStays
    <3>4. Taken(r) /\ SameVisitor(r, t) /\ SameVisitor(r, hermes[r])
      BY <1>0, <1>4, <2>1, <2>3, ConciergeAssumption DEF HeldInv, Holds, Bind, Taken
    <3>5. SameVisitor(t, hermes[r])
      BY <3>4 DEF SameVisitor
    <3>6. ASSUME NEW h \in Requests, h = hermes[r] PROVE SameVisitor(t, h)'
      BY <1>0, <3>2, <3>5, <3>6, SameVisitorStays
    <3>7. answered'[hermes[r]] = now
      BY <1>0, <1>4, <2>1 DEF Bind, TypeOK
    <3>8. now \in Nat
      BY <1>0 DEF TypeOK, Times
    <3> QED
      BY <2>1, <3>1, <3>2, <3>3, <3>6, <3>7, <3>8 DEF RowFits
  <2> QED
    BY <2>2, <2>3
<1>5. ASSUME NEW r \in Requests, Step(r), ~Purge(r), ~Insert(r), ~Bind(r)
      PROVE  sessions' = sessions
  BY <1>5 DEF Step, Fallback, Reuse, HermesFails, HermesAnswers
<1>6. UNCHANGED vars \/ Tick \/ Crash => sessions' = sessions
  BY DEF vars, Tick, Crash
<1>7. ASSUME NEW r \in Requests, NEW c \in Clients, NEW v \in Visitors \cup {None},
             NEW u \in Issued \cup {None}, Accept(r, c, v, u) \/ Refuse(r, c)
      PROVE  sessions' = sessions
  BY <1>7 DEF Accept, Refuse
<1>8. ASSUME NEW r \in Requests, NEW c \in Clients, Refuse(r, c)
      PROVE  sessions' = sessions
  BY <1>8 DEF Refuse
<1> QED
  BY <1>1, <1>2, <1>3, <1>4, <1>5, <1>6, <1>7, <1>8, RowKept DEF Next

\* A request that does not move keeps what it holds.
LEMMA HeldKept ==
  ASSUME SessionInv, [Next]_vars, NEW q \in Requests,
         pc'[q] = pc[q], token'[q] = token[q], hermes'[q] = hermes[q]
  PROVE  Holds(q)'
<1>0. TypeOK /\ Holds(q)
  BY DEF SessionInv, HeldInv
<1>1. ASSUME NEW h \in Requests, Taken(q), SameVisitor(q, h) PROVE SameVisitor(q, h)'
  BY <1>0, <1>1, SameVisitorStays
<1>2. pc[q] \in {"hermes", "bind"} => Taken(q)
  BY DEF Taken
<1>3. token[q] \in Requests \cup {None} /\ hermes[q] \in Requests \cup {None}
  BY <1>0 DEF TypeOK
<1> QED
  BY <1>0, <1>1, <1>2, <1>3 DEF Holds

\* A lookup that honours a token gives its visitor what is the visitor's own.
LEMMA ReuseHolds ==
  ASSUME SessionInv, [Next]_vars, NEW r \in Requests, Reuse(r)
  PROVE  Holds(r)'
<1>0. TypeOK
  BY DEF SessionInv
<1>1. asked[r] \in Requests /\ sessions[asked[r]] # None /\ Taken(r) /\ visitor[r] # None
      /\ sessions[asked[r]].visitor = visitor[r]
  BY <1>0 DEF Reuse, Reusable, Taken, TypeOK
<1>2. PICK t \in Requests : t = asked[r]
  BY <1>1
<1>3. RowFits(t) /\ sessions[t].hermes \in Requests \cup {None}
  BY <1>0, <1>1, <1>2, RowFields DEF SessionInv, RowInv
<1>4. SameVisitor(r, t)
  BY <1>1, <1>2, <1>3 DEF RowFits, SameVisitor
<1>5. ASSUME NEW h \in Requests, h = sessions[t].hermes PROVE SameVisitor(r, h)
  BY <1>1, <1>3, <1>4, <1>5, ConciergeAssumption DEF RowFits, SameVisitor
<1>6. ASSUME NEW h \in Requests, SameVisitor(r, h) PROVE SameVisitor(r, h)'
  BY <1>0, <1>1, <1>6, SameVisitorStays
<1>7. pc'[r] = "hermes" /\ token'[r] = t /\ hermes'[r] = sessions[t].hermes
  BY <1>0, <1>2 DEF Reuse, Resolved, GoTo, TypeOK
<1>8. SameVisitor(r, t)' /\ (hermes'[r] # None => \E h \in Requests : h = hermes'[r] /\ SameVisitor(r, h)')
  BY <1>3, <1>4, <1>5, <1>6, <1>7
<1> QED
  BY <1>2, <1>7, <1>8, ConciergeAssumption DEF Holds

\* Hermes answers: the session is the one resumed, or the request's own.
LEMMA AnswerHolds ==
  ASSUME SessionInv, [Next]_vars, NEW r \in Requests, NEW line \in BOOLEAN, HermesAnswers(r, line)
  PROVE  Holds(r)'
<1>0. TypeOK /\ Holds(r) /\ Taken(r) /\ pc[r] = "hermes"
  BY DEF SessionInv, HeldInv, HermesAnswers, Taken
<1>1. ASSUME NEW h \in Requests, SameVisitor(r, h) PROVE SameVisitor(r, h)'
  BY <1>0, <1>1, SameVisitorStays
<1>2. SameVisitor(r, r)
  BY <1>0 DEF SameVisitor
<1>3. /\ hermes'[r] = (IF line THEN SessionOf(r) ELSE hermes[r])
      /\ token'[r] = token[r]
      /\ pc'[r] = (IF line \/ hermes[r] # None THEN "bind" ELSE "done")
  BY <1>0 DEF HermesAnswers, GoTo, TypeOK
<1>4. token[r] \in Requests /\ hermes[r] \in Requests \cup {None}
  BY <1>0 DEF Holds, TypeOK
<1>5. SameVisitor(r, token[r]) /\ (hermes[r] # None => SameVisitor(r, hermes[r]))
  BY <1>0 DEF Holds
<1>6. \E t \in Requests : t = token'[r] /\ SameVisitor(r, t)'
  BY <1>1, <1>3, <1>4, <1>5
<1>7. hermes'[r] # None => pc'[r] = "bind" /\ \E h \in Requests : h = hermes'[r] /\ SameVisitor(r, h)'
  BY <1>1, <1>2, <1>3, <1>4, <1>5 DEF SessionOf
<1>8. pc'[r] = "bind" => hermes'[r] # None
  BY <1>3, ConciergeAssumption DEF SessionOf
<1> QED
  BY <1>6, <1>7, <1>8, ConciergeAssumption DEF Holds

LEMMA HeldStep ==
  ASSUME SessionInv, [Next]_vars
  PROVE  HeldInv'
<1> SUFFICES ASSUME NEW q \in Requests PROVE Holds(q)'
  BY DEF HeldInv
<1>0. TypeOK /\ Holds(q)
  BY DEF SessionInv, HeldInv
<1>1. CASE UNCHANGED vars \/ Tick
  <2>1. pc' = pc /\ token' = token /\ hermes' = hermes
    BY <1>1 DEF vars, Tick, held
  <2> QED
    BY <2>1, HeldKept
<1>2. CASE Crash
  BY <1>2 DEF Crash, Holds
<1>3. ASSUME NEW r \in Requests, pc[r] \notin {"hermes", "bind"}, token' = token, hermes' = hermes,
             NEW x \in Points \ {"hermes", "bind"}, pc' = [pc EXCEPT ![r] = x]
      PROVE  Holds(q)'
  <2>1. CASE q = r
    <3>1. pc'[q] = x /\ hermes'[q] = None
      BY <1>0, <1>3, <2>1 DEF Holds, TypeOK
    <3> QED
      BY <1>3, <3>1 DEF Holds
  <2>2. CASE q # r
    BY <1>0, <1>3, <2>2, HeldKept DEF TypeOK
  <2> QED
    BY <2>1, <2>2
<1>4. ASSUME NEW r \in Requests, NEW c \in Clients, NEW v \in Visitors \cup {None},
             NEW t \in Issued \cup {None}, Accept(r, c, v, t)
      PROVE  Holds(q)'
  BY <1>3, <1>4 DEF Accept, GoTo, held, Points
<1>5. ASSUME NEW r \in Requests, NEW c \in Clients, Refuse(r, c)
      PROVE  Holds(q)'
  BY <1>3, <1>5 DEF Refuse, GoTo, held, Points
<1>6. ASSUME NEW r \in Requests, NEW quiet \in BOOLEAN, Fallback(r, quiet)
      PROVE  Holds(q)'
  BY <1>3, <1>6 DEF Fallback, GoTo, held, Points
<1>7. ASSUME NEW r \in Requests, Purge(r)
      PROVE  Holds(q)'
  BY <1>3, <1>7 DEF Purge, GoTo, Points
<1>8. ASSUME NEW r \in Requests, Reuse(r)
      PROVE  Holds(q)'
  <2>1. q # r => pc'[q] = pc[q] /\ token'[q] = token[q] /\ hermes'[q] = hermes[q]
    BY <1>0, <1>8 DEF Reuse, Resolved, GoTo, TypeOK
  <2> QED
    BY <1>8, <2>1, HeldKept, ReuseHolds
<1>9. ASSUME NEW r \in Requests, Insert(r)
      PROVE  Holds(q)'
  <2>1. CASE q # r
    <3>1. pc'[q] = pc[q] /\ token'[q] = token[q] /\ hermes'[q] = hermes[q]
      BY <1>0, <1>9, <2>1 DEF Insert, Resolved, GoTo, TypeOK
    <3> QED
      BY <3>1, HeldKept
  <2>2. CASE q = r
    <3>1. pc'[q] = "hermes" /\ token'[q] = q /\ hermes'[q] = None
      BY <1>0, <1>9, <2>2 DEF Insert, Resolved, GoTo, TypeOK, Holds
    <3>2. Taken(q)
      BY <1>9, <2>2 DEF Insert, Taken
    <3>3. SameVisitor(q, q)'
      BY <1>0, <3>2, TakenStays DEF SameVisitor
    <3> QED
      BY <3>1, <3>3, ConciergeAssumption DEF Holds
  <2> QED
    BY <2>1, <2>2
<1>10. ASSUME NEW r \in Requests, HermesFails(r) \/ Bind(r)
       PROVE  Holds(q)'
  <2>1. CASE q # r
    <3>1. pc'[q] = pc[q] /\ token'[q] = token[q] /\ hermes'[q] = hermes[q]
      BY <1>0, <1>10, <2>1 DEF HermesFails, Bind, Reply, GoTo, TypeOK
    <3> QED
      BY <3>1, HeldKept
  <2>2. CASE q = r
    <3>1. pc'[q] = "done" /\ hermes'[q] = None
      BY <1>0, <1>10, <2>2 DEF HermesFails, Bind, Reply, GoTo, TypeOK
    <3> QED
      BY <3>1 DEF Holds
  <2> QED
    BY <2>1, <2>2
<1>11. ASSUME NEW r \in Requests, NEW line \in BOOLEAN, HermesAnswers(r, line)
       PROVE  Holds(q)'
  <2>1. q # r => pc'[q] = pc[q] /\ token'[q] = token[q] /\ hermes'[q] = hermes[q]
    BY <1>0, <1>11 DEF HermesAnswers, GoTo, TypeOK
  <2> QED
    BY <1>11, <2>1, HeldKept, AnswerHolds
<1> QED
  BY <1>1, <1>2, <1>4, <1>5, <1>6, <1>7, <1>8, <1>9, <1>10, <1>11 DEF Next, Step

\* A turn is heard by the session it resumes or opens.
LEMMA HeardStep ==
  ASSUME SessionInv, [Next]_vars
  PROVE  HeardInv'
<1>0. TypeOK /\ HeldInv /\ HeardInv
  BY DEF SessionInv
<1>1. ASSUME NEW h \in Requests, NEW p \in Requests, Taken(p), SameVisitor(p, h)
      PROVE  Taken(p)' /\ SameVisitor(p, h)'
  BY <1>0, <1>1, TakenStays, SameVisitorStays
<1>2. CASE heard' = heard
  BY <1>0, <1>1, <1>2 DEF HeardInv, TypeOK
<1>3. ASSUME NEW r \in Requests, pc[r] = "hermes",
             heard' = [heard EXCEPT ![SessionOf(r)] = @ \cup {r}]
      PROVE  HeardInv'
  <2>1. Taken(r) /\ SessionOf(r) \in Requests /\ SameVisitor(r, SessionOf(r))
    BY <1>0, <1>3 DEF HeldInv, Holds, SessionOf, Taken, SameVisitor, TypeOK
  <2>2. \A h \in Requests : \A p \in heard'[h] : p \in heard[h] \/ (p = r /\ h = SessionOf(r))
    BY <1>0, <1>3, <2>1 DEF TypeOK
  <2>3. \A h \in Requests : \A p \in heard'[h] : p \in Requests /\ Taken(p) /\ SameVisitor(p, h)
    BY <1>0, <2>1, <2>2 DEF HeardInv, TypeOK
  <2> QED
    BY <1>1, <2>3 DEF HeardInv
<1>4. ASSUME NEW r \in Requests, NEW c \in Clients, NEW v \in Visitors \cup {None},
             NEW t \in Issued \cup {None}, Accept(r, c, v, t)
      PROVE  heard' = heard
  BY <1>4 DEF Accept
<1>5. ASSUME NEW r \in Requests, NEW c \in Clients, Refuse(r, c)
      PROVE  heard' = heard
  BY <1>5 DEF Refuse, history
<1>6. ASSUME NEW r \in Requests, Step(r), heard' # heard
      PROVE  pc[r] = "hermes" /\ heard' = [heard EXCEPT ![SessionOf(r)] = @ \cup {r}]
  BY <1>6 DEF Step, Fallback, Purge, Reuse, Insert, HermesFails, HermesAnswers, Bind, history
<1>7. UNCHANGED vars \/ Tick \/ Crash => heard' = heard
  BY DEF vars, Tick, Crash, history
<1> QED
  BY <1>2, <1>3, <1>4, <1>5, <1>6, <1>7 DEF Next

LEMMA SessionInvInit == Init => SessionInv
<1> SUFFICES ASSUME Init PROVE SessionInv
  OBVIOUS
<1>1. TypeOK
  BY TypeInit
<1>2. RowInv /\ HeldInv /\ HeardInv
  BY DEF Init, RowInv, HeldInv, Holds, HeardInv
<1>3. ClockInv
  BY DEF Init, ClockInv
<1> QED
  BY <1>1, <1>2, <1>3 DEF SessionInv

LEMMA SessionInvStep ==
  ASSUME SessionInv, [Next]_vars
  PROVE  SessionInv'
BY TypeStep, ClockStep, RowsStep, HeldStep, HeardStep DEF SessionInv

LEMMA SessionInvHolds == Spec => []SessionInv
BY SessionInvInit, SessionInvStep, PTL DEF Spec

\* Every reachable state of the concierge is well typed.
THEOREM ConciergeTyped == Spec => []TypeOK
<1>1. SessionInv => TypeOK
  BY DEF SessionInv
<1> QED
  BY <1>1, SessionInvHolds, PTL

\* However requests overlap, expire, fail and lose their server, a Hermes session hears one
\* visitor only, and one without an id starts anew with every message.
THEOREM ConversationsApart == Spec => []OneVisitorPerSession
<1>1. SessionInv => OneVisitorPerSession
  BY DEF SessionInv, HeardInv, SameVisitor, OneVisitorPerSession
<1> QED
  BY <1>1, SessionInvHolds, PTL

\* No lookup resumes a Hermes session whose last answer is older than the TTL.
THEOREM DeadSessionsEnd == Spec => DeadSessionGivenUp
<1>1. ASSUME SessionInv, [Next]_vars, NEW r \in Requests, pc[r] = "lookup", hermes'[r] # None
      PROVE  at[r] <= answered[hermes'[r]] + Ttl
  <2>0. TypeOK /\ Holds(r) /\ hermes[r] = None
    BY <1>1 DEF SessionInv, HeldInv, Holds
  <2>1. Reuse(r)
    <3>1. hermes'[r] # hermes[r]
      BY <1>1, <2>0
    <3>2. ~(UNCHANGED vars \/ Tick \/ Crash)
      BY <1>1, <3>1 DEF vars, Tick, Crash, held
    <3>3. ASSUME NEW q \in Requests, NEW c \in Clients, NEW v \in Visitors \cup {None},
                 NEW t \in Issued \cup {None}
          PROVE  ~Accept(q, c, v, t)
      BY <3>1 DEF Accept, held
    <3>4. ASSUME NEW q \in Requests, NEW c \in Clients PROVE ~Refuse(q, c)
      BY <3>1 DEF Refuse, held
    <3>5. PICK q \in Requests : Step(q)
      BY <1>1, <3>2, <3>3, <3>4 DEF Next
    <3>6. q = r
      BY <2>0, <3>1, <3>5 DEF Step, Fallback, Purge, Reuse, Insert, HermesFails, HermesAnswers,
                             Bind, Reply, held, TypeOK
    <3> QED
      BY <1>1, <3>1, <3>5, <3>6 DEF Step, Fallback, Purge, Insert, HermesFails, HermesAnswers,
                                    Bind, held
  <2>2. asked[r] \in Requests /\ sessions[asked[r]] # None
        /\ at[r] <= sessions[asked[r]].updated + Ttl
        /\ hermes'[r] = sessions[asked[r]].hermes
    BY <2>0, <2>1 DEF Reuse, Reusable, TypeOK
  <2>3. RowFits(asked[r]) /\ sessions[asked[r]].hermes \in Requests
        /\ sessions[asked[r]].updated \in Nat
    BY <1>1, <2>0, <2>2, RowFields DEF SessionInv, RowInv, Times
  <2>4. /\ sessions[asked[r]].updated <= answered[hermes'[r]]
        /\ answered[hermes'[r]] \in Nat /\ at[r] \in Nat /\ Ttl \in Nat
    BY <1>1, <2>0, <2>2, <2>3, ConciergeAssumption DEF RowFits, TypeOK, Times
  <2> QED
    BY <2>2, <2>3, <2>4
<1>2. SessionInv /\ [Next]_vars =>
        [\A r \in Requests :
           pc[r] = "lookup" /\ hermes'[r] # None => at[r] <= answered[hermes'[r]] + Ttl]_vars
  BY <1>1
<1> QED
  BY <1>2, SessionInvHolds, PTL DEF Spec, DeadSessionGivenUp

-----------------------------------------------------------------------------
(* The rate limit.                                                         *)

\* What is left in the window is part of the bucket.
LEMMA BucketFits ==
  ASSUME TypeOK, RateInv, NEW c \in Clients
  PROVE  /\ IsFiniteSet(Bucket(c)) /\ Cardinality(Bucket(c)) \in Nat
         /\ \A e \in buckets[c] : now - e.ts < Window => e \in Bucket(c)
<1>1. Bucket(c) \in SUBSET buckets[c] /\ IsFiniteSet(buckets[c])
  BY DEF Bucket, RateInv
<1> QED
  BY <1>1, FS_Subset, FS_CardinalityType DEF Bucket

\* Timestamps leave a bucket only once they have left the window.
LEMMA RateStep ==
  ASSUME TypeOK, TypeOK', RateInv, [Next]_vars
  PROVE  RateInv'
<1>0. /\ now \in Nat /\ now' \in Nat /\ Window \in Nat
      /\ \A a \in accepted : a[1] \in Requests /\ a[2] \in Clients /\ a[3] \in Nat
  BY ConciergeAssumption DEF TypeOK, Times
<1>1. CASE UNCHANGED <<now, buckets, accepted, restarted>>
  BY <1>1 DEF RateInv
<1>2. CASE Tick
  BY <1>0, <1>2 DEF Tick, history, RateInv
<1>3. CASE Crash
  <2>1. IsFiniteSet(accepted') /\ restarted' = TRUE
    BY <1>3 DEF Crash, RateInv
  <2>2. \A c \in Clients : buckets'[c] = {}
    BY <1>3 DEF Crash
  <2> QED
    BY <2>1, <2>2, FS_EmptySet DEF RateInv
<1>4. ASSUME NEW r \in Requests, NEW c \in Clients, NEW v \in Visitors \cup {None},
             NEW t \in Issued \cup {None}, Accept(r, c, v, t)
      PROVE  RateInv'
  <2>1. /\ accepted' = accepted \cup {<<r, c, now>>}
        /\ UNCHANGED <<now, restarted>>
        /\ Limit = 0 => buckets' = buckets
        /\ Limit # 0 => buckets' = [buckets EXCEPT ![c] = Bucket(c) \cup {[by |-> r, ts |-> now]}]
    BY <1>4 DEF Accept
  <2>2. IsFiniteSet(accepted')
    BY <2>1, FS_AddElement DEF RateInv
  <2>3. IsFiniteSet(Bucket(c) \cup {[by |-> r, ts |-> now]})
    BY BucketFits, FS_AddElement
  <2>4. \A d \in Clients : IsFiniteSet(buckets'[d])
    BY <2>1, <2>3 DEF RateInv, TypeOK
  <2>5. ASSUME Limit # 0, ~restarted, NEW a \in accepted', now - a[3] < Window
        PROVE  [by |-> a[1], ts |-> a[3]] \in buckets'[a[2]]
    <3>1. CASE a \in accepted
      <4>1. [by |-> a[1], ts |-> a[3]] \in buckets[a[2]]
        BY <2>5, <3>1 DEF RateInv
      <4>2. a[2] = c => [by |-> a[1], ts |-> a[3]] \in Bucket(c)
        BY <2>5, <4>1, BucketFits
      <4> QED
        BY <1>0, <2>1, <2>5, <3>1, <4>1, <4>2 DEF TypeOK
    <3>2. CASE a = <<r, c, now>>
      BY <2>1, <2>5, <3>2 DEF TypeOK
    <3> QED
      BY <2>1, <3>1, <3>2
  <2> QED
    BY <2>1, <2>2, <2>4, <2>5 DEF RateInv
<1>5. ASSUME NEW r \in Requests, NEW c \in Clients, Refuse(r, c)
      PROVE  RateInv'
  <2>1. /\ buckets' = [buckets EXCEPT ![c] = Bucket(c)]
        /\ UNCHANGED <<now, accepted, restarted>>
    BY <1>5 DEF Refuse, history
  <2>2. \A d \in Clients : IsFiniteSet(buckets'[d])
    BY <2>1, BucketFits DEF RateInv, TypeOK
  <2>3. ASSUME Limit # 0, ~restarted, NEW a \in accepted, now - a[3] < Window
        PROVE  [by |-> a[1], ts |-> a[3]] \in buckets'[a[2]]
    <3>1. [by |-> a[1], ts |-> a[3]] \in buckets[a[2]]
      BY <2>3 DEF RateInv
    <3>2. a[2] = c => [by |-> a[1], ts |-> a[3]] \in Bucket(c)
      BY <2>3, <3>1, BucketFits
    <3> QED
      BY <1>0, <2>1, <3>1, <3>2 DEF TypeOK
  <2> QED
    BY <2>1, <2>2, <2>3 DEF RateInv
<1>6. ASSUME NEW r \in Requests, Step(r)
      PROVE  UNCHANGED <<now, buckets, accepted, restarted>>
  BY <1>6 DEF Step, Fallback, Purge, Reuse, Insert, HermesFails, HermesAnswers, Bind, history
<1>7. UNCHANGED vars => UNCHANGED <<now, buckets, accepted, restarted>>
  BY DEF vars, history
<1> QED
  BY <1>1, <1>2, <1>3, <1>4, <1>5, <1>6, <1>7 DEF Next

\* The requests accepted since t, within one window that reaches up to now, are in the bucket.
LEMMA WindowInBucket ==
  ASSUME TypeOK, ClockInv, RateInv, Limit # 0, ~restarted,
         NEW c \in Clients, NEW t \in Times, now < t + Window
  PROVE  /\ IsFiniteSet(Within(c, t))
         /\ Cardinality(Within(c, t)) \in Nat
         /\ Cardinality(Within(c, t)) <= Cardinality(Bucket(c))
<1>0. now \in Nat /\ Window \in Nat /\ t \in Nat
  BY ConciergeAssumption DEF TypeOK, Times
<1>1. \A a \in Within(c, t) : /\ a \in accepted /\ a[2] = c /\ a = <<a[1], c, a[3]>>
                              /\ a[3] \in Nat /\ t <= a[3] /\ a[3] <= now
  BY DEF Within, TypeOK, ClockInv, Times
<1>2. \A a \in Within(c, t) : [by |-> a[1], ts |-> a[3]] \in Bucket(c)
  <2> SUFFICES ASSUME NEW a \in Within(c, t) PROVE [by |-> a[1], ts |-> a[3]] \in Bucket(c)
    OBVIOUS
  <2>1. now - a[3] < Window
    BY <1>0, <1>1
  <2>2. [by |-> a[1], ts |-> a[3]] \in buckets[c]
    BY <1>1, <2>1 DEF RateInv
  <2> QED
    BY <2>1, <2>2, BucketFits
<1> DEFINE stamp == [a \in Within(c, t) |-> [by |-> a[1], ts |-> a[3]]]
<1>3. stamp \in Injection(Within(c, t), Bucket(c))
  <2>1. stamp \in [Within(c, t) -> Bucket(c)]
    BY <1>2
  <2>2. ASSUME NEW a \in Within(c, t), NEW b \in Within(c, t), stamp[a] = stamp[b]
        PROVE  a = b
    <3>1. a[1] = b[1] /\ a[3] = b[3]
      BY <2>2
    <3> QED
      BY <1>1, <3>1
  <2>3. DOMAIN stamp = Within(c, t)
    OBVIOUS
  <2> HIDE DEF stamp
  <2> QED
    BY <2>1, <2>2, <2>3 DEF Injection, IsInjective
<1>4. IsFiniteSet(Bucket(c))
  BY BucketFits
<1>5. IsFiniteSet(Within(c, t)) /\ Cardinality(Within(c, t)) <= Cardinality(Bucket(c))
  BY <1>3, <1>4, FS_Injection
<1> QED
  BY <1>5, FS_CardinalityType

\* One more element makes a set larger by at most one.
LEMMA AtMostOneMore ==
  ASSUME NEW S, NEW x, IsFiniteSet(S)
  PROVE  Cardinality(S \cup {x}) \in Nat /\ Cardinality(S \cup {x}) <= Cardinality(S) + 1
<1>1. Cardinality(S) \in Nat
  BY FS_CardinalityType
<1>2. Cardinality(S \cup {x}) = IF x \in S THEN Cardinality(S) ELSE Cardinality(S) + 1
  BY FS_AddElement
<1> QED
  BY <1>1, <1>2

LEMMA WindowStep ==
  ASSUME TypeOK, ClockInv, RateInv, WindowLimit, [Next]_vars
  PROVE  WindowLimit'
<1>1. CASE UNCHANGED <<accepted, restarted>>
  BY <1>1 DEF WindowLimit
<1>2. CASE Crash
  BY <1>2 DEF Crash, WindowLimit
<1>3. ASSUME NEW r \in Requests, NEW c \in Clients, NEW v \in Visitors \cup {None},
             NEW u \in Issued \cup {None}, Accept(r, c, v, u)
      PROVE  WindowLimit'
  <2> SUFFICES ASSUME Limit # 0, ~restarted, NEW d \in Clients, NEW t \in Times
               PROVE  Cardinality(Within(d, t)') <= Limit
    BY <1>3 DEF WindowLimit, Within, Accept
  <2>1. accepted' = accepted \cup {<<r, c, now>>} /\ Cardinality(Bucket(c)) < Limit
    BY <1>3 DEF Accept
  <2>2. CASE d = c /\ t <= now /\ now < t + Window
    <3>1. Within(d, t)' = Within(c, t) \cup {<<r, c, now>>}
      BY <2>1, <2>2 DEF Within
    <3>2. /\ IsFiniteSet(Within(c, t))
          /\ Cardinality(Within(c, t)) \in Nat
          /\ Cardinality(Within(c, t)) <= Cardinality(Bucket(c))
      BY <2>2, WindowInBucket
    <3>3. /\ Cardinality(Within(d, t)') <= Cardinality(Within(c, t)) + 1
          /\ Cardinality(Within(d, t)') \in Nat
      BY <3>1, <3>2, AtMostOneMore
    <3>4. Cardinality(Bucket(c)) \in Nat /\ Limit \in Nat
      BY BucketFits, ConciergeAssumption
    <3> QED
      BY <2>1, <3>2, <3>3, <3>4
  <2>3. CASE ~(d = c /\ t <= now /\ now < t + Window)
    <3>1. Within(d, t)' = Within(d, t)
      BY <2>1, <2>3 DEF Within
    <3> QED
      BY <3>1 DEF WindowLimit, Within
  <2> QED
    BY <2>2, <2>3
<1>4. ASSUME NEW r \in Requests, NEW c \in Clients, Refuse(r, c)
      PROVE  UNCHANGED <<accepted, restarted>>
  BY <1>4 DEF Refuse, history
<1>5. ASSUME NEW r \in Requests, Step(r)
      PROVE  UNCHANGED <<accepted, restarted>>
  BY <1>5 DEF Step, Fallback, Purge, Reuse, Insert, HermesFails, HermesAnswers, Bind, history
<1>6. UNCHANGED vars \/ Tick => UNCHANGED <<accepted, restarted>>
  BY DEF vars, Tick, history
<1> QED
  BY <1>1, <1>2, <1>3, <1>4, <1>5, <1>6 DEF Next

\* For any limit, window and number of clients: while the process lives, no window of that
\* length, wherever it begins, lets more than Limit requests of a client through.
THEOREM RateIsLimited == Spec => []WindowLimit
<1>1. Init => RateInv /\ WindowLimit
  <2> SUFFICES ASSUME Init PROVE RateInv /\ WindowLimit
    OBVIOUS
  <2>1. accepted = {} /\ \A c \in Clients : buckets[c] = {}
    BY DEF Init
  <2>2. RateInv
    BY <2>1, FS_EmptySet DEF RateInv
  <2>3. ASSUME NEW c \in Clients, NEW t \in Times
        PROVE  {a \in accepted : a[2] = c /\ t <= a[3] /\ a[3] < t + Window} = {}
    BY <2>1
  <2> QED
    BY <2>2, <2>3, FS_EmptySet, ConciergeAssumption DEF WindowLimit
<1>2. SessionInv /\ SessionInv' /\ RateInv /\ WindowLimit /\ [Next]_vars
        => RateInv' /\ WindowLimit'
  BY RateStep, WindowStep DEF SessionInv
<1> QED
  BY <1>1, <1>2, SessionInvHolds, PTL DEF Spec

-----------------------------------------------------------------------------
(* The event stream.                                                       *)

USE StreamAssumption DEF End

-----------------------------------------------------------------------------
(* The inductive invariant.  NoGapNoDuplicate speaks of what the console   *)
(* has and of what is in flight; it is the generator's cursor that makes   *)
(* the next chunk continue both, and the place of `end' on the wire that   *)
(* lets a new request start from an empty one.                             *)

\* What is in flight are events of the log, with `end' behind them all.
WireInv ==
  /\ \A i \in 1..Len(wire) : wire[i] <= last
  /\ \A i \in 1..Len(wire) : wire[i] = End => i = Len(wire) /\ spc = "done"

\* A generator that has not returned is one event behind its next yield, and
\* its batch is a batch of the log.
CursorInv ==
  spc \in {"replay", "tail", "sleep"} =>
    /\ cursor = Len(received) + Len(wire)
    /\ cursor <= last
    /\ upto <= last

\* Nothing is in flight without a request, nor behind an `end' that arrived.
QuietInv ==
  /\ spc = "off" => wire = <<>>
  /\ ended => spc = "done" /\ wire = <<>>

StreamInv == StreamTypeOK /\ NoGapNoDuplicate /\ WireInv /\ CursorInv /\ QuietInv

-----------------------------------------------------------------------------
(* Lemmas about the two ends of the connection.                            *)

\* A chunk put on the wire is its last one, and leaves the others in place.
LEMMA YieldEffect ==
  ASSUME StreamTypeOK, NEW c \in 0..MaxEvents, Yield(c)
  PROVE  /\ wire' \in Seq(0..MaxEvents)
         /\ Len(wire') = Len(wire) + 1
         /\ wire'[Len(wire) + 1] = c
         /\ \A i \in 1..Len(wire) : wire'[i] = wire[i]
BY DEF StreamTypeOK, Yield

\* The chunk taken off the wire is its first one; the rest moves up by one.
LEMMA TakeEffect ==
  ASSUME StreamTypeOK, wire # <<>>, wire' = Tail(wire)
  PROVE  /\ wire' \in Seq(0..MaxEvents)
         /\ Len(wire) \in Nat \ {0}
         /\ Len(wire') = Len(wire) - 1
         /\ Head(wire) = wire[1]
         /\ wire[1] \in 0..MaxEvents
         /\ \A i \in 1..Len(wire') : wire'[i] = wire[i + 1]
<1>1. wire \in Seq(0..MaxEvents)
  BY DEF StreamTypeOK
<1>2. Len(wire) \in Nat \ {0}
  BY <1>1, EmptySeq, SMT
<1> QED
  BY <1>1, <1>2

-----------------------------------------------------------------------------
(* The steps.                                                              *)

\* An event the generator yields while it is at work: one above the cursor.
NextChunk ==
  /\ spc' \in {"replay", "tail"}
  /\ cursor' = Len(received) + Len(wire) + 1
  /\ cursor' <= last
  /\ Yield(cursor')
  /\ upto' \in 0..last
  /\ UNCHANGED <<writer, console>>

\* The invariant survives a yield of the event that comes next, from wherever
\* the generator was.
LEMMA NextChunkKeeps ==
  ASSUME StreamInv, spc \in {"off", "replay", "tail", "sleep"}, ~ended, NextChunk
  PROVE  StreamInv'
<1> USE DEF StreamInv
<1>0. /\ last' = last /\ terminal' = terminal /\ received' = received
      /\ ended' = ended /\ drops' = drops
  BY DEF NextChunk, writer, console
<1>1. /\ last \in 0..MaxEvents /\ Len(received) \in Nat /\ Len(wire) \in Nat
  BY DEF StreamTypeOK
<1>2. cursor' \in 1..MaxEvents
  BY <1>1 DEF NextChunk
<1>3. /\ wire' \in Seq(0..MaxEvents)
      /\ Len(wire') = Len(wire) + 1
      /\ wire'[Len(wire) + 1] = cursor'
      /\ \A i \in 1..Len(wire) : wire'[i] = wire[i]
  BY <1>2, YieldEffect DEF NextChunk
<1>4. \A i \in 1..Len(wire') : i \in 1..Len(wire) \/ i = Len(wire) + 1
  BY <1>1, <1>3
<1>5. DOMAIN wire' = 1..Len(wire') /\ DOMAIN wire = 1..Len(wire)
  BY <1>3 DEF StreamTypeOK
<1>6. \A i \in 1..Len(wire) : wire[i] # 0
  BY DEF WireInv
<1>7. StreamTypeOK'
  BY <1>0, <1>1, <1>2, <1>3 DEF StreamTypeOK, NextChunk, StreamPoints
<1>a. cursor' = Len(received) + (Len(wire) + 1) /\ cursor' <= last
  BY <1>1 DEF NextChunk
<1>8. NoGapNoDuplicate'
  <2>1. \A i \in 1..Len(wire) : wire'[i] # 0 => wire'[i] = Len(received) + i
    BY <1>3, <1>5 DEF NoGapNoDuplicate
  <2>2. \A i \in DOMAIN wire' : wire'[i] # 0 => wire'[i] = Len(received) + i
    BY <1>3, <1>4, <1>5, <1>a, <2>1
  <2> QED
    BY <1>0, <2>2 DEF NoGapNoDuplicate
<1>9. WireInv'
  <2>1. \A i \in 1..Len(wire') : wire'[i] <= last /\ wire'[i] # 0
    BY <1>2, <1>3, <1>4, <1>6, <1>a DEF WireInv
  <2> QED
    BY <1>0, <2>1 DEF WireInv
<1>10. CursorInv'
  BY <1>0, <1>1, <1>3 DEF CursorInv, NextChunk
<1>11. QuietInv'
  BY <1>0 DEF QuietInv, NextChunk
<1> QED
  BY <1>7, <1>8, <1>9, <1>10, <1>11

\* Looking at the status when a batch is used up, with the console at c.
LookAtStatus ==
  /\ IF terminal THEN Yield(End) /\ spc' = "done"
                 ELSE UNCHANGED wire /\ spc' = "sleep"
  /\ cursor' = Len(received) + Len(wire)
  /\ cursor' <= last
  /\ upto' \in 0..last
  /\ UNCHANGED <<writer, console>>

\* The invariant survives the check of the status: `end' goes behind every
\* event in flight, or the generator sleeps where it is.
LEMMA LookAtStatusKeeps ==
  ASSUME StreamInv, spc \in {"off", "replay", "tail", "sleep"}, ~ended, LookAtStatus
  PROVE  StreamInv'
<1> USE DEF StreamInv
<1>0. /\ last' = last /\ terminal' = terminal /\ received' = received
      /\ ended' = ended /\ drops' = drops
  BY DEF LookAtStatus, writer, console
<1>1. /\ last \in 0..MaxEvents /\ Len(received) \in Nat /\ Len(wire) \in Nat
      /\ DOMAIN wire = 1..Len(wire)
  BY DEF StreamTypeOK
<1>2. CASE terminal
  <2>1. /\ wire' \in Seq(0..MaxEvents)
        /\ Len(wire') = Len(wire) + 1
        /\ wire'[Len(wire) + 1] = 0
        /\ \A i \in 1..Len(wire) : wire'[i] = wire[i]
    BY <1>2, YieldEffect DEF LookAtStatus
  <2>2. \A i \in 1..Len(wire') : i \in 1..Len(wire) \/ i = Len(wire) + 1
    BY <1>1, <2>1
  <2>3. DOMAIN wire' = 1..Len(wire')
    BY <2>1
  <2>4. spc' = "done"
    BY <1>2 DEF LookAtStatus
  <2>5. \A i \in 1..Len(wire) : wire[i] # 0
    BY DEF WireInv
  <2>6. StreamTypeOK'
    BY <1>0, <1>1, <2>1, <2>4 DEF StreamTypeOK, LookAtStatus, StreamPoints
  <2>7. NoGapNoDuplicate'
    <3>1. \A i \in 1..Len(wire) : wire'[i] # 0 => wire'[i] = Len(received) + i
      BY <1>1, <2>1 DEF NoGapNoDuplicate
    <3>2. \A i \in DOMAIN wire' : wire'[i] # 0 => wire'[i] = Len(received) + i
      BY <2>1, <2>2, <2>3, <3>1
    <3> QED
      BY <1>0, <3>2 DEF NoGapNoDuplicate
  <2>8. WireInv'
    <3>1. \A i \in 1..Len(wire') : wire'[i] <= last
      <4>1. \A i \in 1..Len(wire) : wire'[i] <= last
        BY <2>1 DEF WireInv
      <4>2. wire'[Len(wire) + 1] <= last
        BY <1>1, <2>1
      <4> QED
        BY <2>2, <4>1, <4>2
    <3>2. \A i \in 1..Len(wire') : wire'[i] = 0 => i = Len(wire')
      BY <2>1, <2>2, <2>5
    <3> QED
      BY <1>0, <2>4, <3>1, <3>2 DEF WireInv
  <2>9. CursorInv' /\ QuietInv'
    BY <1>0, <2>4 DEF CursorInv, QuietInv
  <2> QED
    BY <2>6, <2>7, <2>8, <2>9
<1>3. CASE ~terminal
  <2>1. wire' = wire /\ spc' = "sleep"
    BY <1>3 DEF LookAtStatus
  <2>2. StreamTypeOK'
    BY <1>0, <1>1, <2>1 DEF StreamTypeOK, LookAtStatus, StreamPoints
  <2>3. NoGapNoDuplicate' /\ QuietInv'
    BY <1>0, <2>1 DEF NoGapNoDuplicate, QuietInv
  <2>4. WireInv'
    BY <1>0, <1>1, <2>1 DEF WireInv
  <2>5. CursorInv'
    BY <1>0, <1>1, <2>1 DEF CursorInv, LookAtStatus
  <2> QED
    BY <2>2, <2>3, <2>4, <2>5
<1> QED
  BY <1>2, <1>3

\* Each step of the generator, and a request, is one of the two.
LEMMA GeneratorSteps ==
  ASSUME StreamInv, Stream \/ Connect
  PROVE  /\ spc \in {"off", "replay", "tail", "sleep"}
         /\ ~ended
         /\ NextChunk \/ LookAtStatus
<1> USE DEF StreamInv, NextChunk, LookAtStatus
<1>1. /\ last \in 0..MaxEvents /\ cursor \in 0..MaxEvents /\ upto \in 0..MaxEvents
      /\ Len(received) \in Nat /\ Len(wire) \in Nat
  BY DEF StreamTypeOK
<1>2. CASE YieldNext
  BY <1>1, <1>2 DEF YieldNext, CursorInv, QuietInv
<1>3. CASE EnterTail
  BY <1>1, <1>3 DEF EnterTail, ReadBatch, CheckStatus, CursorInv, QuietInv
<1>4. CASE TailBatchDone
  BY <1>1, <1>4 DEF TailBatchDone, CheckStatus, CursorInv, QuietInv
<1>5. CASE Wake
  BY <1>1, <1>5 DEF Wake, ReadBatch, CheckStatus, CursorInv, QuietInv
<1>6. CASE Connect
  <2>1. Len(wire) = 0 /\ Len(received) <= last
    BY <1>6 DEF Connect, QuietInv, NoGapNoDuplicate
  <2> QED
    BY <1>1, <1>6, <2>1 DEF Connect, ReadBatch
<1> QED
  BY <1>2, <1>3, <1>4, <1>5, <1>6 DEF Stream

\* The writers only make the log longer, whatever the status.
LEMMA WritersKeep ==
  ASSUME StreamInv, AppendEvent \/ SetStatus
  PROVE  StreamInv'
<1> USE DEF StreamInv
<1>0. /\ terminal' \in BOOLEAN
      /\ UNCHANGED <<spc, cursor, upto, wire, received, ended, drops>>
  BY Zenon DEF StreamTypeOK, AppendEvent, SetStatus, console
<1>1. last \in 0..MaxEvents /\ last' \in last..MaxEvents
  BY DEF StreamTypeOK, AppendEvent, SetStatus
<1>2. /\ wire \in Seq(0..MaxEvents) /\ Len(received) \in Nat
      /\ cursor \in Nat /\ upto \in Nat
      /\ \A i \in 1..Len(wire) : wire[i] \in 0..MaxEvents
  BY DEF StreamTypeOK
<1>3. StreamTypeOK'
  BY <1>0, <1>1 DEF StreamTypeOK
<1>4. NoGapNoDuplicate'
  BY <1>0, <1>1, <1>2 DEF NoGapNoDuplicate
<1>5. WireInv'
  <2>1. \A i \in 1..Len(wire) : wire[i] <= last'
    BY <1>1, <1>2 DEF WireInv
  <2> QED
    BY <1>0, <1>1, <2>1 DEF WireInv
<1>6. CursorInv' /\ QuietInv'
  BY <1>0, <1>1, <1>2 DEF CursorInv, QuietInv
<1> QED
  BY <1>3, <1>4, <1>5, <1>6

\* Delivery moves the first chunk from the wire to the console.
LEMMA ReceiveKeeps ==
  ASSUME StreamInv, Receive
  PROVE  StreamInv'
<1> USE DEF StreamInv
<1>0. /\ spc' = spc /\ cursor' = cursor /\ upto' = upto /\ last' = last
      /\ terminal' = terminal /\ drops' = drops
  BY DEF Receive, writer
<1>1. /\ wire' \in Seq(0..MaxEvents)
      /\ Len(wire) \in Nat \ {0}
      /\ Len(wire') = Len(wire) - 1
      /\ Head(wire) = wire[1]
      /\ wire[1] \in 0..MaxEvents
      /\ \A i \in 1..Len(wire') : wire'[i] = wire[i + 1]
  BY TakeEffect DEF Receive
<1>2. DOMAIN wire' = 1..Len(wire') /\ DOMAIN wire = 1..Len(wire)
  BY <1>1 DEF StreamTypeOK
<1>3. /\ received \in Seq(1..MaxEvents) /\ Len(received) \in Nat
      /\ DOMAIN received = 1..Len(received)
      /\ \A i \in 1..Len(received) : received[i] = i
      /\ Len(received) <= last /\ last \in 0..MaxEvents
  BY DEF StreamTypeOK, NoGapNoDuplicate
<1>4. CASE wire[1] = End
  <2>1. Len(wire) = 1 /\ spc = "done"
    BY <1>1, <1>4 DEF WireInv
  <2>2. wire' = <<>>
    BY <1>1, <2>1, EmptySeq
  <2>3. ended' = TRUE /\ received' = received
    BY <1>1, <1>4 DEF Receive
  <2>4. StreamTypeOK'
    BY <1>0, <1>1, <2>3 DEF StreamTypeOK
  <2>5. NoGapNoDuplicate'
    BY <1>0, <1>2, <1>3, <2>1, <1>1, <2>3 DEF NoGapNoDuplicate
  <2>6. WireInv' /\ CursorInv' /\ QuietInv'
    BY <1>0, <1>1, <2>1, <2>2 DEF WireInv, CursorInv, QuietInv
  <2> QED
    BY <2>4, <2>5, <2>6
<1>5. CASE wire[1] # End
  <2>1. received' = Append(received, wire[1]) /\ ended' = ended
    BY <1>1, <1>5 DEF Receive
  <2>2. wire[1] = Len(received) + 1 /\ wire[1] <= last
    BY <1>1, <1>2, <1>5 DEF NoGapNoDuplicate, WireInv
  <2>3. /\ received' \in Seq(1..MaxEvents)
        /\ Len(received') = Len(received) + 1
        /\ received'[Len(received) + 1] = wire[1]
        /\ \A i \in 1..Len(received) : received'[i] = received[i]
    BY <1>1, <1>3, <1>5, <2>1
  <2>4. DOMAIN received' = 1..Len(received')
    BY <2>3
  <2>5. StreamTypeOK'
    BY <1>0, <1>1, <2>1, <2>3 DEF StreamTypeOK
  <2>6. NoGapNoDuplicate'
    <3>1. \A i \in DOMAIN received' : received'[i] = i
      BY <1>3, <2>2, <2>3, <2>4
    <3>2. \A i \in DOMAIN wire' : wire'[i] # End => wire'[i] = Len(received') + i
      <4>1. \A i \in DOMAIN wire' : i \in Nat /\ i + 1 \in DOMAIN wire /\ wire'[i] = wire[i + 1]
        BY <1>1, <1>2
      <4>2. \A i \in DOMAIN wire' : wire[i + 1] # End => wire[i + 1] = Len(received) + (i + 1)
        BY <4>1 DEF NoGapNoDuplicate
      <4> QED
        BY <1>3, <2>3, <4>1, <4>2
    <3> QED
      BY <1>0, <1>3, <2>2, <2>3, <3>1, <3>2 DEF NoGapNoDuplicate
  <2>7. WireInv'
    <3>1. \A i \in 1..Len(wire') : i + 1 \in 1..Len(wire)
      BY <1>1
    <3>2. \A i \in 1..Len(wire') : wire'[i] <= last
      BY <1>1, <3>1 DEF WireInv
    <3>3. \A i \in 1..Len(wire') : wire'[i] = 0 => i = Len(wire') /\ spc = "done"
      BY <1>1, <3>1 DEF WireInv
    <3> QED
      BY <1>0, <3>2, <3>3 DEF WireInv
  <2>8. CursorInv'
    BY <1>0, <1>1, <1>3, <2>3 DEF CursorInv
  <2>9. QuietInv'
    <3>1. wire # <<>>
      BY DEF Receive
    <3> QED
      BY <1>0, <2>1, <3>1 DEF QuietInv
  <2> QED
    BY <2>5, <2>6, <2>7, <2>8, <2>9
<1> QED
  BY <1>4, <1>5

\* A broken connection and a repeated request start from an empty wire.
LEMMA ConsoleKeeps ==
  ASSUME StreamInv, Disconnect \/ Reopen
  PROVE  StreamInv'
<1> USE DEF StreamInv
<1>0. ended' = FALSE
  BY Zenon DEF Disconnect, Reopen, StreamTypeOK
<1>1. /\ last' = last /\ terminal' = terminal /\ received' = received
      /\ cursor' = cursor /\ upto' = upto
      /\ spc' = "off" /\ wire' = <<>>
  BY DEF Disconnect, Reopen, writer, QuietInv
<1>a. drops' \in 0..MaxDrops
  BY DEF Disconnect, Reopen, StreamTypeOK
<1>b. wire' \in Seq(0..MaxEvents)
  BY <1>1
<1>2. StreamTypeOK'
  BY <1>0, <1>1, <1>a, <1>b DEF StreamTypeOK, StreamPoints
<1>3. DOMAIN wire' = {} /\ Len(wire') = 0
  BY <1>1
<1>4. NoGapNoDuplicate'
  BY <1>1, <1>3 DEF NoGapNoDuplicate
<1>5. WireInv' /\ CursorInv' /\ QuietInv'
  BY <1>0, <1>1, <1>3 DEF WireInv, CursorInv, QuietInv
<1> QED
  BY <1>2, <1>4, <1>5

-----------------------------------------------------------------------------
(* The theorems about the event stream.                                    *)

\* The stream of a run nobody has asked for yet.
LEMMA StreamStarts == StreamInit => StreamInv
<1> SUFFICES ASSUME StreamInit
             PROVE  StreamInv
  OBVIOUS
<1>0. wire \in Seq(0..MaxEvents) /\ received \in Seq(1..MaxEvents)
  BY DEF StreamInit
<1>a. last \in 0..MaxEvents /\ cursor \in 0..MaxEvents /\ upto \in 0..MaxEvents
      /\ drops \in 0..MaxDrops
  BY DEF StreamInit
<1>b. terminal \in BOOLEAN /\ ended \in BOOLEAN /\ spc \in StreamPoints
  BY Zenon DEF StreamInit, StreamPoints
<1>1. StreamTypeOK
  BY <1>0, <1>a, <1>b DEF StreamTypeOK
<1>2. NoGapNoDuplicate /\ WireInv
  BY DEF StreamInit, NoGapNoDuplicate, WireInv
<1>3. CursorInv /\ QuietInv
  BY DEF StreamInit, CursorInv, QuietInv
<1> QED
  BY <1>1, <1>2, <1>3 DEF StreamInv

\* Every step of the writers, of the generator and of the connection keeps the
\* invariant.
LEMMA StreamStays == StreamInv /\ [StreamNext]_streamVars => StreamInv'
<1> SUFFICES ASSUME StreamInv, [StreamNext]_streamVars
             PROVE  StreamInv'
  OBVIOUS
<1>1. CASE UNCHANGED streamVars
  BY <1>1 DEF streamVars, StreamInv, StreamTypeOK, NoGapNoDuplicate, WireInv, CursorInv, QuietInv
<1>2. CASE Stream \/ Connect
  BY <1>2, GeneratorSteps, NextChunkKeeps, LookAtStatusKeeps
<1> QED
  BY <1>1, <1>2, WritersKeep, ReceiveKeeps, ConsoleKeeps DEF StreamNext, Stream

\* The state of the stream is well typed; in particular the cursor, the batch
\* and every chunk name events the log can hold.
THEOREM StreamTyped == StreamSpec => []StreamTypeOK
<1>1. StreamInv => StreamTypeOK
  BY DEF StreamInv
<1> QED
  BY <1>1, StreamStarts, StreamStays, PTL DEF StreamSpec

\* For a log of any length and any number of broken connections the console
\* has the run's events in order, none missing and none twice, and what is in
\* flight continues exactly there.
THEOREM StreamIsExact == StreamSpec => []NoGapNoDuplicate
<1>1. StreamInv => NoGapNoDuplicate
  BY DEF StreamInv
<1> QED
  BY <1>1, StreamStarts, StreamStays, PTL DEF StreamSpec

=============================================================================
