--------------------------- MODULE PublicConcierge ---------------------------
(***************************************************************************)
(* The public concierge: the chat endpoint with its rate limit (server/    *)
(* api.py), PublicConciergeAI.respond (public_concierge_ai.py), and the    *)
(* table behind the browser's opaque session tokens (public_concierge.py). *)
(*                                                                         *)
(* A request is one POST, answered in a thread of its own, so requests     *)
(* overlap.  What a request inserts is named after it: r also stands for   *)
(* the token and the Hermes session that request r opened.  The profile    *)
(* (one tenant), the wording of answers and languages are left out.        *)
(***************************************************************************)
EXTENDS Naturals, FiniteSets

CONSTANTS Requests,
          WithContact, \* those whose message or visitor carries contact details
          Visitors,   \* visitor ids
          Clients,    \* keys of PUBLIC_CONCIERGE_BUCKETS
          None,       \* no visitor id, no token, no Hermes session, no row
          Limit,      \* AGENT_OS_PUBLIC_CONCIERGE_RATE_LIMIT; 0: no limit
          Window,     \* PUBLIC_CONCIERGE_WINDOW_SECONDS
          Ttl,        \* _session_ttl_seconds()
          MaxTime     \* bound: ticks of the clock

ASSUME ConciergeAssumption ==
  /\ Limit \in Nat /\ Window \in Nat \ {0} /\ Ttl \in Nat /\ MaxTime \in Nat
  /\ WithContact \subseteq Requests
  /\ None \notin Visitors /\ None \notin Requests

Times == 0..MaxTime

\* A timestamp in a bucket, named after the request that left it: two requests of the same
\* moment leave two.  The code's list is only filtered and counted, so a set stands for it.
Stamp == [by : Requests, ts : Times]

\* A row of public_concierge_sessions; its key is the token.
Row == [visitor : Visitors \cup {None}, hermes : Requests \cup {None}, updated : Times]

VARIABLES now,
          buckets,   \* PUBLIC_CONCIERGE_BUCKETS
          sessions,  \* public_concierge_sessions
          leads,     \* public_concierge_leads
          pc,        \* each request: what respond does next
          visitor, asked,  \* visitor_id and session_id of the request
          at,        \* resolve_public_session's own reading of the clock
          token, hermes,   \* public_session_id and hermes_session_id
          accepted,  \* history: <<request, client, time>> that passed the rate limit
          heard,     \* history: the requests each Hermes session has heard
          answered,  \* history: when each Hermes session last gave an answer
          restarted  \* history: the server's memory was lost

request == <<visitor, asked>>
held    == <<at, token, hermes>>
history == <<accepted, heard, answered, restarted>>
vars    == <<now, buckets, sessions, leads, pc, request, held, history>>

Points == {"idle", "refused", "fallback", "purge", "lookup", "hermes", "bind",
           "done", "lost"}

TypeOK ==
  /\ now \in Times
  /\ buckets \in [Clients -> SUBSET Stamp]
  /\ sessions \in [Requests -> Row \cup {None}]
  /\ leads \subseteq Requests
  /\ pc \in [Requests -> Points]
  /\ visitor \in [Requests -> Visitors \cup {None}]
  /\ asked \in [Requests -> Requests \cup {None}]
  /\ at \in [Requests -> Times]
  /\ token \in [Requests -> Requests \cup {None}]
  /\ hermes \in [Requests -> Requests \cup {None}]
  /\ accepted \subseteq Requests \X Clients \X Times
  /\ heard \in [Requests -> SUBSET Requests]
  /\ answered \in [Requests -> Times]
  /\ restarted \in BOOLEAN

Init ==
  /\ now = 0
  /\ buckets = [c \in Clients |-> {}]
  /\ sessions = [r \in Requests |-> None]
  /\ leads = {}
  /\ pc = [r \in Requests |-> "idle"]
  /\ visitor = [r \in Requests |-> None]
  /\ asked = [r \in Requests |-> None]
  /\ at = [r \in Requests |-> 0]
  /\ token = [r \in Requests |-> None]
  /\ hermes = [r \in Requests |-> None]
  /\ accepted = {}
  /\ heard = [r \in Requests |-> {}]
  /\ answered = [r \in Requests |-> 0]
  /\ restarted = FALSE

GoTo(r, p) == pc' = [pc EXCEPT ![r] = p]

Tick ==
  /\ now < MaxTime
  /\ now' = now + 1
  /\ UNCHANGED <<buckets, sessions, leads, pc, request, held, history>>

-----------------------------------------------------------------------------
(* The endpoint.                                                           *)

\* Mutant: windows start at multiples of their length.
FixedWindow(c) == {e \in buckets[c] : now \div Window = e.ts \div Window}

\* What is left in the client's bucket inside the window.
Bucket(c) == {e \in buckets[c] : now - e.ts < Window}

\* Tokens a browser may present: those that answers have carried.
Issued == {token[q] : q \in {p \in Requests : pc[p] = "done"}} \ {None}

\* public_concierge_chat within the limit; the rest runs in a thread.  A limit of zero
\* keeps no bucket.
Accept(r, c, v, t) ==
  /\ pc[r] = "idle"
  /\ Limit = 0 \/ Cardinality(Bucket(c)) < Limit
  /\ buckets' = IF Limit = 0 THEN buckets
                ELSE [buckets EXCEPT ![c] = Bucket(c) \cup {[by |-> r, ts |-> now]}]
  /\ accepted' = accepted \cup {<<r, c, now>>}
  /\ visitor' = [visitor EXCEPT ![r] = v]
  /\ asked' = [asked EXCEPT ![r] = t]
  /\ GoTo(r, "fallback")
  /\ UNCHANGED <<now, sessions, leads, held, heard, answered, restarted>>

\* 429: the attempt itself is not counted.
Refuse(r, c) ==
  /\ pc[r] = "idle"
  /\ Limit # 0 /\ Cardinality(Bucket(c)) >= Limit
  /\ buckets' = [buckets EXCEPT ![c] = Bucket(c)]
  /\ GoTo(r, "refused")
  /\ UNCHANGED <<now, sessions, leads, request, held, history>>

-----------------------------------------------------------------------------
(* PublicConciergeAI.respond.                                              *)

\* _lead_summary
LeadOf(r) == IF r \in WithContact THEN {r} ELSE {}

\* _record_lead
RecordLead(r) == leads' = leads \cup LeadOf(r)

\* PublicConcierge.respond records the lead before anything else is tried.  In
\* deterministic mode, or for a private-scope message (quiet), its answer is the reply.
Fallback(r, quiet) ==
  /\ pc[r] = "fallback"
  /\ RecordLead(r)
  /\ GoTo(r, IF quiet THEN "done" ELSE "purge")
  /\ UNCHANGED <<now, buckets, sessions, request, held, history>>

\* resolve_public_session: rows not updated within the TTL are deleted ...
Purge(r) ==
  /\ pc[r] = "purge"
  /\ at' = [at EXCEPT ![r] = now]
  /\ sessions' = [t \in Requests |->
       IF sessions[t] # None /\ sessions[t].updated + Ttl < now THEN None ELSE sessions[t]]
  /\ GoTo(r, "lookup")
  /\ UNCHANGED <<now, buckets, leads, request, token, hermes, history>>

\* Mutant: the token alone resumes the conversation.
ReusableByToken(r) ==
  /\ asked[r] # None /\ visitor[r] # None /\ sessions[asked[r]] # None
  /\ at[r] <= sessions[asked[r]].updated + Ttl

\* ... the token is honoured for the visitor it was given to ...
Reusable(r) ==
  /\ asked[r] # None /\ visitor[r] # None /\ sessions[asked[r]] # None
  /\ sessions[asked[r]].visitor = visitor[r]
  /\ at[r] <= sessions[asked[r]].updated + Ttl

\* resolve_public_session returns; its locals are gone.
Resolved(r) ==
  /\ GoTo(r, "hermes")
  /\ asked' = [asked EXCEPT ![r] = None]
  /\ at' = [at EXCEPT ![r] = 0]

\* Mutant: the lookup itself counts as a use of the session.
ReuseTouches(r) ==
  /\ pc[r] = "lookup" /\ Reusable(r)
  /\ sessions' = [sessions EXCEPT ![asked[r]].updated = now]
  /\ token' = [token EXCEPT ![r] = asked[r]]
  /\ hermes' = [hermes EXCEPT ![r] = sessions[asked[r]].hermes]
  /\ Resolved(r)
  /\ UNCHANGED <<now, buckets, leads, visitor, history>>

Reuse(r) ==
  /\ pc[r] = "lookup" /\ Reusable(r)
  /\ token' = [token EXCEPT ![r] = asked[r]]
  /\ hermes' = [hermes EXCEPT ![r] = sessions[asked[r]].hermes]
  /\ Resolved(r)
  /\ UNCHANGED <<now, buckets, sessions, leads, visitor, history>>

\* ... and anyone else gets a new one.
Insert(r) ==
  /\ pc[r] = "lookup" /\ ~Reusable(r)
  /\ sessions' = [sessions EXCEPT ![r] =
       [visitor |-> visitor[r], hermes |-> None, updated |-> at[r]]]
  /\ token' = [token EXCEPT ![r] = r]
  /\ Resolved(r)
  /\ UNCHANGED <<now, buckets, leads, visitor, hermes, history>>

\* The reply, which carries the token; the Hermes session is not told.
Reply(r) ==
  /\ GoTo(r, "done")
  /\ hermes' = [hermes EXCEPT ![r] = None]

\* The Hermes session the turn runs in: --resume, or a new one.
SessionOf(r) == IF hermes[r] = None THEN r ELSE hermes[r]

\* _run_hermes fails, times out or says nothing, or its answer looks like a leak: the
\* fallback's answer is the reply, and nothing is bound.  Hermes may have heard the message.
HermesFails(r) ==
  /\ pc[r] = "hermes"
  /\ heard' \in {heard, [heard EXCEPT ![SessionOf(r)] = @ \cup {r}]}
  /\ Reply(r)
  /\ UNCHANGED <<now, buckets, sessions, leads, request, at, token, accepted, answered,
                 restarted>>

\* Hermes answers; without its session_id line the session resumed so far is kept, and a
\* new one stays unknown.
HermesAnswers(r, line) ==
  /\ pc[r] = "hermes"
  /\ heard' = [heard EXCEPT ![SessionOf(r)] = @ \cup {r}]
  /\ hermes' = [hermes EXCEPT ![r] = IF line THEN SessionOf(r) ELSE @]
  /\ GoTo(r, IF line \/ hermes[r] # None THEN "bind" ELSE "done")
  /\ UNCHANGED <<now, buckets, sessions, leads, request, at, token, accepted, answered,
                 restarted>>

\* bind_public_hermes_session: nothing is written if the row was purged meanwhile.
Bind(r) ==
  /\ pc[r] = "bind"
  /\ sessions' = IF sessions[token[r]] = None THEN sessions
                 ELSE [sessions EXCEPT ![token[r]].hermes = hermes[r],
                                       ![token[r]].updated = now]
  /\ answered' = [answered EXCEPT ![hermes[r]] = now]
  /\ Reply(r)
  /\ UNCHANGED <<now, buckets, leads, request, at, token, accepted, heard, restarted>>

\* The server dies: buckets and requests are gone, the tables stay.
Crash ==
  /\ ~restarted
  /\ restarted' = TRUE
  /\ buckets' = [c \in Clients |-> {}]
  /\ pc' = [r \in Requests |-> IF pc[r] \in {"idle", "refused", "done"} THEN pc[r] ELSE "lost"]
  /\ asked' = [r \in Requests |-> None]
  /\ at' = [r \in Requests |-> 0]
  /\ token' = [r \in Requests |-> IF pc[r] = "done" THEN token[r] ELSE None]
  /\ hermes' = [r \in Requests |-> None]
  /\ UNCHANGED <<now, sessions, leads, visitor, accepted, heard, answered>>

Step(r) ==
  \/ \E quiet \in BOOLEAN : Fallback(r, quiet)
  \/ Purge(r) \/ Reuse(r) \/ Insert(r)
  \/ HermesFails(r) \/ \E line \in BOOLEAN : HermesAnswers(r, line)
  \/ Bind(r)

Next ==
  \/ Tick \/ Crash
  \/ \E r \in Requests :
       \/ \E c \in Clients, v \in Visitors \cup {None}, t \in Issued \cup {None} :
            Accept(r, c, v, t)
       \/ \E c \in Clients : Refuse(r, c)
       \/ Step(r)

Spec == Init /\ [][Next]_vars

-----------------------------------------------------------------------------
(* Properties.                                                             *)

\* docs/public-concierge.md: a token "requires the same visitor id for resume".  However
\* requests overlap, expire and fail, a Hermes session only ever hears one visitor, and a
\* visitor without an id starts a new one with every message.
OneVisitorPerSession ==
  \A h \in Requests : \A p, q \in heard[h] :
    p # q => visitor[p] = visitor[q] /\ visitor[p] # None

\* In any window of the rate limit a client gets at most Limit requests through, as long as
\* the process lives: the buckets are kept in memory (_public_concierge_rate_limit).
WindowLimit ==
  Limit # 0 /\ ~restarted =>
    \A c \in Clients, t \in Times :
      Cardinality({a \in accepted : a[2] = c /\ t <= a[3] /\ a[3] < t + Window}) <= Limit

\* A Hermes session that has stopped answering is given up: no lookup resumes one whose last
\* answer is older than the TTL, although every failed turn reads the same row and replies
\* under the same token (only bind_public_hermes_session sets updated_at again).
DeadSessionGivenUp ==
  [][\A r \in Requests :
       pc[r] = "lookup" /\ hermes'[r] # None => at[r] <= answered[hermes'[r]] + Ttl]_vars

=============================================================================
