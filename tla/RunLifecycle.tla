---------------------------- MODULE RunLifecycle ----------------------------
(***************************************************************************)
(* What the run ledger promises a client of the Runtime API: the status    *)
(* machine of a run and the audit trail that goes with it.  No tasks, no    *)
(* checkpointer, no restarts: RunService is shown to implement this.       *)
(***************************************************************************)
EXTENDS Sequences

CONSTANT Runs

VARIABLES status,    \* status of each run, `absent' before it is created
          approvals  \* decisions recorded for each run

vars == <<status, approvals>>

Terminal == {"completed", "error", "cancelled"}
Open     == {"queued", "running", "interrupted"}

Init ==
  /\ status = [r \in Runs |-> "absent"]
  /\ approvals = [r \in Runs |-> <<>>]

\* The run moves from one of the statuses in from to the status to, with the
\* given decisions (none or one) added to its audit trail.
Move(r, from, to, decisions) ==
  /\ status[r] \in from
  /\ status' = [status EXCEPT ![r] = to]
  /\ approvals' = [approvals EXCEPT ![r] = @ \o decisions]

Create(r)    == Move(r, {"absent"}, "queued", <<>>)
Begin(r)     == Move(r, {"queued"}, "running", <<>>)
Pause(r)     == Move(r, {"running"}, "interrupted", <<>>)
Approve(r)   == Move(r, {"interrupted"}, "running", <<"approved">>)
Cancel(r)    == Move(r, Open, "cancelled", <<"cancelled">>)
End(r)       == \E s \in Terminal : Move(r, {"running"}, s, <<>>)

\* The server stops under a run that waits at its gate.
Abandon(r)   == Move(r, {"interrupted"}, "cancelled", <<>>)

Next ==
  \E r \in Runs : \/ Create(r)
                  \/ Begin(r)
                  \/ Pause(r)
                  \/ Approve(r)
                  \/ Cancel(r)
                  \/ End(r)
                  \/ Abandon(r)

Spec == Init /\ [][Next]_vars
=============================================================================
