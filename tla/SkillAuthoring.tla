--------------------------- MODULE SkillAuthoring ---------------------------
(***************************************************************************)
(* Registration of human-authored skill packages (agent_os/                *)
(* skill_authoring.py and its endpoints in server/api.py): a brief, a       *)
(* validated draft, an explicit confirmation, and the promotion of the      *)
(* draft into the workspace: copy, move, rewrite of workspace.toml, reload. *)
(*                                                                         *)
(* The endpoints are plain functions, so the server runs them in threads;   *)
(* nothing in the module takes a lock.  A thread's steps below are split    *)
(* wherever it looks at or changes something another thread, the author     *)
(* (who edits the draft) or a crash can change: the request's row, the      *)
(* draft, the approved packages, workspace.toml.  A digest stands for the   *)
(* contents it is computed from.                                           *)
(***************************************************************************)
EXTENDS Naturals, FiniteSets

CONSTANTS Requests,  \* authoring requests, one for each candidate
          Skills,    \* suggested skill names: packages below skill-packages/
          Threads,   \* threads that serve the endpoints
          Contents,  \* versions of a draft package
          Loadable,  \* those the package loader accepts under the expected name
          None,      \* no digest, no package
          MaxEdits   \* bound: edits of drafts

ASSUME AuthoringAssumption ==
  /\ Loadable \subseteq Contents
  /\ None \notin Contents \cup Requests \cup Skills
  /\ MaxEdits \in Nat

Statuses == {"none", "brief_ready", "validation_failed", "validated", "cancelled",
             "registered"}

\* Requests that submit_draft and cancel still accept.
OpenStatuses == {"brief_ready", "validation_failed", "validated"}

VARIABLES status,     \* skill_authoring_requests.status
          digest,     \* ... .draft_digest
          skill,      \* ... .suggested_skill_name, part of the brief
          draft,      \* the staged package of each request
          edits,
          installed,  \* skill-packages/<name>: its contents
          config,     \* the approved packages workspace.toml lists
          cached,     \* composed_workspace() holds a runtime
          pc,         \* each thread: what it does next
          req,        \* the request it serves
          seen,       \* the digest it has computed
          copy,       \* the contents of its temporary copy
          original,   \* workspace.toml as it read it
          crashed,    \* history: the server died once
          overlapped  \* history: two threads were promoting at one time

row     == <<status, digest, skill>>
files   == <<draft, edits>>
thread  == <<pc, req, seen, copy, original>>
history == <<crashed, overlapped>>
vars    == <<row, files, installed, config, cached, thread, history>>

Promoting == {"copy", "read config", "move", "check", "replace", "reload", "roll back",
              "remove", "mark"}
Points == Promoting \cup {"idle", "submit", "cancel", "redigest", "revalidate"}

TypeOK ==
  /\ status \in [Requests -> Statuses]
  /\ digest \in [Requests -> Contents \cup {None}]
  /\ skill \in [Requests -> Skills \cup {None}]
  /\ draft \in [Requests -> Contents]
  /\ edits \in 0..MaxEdits
  /\ installed \in [Skills -> Contents \cup {None}]
  /\ config \in SUBSET Skills
  /\ cached \in BOOLEAN
  /\ pc \in [Threads -> Points]
  /\ req \in [Threads -> Requests \cup {None}]
  /\ seen \in [Threads -> Contents \cup {None}]
  /\ copy \in [Threads -> Contents \cup {None}]
  /\ original \in [Threads -> SUBSET Skills]
  /\ crashed \in BOOLEAN /\ overlapped \in BOOLEAN

Init ==
  /\ status = [r \in Requests |-> "none"]
  /\ digest = [r \in Requests |-> None]
  /\ skill = [r \in Requests |-> None]
  /\ draft \in [Requests -> Contents]
  /\ edits = 0
  /\ installed = [s \in Skills |-> None]
  /\ config = {}
  /\ cached = FALSE
  /\ pc = [t \in Threads |-> "idle"]
  /\ req = [t \in Threads |-> None]
  /\ seen = [t \in Threads |-> None]
  /\ copy = [t \in Threads |-> None]
  /\ original = [t \in Threads |-> {}]
  /\ crashed = FALSE /\ overlapped = FALSE

-----------------------------------------------------------------------------
(* Helpers.                                                                *)

\* SkillPackageLoader.load_package under the expected name.
LoaderAccepts(c) == c \in Loadable

\* The preflight process loads the draft as it is at that moment.
Preflight(r) == LoaderAccepts(draft[r])

\* The workspace's skills: a listed package that is missing or refused is an error.  (It may
\* fail for other reasons too: aliases that clash.)
Loads(listed) == \A s \in listed : installed[s] # None /\ LoaderAccepts(installed[s])

\* load_workspace, compose_workspace of what is on disk now.
ComposeWorkspace == Loads(config)

\* _runtime_skill_authoring_service: every call needs the composed workspace.
Service == (cached \/ ComposeWorkspace) /\ cached' = TRUE

\* The thread ends its call, with an answer or an error.
Finish(t) ==
  /\ pc' = [pc EXCEPT ![t] = "idle"]
  /\ req' = [req EXCEPT ![t] = None]
  /\ seen' = [seen EXCEPT ![t] = None]
  /\ copy' = [copy EXCEPT ![t] = None]
  /\ original' = [original EXCEPT ![t] = {}]

GoTo(t, p) == pc' = [pc EXCEPT ![t] = p]

\* update_validation and cancel: UPDATE ... WHERE request_id = ?, whatever the status is now.
SetRow(r, s, d) ==
  /\ status' = [status EXCEPT ![r] = s]
  /\ digest' = [digest EXCEPT ![r] = d]
  /\ UNCHANGED skill

-----------------------------------------------------------------------------
(* Brief, draft, cancellation.                                             *)

\* prepare_brief: one immutable brief for each candidate, a cancelled one included.
PrepareBrief(r, s) ==
  /\ status[r] = "none"
  /\ Service
  /\ status' = [status EXCEPT ![r] = "brief_ready"]
  /\ skill' = [skill EXCEPT ![r] = s]
  /\ UNCHANGED <<digest, files, installed, config, thread, history>>

\* The author edits the staged package.
EditDraft(r, c) ==
  /\ edits < MaxEdits /\ c # draft[r]
  /\ edits' = edits + 1
  /\ draft' = [draft EXCEPT ![r] = c]
  /\ UNCHANGED <<row, installed, config, cached, thread, history>>

\* submit_draft up to the digest of the draft.
SubmitBegin(t, r) ==
  /\ pc[t] = "idle"
  /\ Service
  /\ status[r] \in OpenStatuses
  /\ GoTo(t, "submit")
  /\ req' = [req EXCEPT ![t] = r]
  /\ seen' = [seen EXCEPT ![t] = draft[r]]
  /\ UNCHANGED <<row, files, installed, config, copy, original, history>>

\* The preflight loads the draft as it is now; its verdict is stored with the digest.
SubmitEnd(t) ==
  LET r == req[t] IN
  /\ pc[t] = "submit"
  /\ \/ SetRow(r, IF Preflight(r) THEN "validated" ELSE "validation_failed", seen[t])
     \/ UNCHANGED row  \* the preflight took more than 15 seconds
  /\ Finish(t)
  /\ UNCHANGED <<files, installed, config, cached, history>>

CancelBegin(t, r) ==
  /\ pc[t] = "idle"
  /\ Service
  /\ status[r] \in OpenStatuses
  /\ GoTo(t, "cancel")
  /\ req' = [req EXCEPT ![t] = r]
  /\ UNCHANGED <<row, files, installed, config, seen, copy, original, history>>

CancelEnd(t) ==
  /\ pc[t] = "cancel"
  /\ SetRow(req[t], "cancelled", digest[req[t]])
  /\ Finish(t)
  /\ UNCHANGED <<files, installed, config, cached, history>>

-----------------------------------------------------------------------------
(* confirm_registration.                                                   *)

\* The request is validated and the draft is still the one that was.
ConfirmBegin(t, r) ==
  /\ pc[t] = "idle"
  /\ Service
  /\ status[r] = "validated"
  /\ draft[r] = digest[r]
  /\ GoTo(t, "redigest")
  /\ req' = [req EXCEPT ![t] = r]
  /\ seen' = [seen EXCEPT ![t] = digest[r]]
  /\ UNCHANGED <<row, files, installed, config, copy, original, history>>

\* validate_staged_package computes the digest once more; copy holds it until the verdict.
Redigest(t) ==
  /\ pc[t] = "redigest"
  /\ GoTo(t, "revalidate")
  /\ copy' = [copy EXCEPT ![t] = draft[req[t]]]
  /\ UNCHANGED <<row, files, installed, config, cached, req, seen, original, history>>

\* Verdict: the draft loads now and its second digest is the stored one.
Revalidate(t) ==
  LET r == req[t]
      passed == Preflight(r) /\ copy[t] = seen[t]
  IN
  /\ pc[t] = "revalidate"
  /\ \/ /\ passed
        /\ GoTo(t, "copy")
        /\ overlapped' = (overlapped \/ \E u \in Threads \ {t} : pc[u] \in Promoting)
        /\ UNCHANGED <<row, req, seen, copy, original>>
     \/ /\ ~passed
        /\ SetRow(r, "validation_failed", copy[t])
        /\ Finish(t)
        /\ UNCHANGED overlapped
     \/ UNCHANGED <<row, overlapped>> /\ Finish(t)  \* the preflight timed out
  /\ UNCHANGED <<files, installed, config, cached, crashed>>

\* Mutant: the copy is not loaded again before it is promoted.
CopyUnchecked(t) ==
  /\ pc[t] = "copy"
  /\ GoTo(t, "read config")
  /\ copy' = [copy EXCEPT ![t] = draft[req[t]]]
  /\ UNCHANGED <<req, seen, original, row, files, installed, config, cached, history>>

\* promote_and_register: the destination must be free; the draft is copied as it is now and
\* the copy loaded in a fresh registry.
Copy(t) ==
  LET c == draft[req[t]] IN
  /\ pc[t] = "copy"
  /\ IF installed[skill[req[t]]] = None /\ LoaderAccepts(c)
     THEN /\ GoTo(t, "read config")
          /\ copy' = [copy EXCEPT ![t] = c]
          /\ UNCHANGED <<req, seen, original>>
     ELSE Finish(t)
  /\ UNCHANGED <<row, files, installed, config, cached, history>>

\* read_text, add_skill_path_to_workspace_toml, _write_temp_config: the new text is
\* original with one path more.
ReadConfig(t) ==
  /\ pc[t] = "read config"
  /\ IF skill[req[t]] \in config
     THEN Finish(t)
     ELSE /\ GoTo(t, "move")
          /\ original' = [original EXCEPT ![t] = config]
          /\ UNCHANGED <<req, seen, copy>>
  /\ UNCHANGED <<row, files, installed, config, cached, history>>

Updated(t) == original[t] \cup {skill[req[t]]}

\* Mutant: moved_destination is set before the move, so a refused move removes what is there.
MoveClaimed(t) ==
  LET s == skill[req[t]] IN
  /\ pc[t] = "move"
  /\ installed' = IF installed[s] = None THEN [installed EXCEPT ![s] = copy[t]] ELSE installed
  /\ GoTo(t, IF installed[s] = None THEN "check" ELSE "remove")
  /\ UNCHANGED <<row, files, config, cached, req, seen, copy, original, history>>

\* os.replace of a directory refuses a destination that is there by now.
Move(t) ==
  LET s == skill[req[t]] IN
  /\ pc[t] = "move"
  /\ IF installed[s] = None
     THEN /\ installed' = [installed EXCEPT ![s] = copy[t]]
          /\ GoTo(t, "check")
          /\ UNCHANGED <<req, seen, copy, original>>
     ELSE Finish(t) /\ UNCHANGED installed
  /\ UNCHANGED <<row, files, config, cached, history>>

\* _assert_workspace_config_loads on the temporary text.
CheckConfig(t) ==
  /\ pc[t] = "check"
  /\ \/ Loads(Updated(t)) /\ GoTo(t, "replace")
     \/ GoTo(t, "remove")
  /\ UNCHANGED <<row, files, installed, config, cached, req, seen, copy, original, history>>

ReplaceConfig(t) ==
  /\ pc[t] = "replace"
  /\ config' = Updated(t)
  /\ GoTo(t, "reload")
  /\ UNCHANGED <<row, files, installed, cached, req, seen, copy, original, history>>

\* _reload_workspace_or_rollback: clear the cache, compose what is on disk now.
Reload(t) ==
  /\ pc[t] = "reload"
  /\ \/ ComposeWorkspace /\ cached' = TRUE /\ GoTo(t, "mark")
     \/ cached' = FALSE /\ GoTo(t, "roll back")
  /\ UNCHANGED <<row, files, installed, config, req, seen, copy, original, history>>

\* Mutant: workspace.toml is not restored.
RollBackNothing(t) ==
  /\ pc[t] = "roll back"
  /\ cached' = FALSE
  /\ GoTo(t, "remove")
  /\ UNCHANGED <<row, files, installed, config, req, seen, copy, original, history>>

\* ... and otherwise put back the text this thread read.
RollBack(t) ==
  /\ pc[t] = "roll back"
  /\ config' = original[t]
  /\ cached' = FALSE
  /\ GoTo(t, "remove")
  /\ UNCHANGED <<row, files, installed, req, seen, copy, original, history>>

\* Mutant: the package that was moved in is left behind.
RemoveNothing(t) ==
  /\ pc[t] = "remove"
  /\ Finish(t)
  /\ UNCHANGED <<row, files, installed, config, cached, history>>

\* The handlers of promote_and_register: what this thread moved in is removed again.
RemoveMoved(t) ==
  /\ pc[t] = "remove"
  /\ installed' = [installed EXCEPT ![skill[req[t]]] = None]
  /\ Finish(t)
  /\ UNCHANGED <<row, files, config, cached, history>>

\* mark_registered, unconditional too; the endpoint then clears the cache.
MarkRegistered(t) ==
  /\ pc[t] = "mark"
  /\ status' = [status EXCEPT ![req[t]] = "registered"]
  /\ cached' = FALSE
  /\ Finish(t)
  /\ UNCHANGED <<digest, skill, files, installed, config, history>>

\* The server dies; rows and files stay, with temporary files that nothing reads.
Crash ==
  /\ ~crashed
  /\ crashed' = TRUE
  /\ cached' = FALSE
  /\ pc' = [t \in Threads |-> "idle"]
  /\ req' = [t \in Threads |-> None]
  /\ seen' = [t \in Threads |-> None]
  /\ copy' = [t \in Threads |-> None]
  /\ original' = [t \in Threads |-> {}]
  /\ UNCHANGED <<row, files, installed, config, overlapped>>

Promote(t) == Copy(t) \/ ReadConfig(t) \/ Move(t) \/ CheckConfig(t) \/ ReplaceConfig(t)
                \/ Reload(t) \/ RollBack(t) \/ RemoveMoved(t) \/ MarkRegistered(t)

Next ==
  \/ \E r \in Requests, s \in Skills : PrepareBrief(r, s)
  \/ \E r \in Requests, c \in Contents : EditDraft(r, c)
  \/ \E t \in Threads, r \in Requests : SubmitBegin(t, r) \/ CancelBegin(t, r)
                                          \/ ConfirmBegin(t, r)
  \/ \E t \in Threads : SubmitEnd(t) \/ CancelEnd(t) \/ Redigest(t) \/ Revalidate(t)
                          \/ Promote(t)
  \/ Crash

Spec == Init /\ [][Next]_vars

-----------------------------------------------------------------------------
(* Properties.                                                             *)

Owner(t, s) == pc[t] \in Promoting /\ skill[req[t]] = s

\* A request that reads `registered' has its package on disk, whoever else promotes or rolls
\* back the same name, and after a crash (promote_and_register removes only what it moved).
RegisteredIsInstalled ==
  \A r \in Requests : status[r] = "registered" => installed[skill[r]] # None

\* Edits of the draft between the digests, the preflight and the copy never bring a package
\* into skill-packages/ that the loader refuses (_assert_fresh_loader on the copy).
InstalledLoads == \A s \in Skills : installed[s] \in Loadable \cup {None}

\* A promotion that fails at any point takes back everything it did: without a crash or a
\* second promotion at the same time, a package that no thread is promoting is listed in
\* workspace.toml, and one that is listed is there (move, replace, reload, rollback).
AbortLeavesNothing ==
  ~crashed /\ ~overlapped =>
    \A s \in Skills : (\A t \in Threads : ~Owner(t, s)) =>
      (installed[s] # None <=> s \in config)

\* workspace.toml never lists a package that is not there, also when the server dies between
\* any two steps: the move comes before the rewrite and the rollback before the removal.
ListedIsInstalled == ~overlapped => ComposeWorkspace

=============================================================================
