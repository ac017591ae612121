---------------------------- MODULE SkillProofs -----------------------------
(***************************************************************************)
(* Theorems about how a workspace learns: the outcome learning that mines  *)
(* skill candidates from labelled runs, and the authoring requests that    *)
(* turn a candidate into an installed skill.                               *)
(*                                                                         *)
(* About SkillAuthoring, for any number of requests, skills and threads:   *)
(* what is registered is installed, what is installed loads, what          *)
(* workspace.toml lists is installed, and a failed promotion leaves        *)
(* nothing.  About Learning, for any runs, strategies and thresholds:      *)
(* exploration is even, only labels teach, and an acceptance never         *)
(* demotes what it accepts.                                                *)
(***************************************************************************)
EXTENDS SkillAuthoring, Learning, FiniteSetTheorems, TLAPS

\* The points of promote_and_register at which the thread has moved a package in and has not
\* given it up: moved_destination is set.
Owning == {"check", "replace", "reload", "roll back", "remove", "mark"}

\* A thread serves a request that has a brief, and the brief names the skill.
Briefed ==
  /\ \A r \in Requests : status[r] # "none" => skill[r] \in Skills
  /\ \A t \in Threads : pc[t] # "idle" => req[t] \in Requests /\ status[req[t]] # "none"

\* The temporary copy has been loaded before it is moved.
CopyLoads == \A t \in Threads : pc[t] \in {"read config", "move"} => copy[t] \in Loadable

\* A thread that owns a destination finds its package there, and owns it alone.
Holds ==
  \A t \in Threads : pc[t] \in Owning =>
    /\ installed[skill[req[t]]] # None
    /\ \A u \in Threads \ {t} : pc[u] \in Owning => skill[req[u]] # skill[req[t]]

\* What has been registered no thread owns any more.
Released ==
  \A r \in Requests : status[r] = "registered" =>
    \A t \in Threads : pc[t] \in Owning => skill[req[t]] # skill[r]

IInv == TypeOK /\ Briefed /\ CopyLoads /\ Holds /\ Released
          /\ InstalledLoads /\ RegisteredIsInstalled

\* The points at which the thread has read workspace.toml.
Tracked == Owning \cup {"move"}

\* Without a second promotion at the same time the promoting thread knows workspace.toml: it
\* is the text it read, or that text with its own package, which the text did not list.
ConfigKnown ==
  /\ \A t, u \in Threads : pc[t] \in Promoting /\ pc[u] \in Promoting => t = u
  /\ \A t \in Threads : pc[t] \in Tracked =>
       /\ skill[req[t]] \notin original[t]
       /\ config = IF pc[t] \in {"reload", "roll back", "mark"} THEN Updated(t) ELSE original[t]

ListInv == ~overlapped => ConfigKnown /\ \A s \in config : installed[s] # None

\* A step that leaves workspace.toml, the packages and the promoting threads' knowledge alone.
PromotersKept ==
  /\ UNCHANGED <<overlapped, config, installed>>
  /\ \A u \in Threads :
       /\ pc'[u] \in Promoting => pc[u] \in Promoting
       /\ pc'[u] \in Tracked =>
            pc'[u] = pc[u] /\ original'[u] = original[u] /\ skill'[req'[u]] = skill[req[u]]

\* Without a crash or a second promotion, what is installed and not listed is owned by a
\* thread that will either list it or remove it.
LeftInv ==
  ~crashed /\ ~overlapped =>
    \A s \in Skills : installed[s] # None =>
      s \in config \/ \E t \in Threads : pc[t] \in Owning /\ skill[req[t]] = s

\* Threads that own a destination go on owning it.
OwnersStay ==
  \A u \in Threads : pc[u] \in Owning => pc'[u] \in Owning /\ skill'[req'[u]] = skill[req[u]]

\* Threads keep what they own: nobody gains a destination, and what is owned stays there.
OwnersKept ==
  \A u \in Threads : pc'[u] \in Owning =>
    /\ pc[u] \in Owning
    /\ skill'[req'[u]] = skill[req[u]]
    /\ installed'[skill[req[u]]] = installed[skill[req[u]]]

\* No request becomes registered, and the packages of those that are stay.
RegisteredKept ==
  \A r \in Requests : status'[r] = "registered" =>
    /\ status[r] = "registered"
    /\ skill'[r] = skill[r]
    /\ installed'[skill[r]] = installed[skill[r]]

-----------------------------------------------------------------------------
\* Start-up is well typed.
LEMMA InitTypeOK == Init => TypeOK
<1> SUFFICES ASSUME Init PROVE TypeOK
  OBVIOUS
<1>1. crashed \in BOOLEAN /\ overlapped \in BOOLEAN /\ cached \in BOOLEAN
  BY Zenon DEF Init
<1>2. edits \in 0..MaxEdits
  BY AuthoringAssumption DEF Init
<1>3. /\ status \in [Requests -> Statuses] /\ digest \in [Requests -> Contents \cup {None}]
      /\ skill \in [Requests -> Skills \cup {None}] /\ draft \in [Requests -> Contents]
      /\ installed \in [Skills -> Contents \cup {None}] /\ config \in SUBSET Skills
  BY DEF Init, Statuses
<1>4. /\ pc \in [Threads -> Points] /\ req \in [Threads -> Requests \cup {None}]
      /\ seen \in [Threads -> Contents \cup {None}] /\ copy \in [Threads -> Contents \cup {None}]
      /\ original \in [Threads -> SUBSET Skills]
  BY DEF Init, Points
<1> QED
  BY <1>1, <1>2, <1>3, <1>4 DEF TypeOK

\* Nothing is served, owned or registered at the start.
LEMMA InitIInv == Init => IInv
<1> SUFFICES ASSUME Init PROVE IInv
  OBVIOUS
<1>1. TypeOK
  BY InitTypeOK
<1>2. Briefed /\ CopyLoads /\ Holds /\ Released /\ InstalledLoads /\ RegisteredIsInstalled
  BY DEF Init, Briefed, CopyLoads, Holds, Released, InstalledLoads, RegisteredIsInstalled, Owning
<1> QED
  BY <1>1, <1>2 DEF IInv

\* A thread that ends its call is idle and leaves the others alone.
LEMMA FinishEffect ==
  ASSUME TypeOK, NEW t \in Threads, Finish(t)
  PROVE  /\ pc' \in [Threads -> Points] /\ req' \in [Threads -> Requests \cup {None}]
         /\ seen' \in [Threads -> Contents \cup {None}]
         /\ copy' \in [Threads -> Contents \cup {None}]
         /\ original' \in [Threads -> SUBSET Skills]
         /\ pc'[t] = "idle"
         /\ \A u \in Threads \ {t} : pc'[u] = pc[u] /\ req'[u] = req[u] /\ copy'[u] = copy[u]
  BY DEF Finish, TypeOK, Points

\* A thread that goes on leaves the others where they are.
LEMMA GoToEffect ==
  ASSUME TypeOK, NEW t \in Threads, NEW p \in Points, GoTo(t, p)
  PROVE  /\ pc' \in [Threads -> Points] /\ pc'[t] = p
         /\ \A u \in Threads \ {t} : pc'[u] = pc[u]
  BY DEF GoTo, TypeOK

\* A new verdict keeps the types of the row and every brief.
LEMMA SetRowEffect ==
  ASSUME TypeOK, NEW r \in Requests, NEW s \in Statuses \ {"none"},
         NEW d \in Contents \cup {None}, SetRow(r, s, d)
  PROVE  /\ status' \in [Requests -> Statuses] /\ digest' \in [Requests -> Contents \cup {None}]
         /\ skill' = skill /\ status'[r] = s
         /\ \A q \in Requests \ {r} : status'[q] = status[q]
  BY DEF SetRow, TypeOK

\* TypeOK and Briefed together are inductive: a thread's steps need its request.
LEMMA NextTypeOK == TypeOK /\ Briefed /\ [Next]_vars => TypeOK' /\ Briefed'
<1> SUFFICES ASSUME TypeOK, Briefed, [Next]_vars PROVE TypeOK' /\ Briefed'
  OBVIOUS
<1> USE AuthoringAssumption
<1>1. ASSUME NEW r \in Requests, NEW s \in Skills, PrepareBrief(r, s)
      PROVE  TypeOK' /\ Briefed'
  BY <1>1 DEF PrepareBrief, Service, TypeOK, Statuses, Points, Promoting, row, files, thread,
     history, Briefed
<1>2. ASSUME NEW r \in Requests, NEW c \in Contents, EditDraft(r, c)
      PROVE  TypeOK' /\ Briefed'
  <2>1. edits' \in 0..MaxEdits /\ draft' \in [Requests -> Contents]
    BY <1>2 DEF EditDraft, TypeOK
  <2> QED
    BY <1>2, <2>1 DEF EditDraft, TypeOK, row, thread, history, Briefed
<1>3. ASSUME NEW t \in Threads, NEW r \in Requests, SubmitBegin(t, r)
      PROVE  TypeOK' /\ Briefed'
  BY <1>3 DEF SubmitBegin, Service, GoTo, OpenStatuses, TypeOK, Statuses, Points, Promoting,
     row, files, thread, history, Briefed
<1>4. ASSUME NEW t \in Threads, NEW r \in Requests, CancelBegin(t, r)
      PROVE  TypeOK' /\ Briefed'
  BY <1>4 DEF CancelBegin, Service, GoTo, OpenStatuses, TypeOK, Statuses, Points, Promoting,
     row, files, thread, history, Briefed
<1>5. ASSUME NEW t \in Threads, NEW r \in Requests, ConfirmBegin(t, r)
      PROVE  TypeOK' /\ Briefed'
  BY <1>5 DEF ConfirmBegin, Service, GoTo, OpenStatuses, TypeOK, Statuses, Points, Promoting,
     row, files, thread, history, Briefed
<1>6. ASSUME NEW t \in Threads, SubmitEnd(t)
      PROVE  TypeOK' /\ Briefed'
  <2>1. pc[t] # "idle" /\ req[t] \in Requests /\ status[req[t]] # "none"
    BY <1>6 DEF SubmitEnd, Briefed
  <2>2. seen[t] \in Contents \cup {None}
    BY DEF TypeOK
  <2>3. ASSUME NEW s \in Statuses \ {"none"}, SetRow(req[t], s, seen[t])
        PROVE  TypeOK' /\ Briefed'
    <3>1. /\ status' \in [Requests -> Statuses] /\ digest' \in [Requests -> Contents \cup {None}]
          /\ skill' = skill /\ status'[req[t]] # "none"
          /\ \A q \in Requests \ {req[t]} : status'[q] = status[q]
      BY <2>1, <2>2, <2>3, SetRowEffect
    <3> QED
      BY <1>6, <2>1, <3>1, FinishEffect DEF SubmitEnd, TypeOK, Briefed, files, history
  <2>4. CASE UNCHANGED row
    BY <1>6, <2>4, FinishEffect DEF SubmitEnd, TypeOK, Briefed, files, history, row
  <2> QED
    BY <1>6, <2>3, <2>4 DEF SubmitEnd, Statuses
<1>7. ASSUME NEW t \in Threads, CancelEnd(t)
      PROVE  TypeOK' /\ Briefed'
  BY <1>7 DEF CancelEnd, SetRow, Finish, TypeOK, Statuses, Points, Promoting, row, files,
     thread, history, Briefed
<1>8. ASSUME NEW t \in Threads, Redigest(t)
      PROVE  TypeOK' /\ Briefed'
  BY <1>8 DEF Redigest, GoTo, TypeOK, Statuses, Points, Promoting, row, files, thread, history,
     Briefed
<1>9. ASSUME NEW t \in Threads, Revalidate(t)
      PROVE  TypeOK' /\ Briefed'
  <2>1. pc[t] # "idle" /\ req[t] \in Requests /\ status[req[t]] # "none"
    BY <1>9 DEF Revalidate, Briefed
  <2>2. copy[t] \in Contents \cup {None} /\ "copy" \in Points
    BY DEF TypeOK, Points, Promoting
  <2>3. UNCHANGED <<files, installed, config, cached, crashed>>
    BY <1>9 DEF Revalidate
  <2>4. CASE /\ GoTo(t, "copy")
             /\ overlapped' = (overlapped \/ \E u \in Threads \ {t} : pc[u] \in Promoting)
             /\ UNCHANGED <<row, req, seen, copy, original>>
    <3>1. overlapped' \in BOOLEAN
      BY <2>4, Zenon DEF TypeOK
    <3>2. pc' \in [Threads -> Points] /\ \A u \in Threads \ {t} : pc'[u] = pc[u]
      BY <2>2, <2>4, GoToEffect
    <3> QED
      BY <2>1, <2>3, <2>4, <3>1, <3>2 DEF TypeOK, Briefed, files, row
  <2>5. CASE SetRow(req[t], "validation_failed", copy[t]) /\ Finish(t) /\ UNCHANGED overlapped
    <3>1. /\ status' \in [Requests -> Statuses] /\ digest' \in [Requests -> Contents \cup {None}]
          /\ skill' = skill /\ status'[req[t]] # "none"
          /\ \A q \in Requests \ {req[t]} : status'[q] = status[q]
      <4>1. "validation_failed" \in Statuses \ {"none"}
        BY DEF Statuses
      <4> QED
        BY <2>1, <2>2, <2>5, <4>1, SetRowEffect
    <3> QED
      BY <2>1, <2>3, <2>5, <3>1, FinishEffect DEF TypeOK, Briefed, files
  <2>6. CASE UNCHANGED <<row, overlapped>> /\ Finish(t)
    BY <2>3, <2>6, FinishEffect DEF TypeOK, Briefed, files, row
  <2> QED
    BY <1>9, <2>4, <2>5, <2>6 DEF Revalidate
<1>10. ASSUME NEW t \in Threads, Copy(t)
       PROVE  TypeOK' /\ Briefed'
  <2>1. req[t] \in Requests /\ status[req[t]] # "none" /\ "read config" \in Points
    BY <1>10 DEF Copy, Briefed, Points, Promoting
  <2>2. UNCHANGED <<row, files, installed, config, cached, history>>
    BY <1>10 DEF Copy
  <2>3. CASE /\ GoTo(t, "read config") /\ copy' = [copy EXCEPT ![t] = draft[req[t]]]
             /\ UNCHANGED <<req, seen, original>>
    BY <2>1, <2>2, <2>3, GoToEffect DEF TypeOK, Briefed, files, row, history
  <2>4. CASE Finish(t)
    BY <2>2, <2>4, FinishEffect DEF TypeOK, Briefed, files, row, history
  <2> QED
    BY <1>10, <2>3, <2>4 DEF Copy
<1>11. ASSUME NEW t \in Threads, ReadConfig(t)
       PROVE  TypeOK' /\ Briefed'
  <2>1. req[t] \in Requests /\ status[req[t]] # "none" /\ "move" \in Points
    BY <1>11 DEF ReadConfig, Briefed, Points, Promoting
  <2>2. UNCHANGED <<row, files, installed, config, cached, history>>
    BY <1>11 DEF ReadConfig
  <2>3. CASE /\ GoTo(t, "move") /\ original' = [original EXCEPT ![t] = config]
             /\ UNCHANGED <<req, seen, copy>>
    BY <2>1, <2>2, <2>3, GoToEffect DEF TypeOK, Briefed, files, row, history
  <2>4. CASE Finish(t)
    BY <2>2, <2>4, FinishEffect DEF TypeOK, Briefed, files, row, history
  <2> QED
    BY <1>11, <2>3, <2>4 DEF ReadConfig
<1>12. ASSUME NEW t \in Threads, Move(t)
       PROVE  TypeOK' /\ Briefed'
  <2>1. req[t] \in Requests /\ status[req[t]] # "none" /\ "check" \in Points
    BY <1>12 DEF Move, Briefed, Points, Promoting
  <2>2. UNCHANGED <<row, files, config, cached, history>>
    BY <1>12 DEF Move
  <2>3. CASE /\ installed' = [installed EXCEPT ![skill[req[t]]] = copy[t]]
             /\ GoTo(t, "check") /\ UNCHANGED <<req, seen, copy, original>>
    <3>1. installed' \in [Skills -> Contents \cup {None}]
      BY <2>3 DEF TypeOK
    <3>2. pc' \in [Threads -> Points] /\ \A u \in Threads \ {t} : pc'[u] = pc[u]
      BY <2>1, <2>3, GoToEffect
    <3> QED
      BY <2>1, <2>2, <2>3, <3>1, <3>2 DEF TypeOK, Briefed, files, row, history
  <2>4. CASE Finish(t) /\ UNCHANGED installed
    BY <2>2, <2>4, FinishEffect DEF TypeOK, Briefed, files, row, history
  <2> QED
    BY <1>12, <2>3, <2>4 DEF Move
<1>13. ASSUME NEW t \in Threads, CheckConfig(t)
       PROVE  TypeOK' /\ Briefed'
  BY <1>13 DEF CheckConfig, GoTo, TypeOK, Statuses, Points, Promoting, row, files, thread,
     history, Briefed
<1>14. ASSUME NEW t \in Threads, ReplaceConfig(t)
       PROVE  TypeOK' /\ Briefed'
  BY <1>14 DEF ReplaceConfig, GoTo, Updated, TypeOK, Statuses, Points, Promoting, row, files,
     thread, history, Briefed
<1>15. ASSUME NEW t \in Threads, Reload(t)
       PROVE  TypeOK' /\ Briefed'
  BY <1>15 DEF Reload, GoTo, TypeOK, Statuses, Points, Promoting, row, files, thread, history,
     Briefed
<1>16. ASSUME NEW t \in Threads, RollBack(t)
       PROVE  TypeOK' /\ Briefed'
  BY <1>16 DEF RollBack, GoTo, TypeOK, Statuses, Points, Promoting, row, files, thread, history,
     Briefed
<1>17. ASSUME NEW t \in Threads, RemoveMoved(t)
       PROVE  TypeOK' /\ Briefed'
  <2>1. installed' \in [Skills -> Contents \cup {None}]
    BY <1>17 DEF RemoveMoved, TypeOK
  <2> QED
    BY <1>17, <2>1, FinishEffect DEF RemoveMoved, TypeOK, Briefed, files, row, history
<1>18. ASSUME NEW t \in Threads, MarkRegistered(t)
       PROVE  TypeOK' /\ Briefed'
  <2>1. /\ status' \in [Requests -> Statuses]
        /\ \A r \in Requests : status'[r] = "none" => status[r] = "none"
    BY <1>18 DEF MarkRegistered, TypeOK, Statuses
  <2>2. cached' \in BOOLEAN
    BY <1>18, Zenon DEF MarkRegistered
  <2> QED
    BY <1>18, <2>1, <2>2, FinishEffect DEF MarkRegistered, TypeOK, Briefed, files, history
<1>19. CASE Crash
  BY <1>19 DEF Crash, TypeOK, Statuses, Points, Promoting, row, files, thread, history, Briefed
<1>20. CASE UNCHANGED vars
  BY <1>20 DEF vars, TypeOK, Statuses, Points, Promoting, row, files, thread, history, Briefed
<1> QED
  BY <1>1, <1>2, <1>3, <1>4, <1>5, <1>6, <1>7, <1>8, <1>9, <1>10, <1>11, <1>12, <1>13, <1>14,
     <1>15, <1>16, <1>17, <1>18, <1>19, <1>20 DEF Next, Promote

\* Where owners and registered requests keep what they have, the invariant is kept.
LEMMA Kept ==
  ASSUME Briefed, Holds, Released, RegisteredIsInstalled, OwnersKept, RegisteredKept
  PROVE  Holds' /\ Released' /\ RegisteredIsInstalled'
<1>1. Holds'
  BY DEF Holds, OwnersKept
<1>2. Released'
  BY DEF Released, OwnersKept, RegisteredKept
<1>3. RegisteredIsInstalled'
  BY DEF RegisteredIsInstalled, RegisteredKept
<1> QED
  BY <1>1, <1>2, <1>3

\* The invariant is kept: Move gains a destination, RemoveMoved and MarkRegistered give it up,
\* every other step leaves owners and registered packages alone.
LEMMA NextIInv == IInv /\ [Next]_vars => IInv'
<1> SUFFICES ASSUME IInv, [Next]_vars PROVE IInv'
  OBVIOUS
<1> USE AuthoringAssumption
<1>0. /\ TypeOK /\ Briefed /\ TypeOK' /\ Briefed'
      /\ CopyLoads /\ Holds /\ Released /\ InstalledLoads /\ RegisteredIsInstalled
  BY NextTypeOK DEF IInv
<1>1. ASSUME NEW r \in Requests, NEW s \in Skills, PrepareBrief(r, s)
      PROVE  IInv'
  <2>1. \A q \in Requests \ {r} : status'[q] = status[q] /\ skill'[q] = skill[q]
    BY <1>0, <1>1 DEF PrepareBrief, TypeOK
  <2>2. status'[r] = "brief_ready" /\ status[r] = "none"
    BY <1>0, <1>1 DEF PrepareBrief, TypeOK
  <2>3. UNCHANGED <<installed, pc, req, copy>>
    BY <1>1 DEF PrepareBrief, thread
  <2>4. CopyLoads' /\ InstalledLoads'
    BY <1>0, <2>3 DEF CopyLoads, InstalledLoads
  <2>5. OwnersKept
    BY <1>0, <2>1, <2>2, <2>3 DEF OwnersKept, Briefed, Owning
  <2>6. RegisteredKept
    BY <2>1, <2>2, <2>3 DEF RegisteredKept
  <2> QED
    BY <1>0, <2>4, <2>5, <2>6, Kept DEF IInv
<1>2. ASSUME NEW r \in Requests, NEW c \in Contents, EditDraft(r, c)
      PROVE  IInv'
  <2>1. UNCHANGED <<status, skill, installed, pc, req, copy>>
    BY <1>2 DEF EditDraft, row, thread
  <2>2. CopyLoads' /\ InstalledLoads'
    BY <1>0, <2>1 DEF CopyLoads, InstalledLoads
  <2>3. OwnersKept /\ RegisteredKept
    BY <2>1 DEF OwnersKept, RegisteredKept
  <2> QED
    BY <1>0, <2>2, <2>3, Kept DEF IInv
<1>3. ASSUME NEW t \in Threads, NEW r \in Requests, SubmitBegin(t, r)
      PROVE  IInv'
  <2>1. pc[t] = "idle" /\ pc'[t] \in {"submit"}
        /\ \A u \in Threads \ {t} : pc'[u] = pc[u] /\ req'[u] = req[u] /\ copy'[u] = copy[u]
    BY <1>0, <1>3 DEF SubmitBegin, GoTo, TypeOK
  <2>2. UNCHANGED <<status, skill, installed>>
    BY <1>3 DEF SubmitBegin, row
  <2>4. CopyLoads' /\ InstalledLoads'
    BY <1>0, <2>1, <2>2 DEF CopyLoads, InstalledLoads
  <2>5. OwnersKept
    BY <2>1, <2>2 DEF OwnersKept, Owning
  <2>6. RegisteredKept
    BY <2>2 DEF RegisteredKept
  <2> QED
    BY <1>0, <2>4, <2>5, <2>6, Kept DEF IInv
<1>4. ASSUME NEW t \in Threads, NEW r \in Requests, CancelBegin(t, r)
      PROVE  IInv'
  <2>1. pc[t] = "idle" /\ pc'[t] \in {"cancel"}
        /\ \A u \in Threads \ {t} : pc'[u] = pc[u] /\ req'[u] = req[u] /\ copy'[u] = copy[u]
    BY <1>0, <1>4 DEF CancelBegin, GoTo, TypeOK
  <2>2. UNCHANGED <<status, skill, installed>>
    BY <1>4 DEF CancelBegin, row
  <2>4. CopyLoads' /\ InstalledLoads'
    BY <1>0, <2>1, <2>2 DEF CopyLoads, InstalledLoads
  <2>5. OwnersKept
    BY <2>1, <2>2 DEF OwnersKept, Owning
  <2>6. RegisteredKept
    BY <2>2 DEF RegisteredKept
  <2> QED
    BY <1>0, <2>4, <2>5, <2>6, Kept DEF IInv
<1>5. ASSUME NEW t \in Threads, NEW r \in Requests, ConfirmBegin(t, r)
      PROVE  IInv'
  <2>1. pc[t] = "idle" /\ pc'[t] \in {"redigest"}
        /\ \A u \in Threads \ {t} : pc'[u] = pc[u] /\ req'[u] = req[u] /\ copy'[u] = copy[u]
    BY <1>0, <1>5 DEF ConfirmBegin, GoTo, TypeOK
  <2>2. UNCHANGED <<status, skill, installed>>
    BY <1>5 DEF ConfirmBegin, row
  <2>4. CopyLoads' /\ InstalledLoads'
    BY <1>0, <2>1, <2>2 DEF CopyLoads, InstalledLoads
  <2>5. OwnersKept
    BY <2>1, <2>2 DEF OwnersKept, Owning
  <2>6. RegisteredKept
    BY <2>2 DEF RegisteredKept
  <2> QED
    BY <1>0, <2>4, <2>5, <2>6, Kept DEF IInv
<1>6. ASSUME NEW t \in Threads, SubmitEnd(t)
      PROVE  IInv'
  <2>1. pc[t] = "submit" /\ pc'[t] \in {"idle"}
        /\ \A u \in Threads \ {t} : pc'[u] = pc[u] /\ req'[u] = req[u] /\ copy'[u] = copy[u]
    BY <1>0, <1>6, FinishEffect DEF SubmitEnd, TypeOK
  <2>2. /\ UNCHANGED <<skill, installed>>
        /\ \A q \in Requests : status'[q] = "registered" => status[q] = "registered"
    BY <1>0, <1>6 DEF SubmitEnd, SetRow, TypeOK, row
  <2>4. CopyLoads' /\ InstalledLoads'
    BY <1>0, <2>1, <2>2 DEF CopyLoads, InstalledLoads
  <2>5. OwnersKept
    BY <2>1, <2>2 DEF OwnersKept, Owning
  <2>6. RegisteredKept
    BY <2>2 DEF RegisteredKept
  <2> QED
    BY <1>0, <2>4, <2>5, <2>6, Kept DEF IInv
<1>7. ASSUME NEW t \in Threads, CancelEnd(t)
      PROVE  IInv'
  <2>1. pc[t] = "cancel" /\ pc'[t] \in {"idle"}
        /\ \A u \in Threads \ {t} : pc'[u] = pc[u] /\ req'[u] = req[u] /\ copy'[u] = copy[u]
    BY <1>0, <1>7, FinishEffect DEF CancelEnd, TypeOK
  <2>2. /\ UNCHANGED <<skill, installed>>
        /\ \A q \in Requests : status'[q] = "registered" => status[q] = "registered"
    BY <1>0, <1>7 DEF CancelEnd, SetRow, TypeOK, row
  <2>4. CopyLoads' /\ InstalledLoads'
    BY <1>0, <2>1, <2>2 DEF CopyLoads, InstalledLoads
  <2>5. OwnersKept
    BY <2>1, <2>2 DEF OwnersKept, Owning
  <2>6. RegisteredKept
    BY <2>2 DEF RegisteredKept
  <2> QED
    BY <1>0, <2>4, <2>5, <2>6, Kept DEF IInv
<1>8. ASSUME NEW t \in Threads, Redigest(t)
      PROVE  IInv'
  <2>1. pc[t] = "redigest" /\ pc'[t] \in {"revalidate"}
        /\ \A u \in Threads \ {t} : pc'[u] = pc[u] /\ req'[u] = req[u] /\ copy'[u] = copy[u]
    BY <1>0, <1>8 DEF Redigest, GoTo, TypeOK
  <2>2. UNCHANGED <<status, skill, installed>>
    BY <1>8 DEF Redigest, row
  <2>4. CopyLoads' /\ InstalledLoads'
    BY <1>0, <2>1, <2>2 DEF CopyLoads, InstalledLoads
  <2>5. OwnersKept
    BY <2>1, <2>2 DEF OwnersKept, Owning
  <2>6. RegisteredKept
    BY <2>2 DEF RegisteredKept
  <2> QED
    BY <1>0, <2>4, <2>5, <2>6, Kept DEF IInv
<1>9. ASSUME NEW t \in Threads, Revalidate(t)
      PROVE  IInv'
  <2>1. pc[t] = "revalidate" /\ pc'[t] \in {"idle", "copy"}
        /\ \A u \in Threads \ {t} : pc'[u] = pc[u] /\ req'[u] = req[u] /\ copy'[u] = copy[u]
    BY <1>0, <1>9, FinishEffect DEF Revalidate, GoTo, TypeOK
  <2>2. /\ UNCHANGED <<skill, installed>>
        /\ \A q \in Requests : status'[q] = "registered" => status[q] = "registered"
    BY <1>0, <1>9 DEF Revalidate, SetRow, TypeOK, row
  <2>4. CopyLoads' /\ InstalledLoads'
    BY <1>0, <2>1, <2>2 DEF CopyLoads, InstalledLoads
  <2>5. OwnersKept
    BY <2>1, <2>2 DEF OwnersKept, Owning
  <2>6. RegisteredKept
    BY <2>2 DEF RegisteredKept
  <2> QED
    BY <1>0, <2>4, <2>5, <2>6, Kept DEF IInv
<1>10. ASSUME NEW t \in Threads, Copy(t)
       PROVE  IInv'
  <2>1. pc[t] = "copy" /\ pc'[t] \in {"idle", "read config"}
        /\ \A u \in Threads \ {t} : pc'[u] = pc[u] /\ req'[u] = req[u] /\ copy'[u] = copy[u]
    BY <1>0, <1>10, FinishEffect DEF Copy, GoTo, TypeOK
  <2>2. UNCHANGED <<status, skill, installed>>
    BY <1>10 DEF Copy, row
  <2>3. pc'[t] = "read config" => copy'[t] \in Loadable
    BY <1>0, <1>10, <2>1, FinishEffect DEF Copy, LoaderAccepts, TypeOK
  <2>4. CopyLoads' /\ InstalledLoads'
    BY <1>0, <2>1, <2>2, <2>3 DEF CopyLoads, InstalledLoads
  <2>5. OwnersKept
    BY <2>1, <2>2 DEF OwnersKept, Owning
  <2>6. RegisteredKept
    BY <2>2 DEF RegisteredKept
  <2> QED
    BY <1>0, <2>4, <2>5, <2>6, Kept DEF IInv
<1>11. ASSUME NEW t \in Threads, ReadConfig(t)
       PROVE  IInv'
  <2>1. pc[t] = "read config" /\ pc'[t] \in {"idle", "move"}
        /\ \A u \in Threads \ {t} : pc'[u] = pc[u] /\ req'[u] = req[u] /\ copy'[u] = copy[u]
    BY <1>0, <1>11, FinishEffect DEF ReadConfig, GoTo, TypeOK
  <2>2. UNCHANGED <<status, skill, installed>>
    BY <1>11 DEF ReadConfig, row
  <2>3. pc'[t] = "move" => copy'[t] = copy[t]
    BY <1>0, <1>11, <2>1, FinishEffect DEF ReadConfig, TypeOK
  <2>4. CopyLoads' /\ InstalledLoads'
    BY <1>0, <2>1, <2>2, <2>3 DEF CopyLoads, InstalledLoads
  <2>5. OwnersKept
    BY <2>1, <2>2 DEF OwnersKept, Owning
  <2>6. RegisteredKept
    BY <2>2 DEF RegisteredKept
  <2> QED
    BY <1>0, <2>4, <2>5, <2>6, Kept DEF IInv
<1>12. ASSUME NEW t \in Threads, Move(t)
       PROVE  IInv'
  <2> DEFINE s == skill[req[t]]
  <2>1. req[t] \in Requests /\ s \in Skills /\ copy[t] \in Loadable /\ "check" \in Points
    BY <1>0, <1>12 DEF Move, Briefed, CopyLoads, Points, Promoting
  <2>2. UNCHANGED <<row, files, config, cached, history>>
    BY <1>12 DEF Move
  <2>3. CASE /\ installed[s] = None /\ installed' = [installed EXCEPT ![s] = copy[t]]
             /\ GoTo(t, "check") /\ UNCHANGED <<req, seen, copy, original>>
    <3>1. pc'[t] = "check" /\ \A u \in Threads \ {t} : pc'[u] = pc[u]
      BY <1>0, <2>1, <2>3, GoToEffect
    <3>2. installed'[s] = copy[t] /\ \A k \in Skills \ {s} : installed'[k] = installed[k]
      BY <1>0, <2>1, <2>3 DEF TypeOK
    <3>3. \A u \in Threads \ {t} : pc[u] \in Owning => skill[req[u]] # s
      BY <1>0, <2>3 DEF Holds
    <3>4. \A u \in Threads : pc[u] \in Owning => skill[req[u]] \in Skills
      BY <1>0 DEF Briefed, Owning
    <3>5. \A r \in Requests : status[r] = "registered" => skill[r] \in Skills \ {s}
      BY <1>0, <2>3 DEF Briefed, RegisteredIsInstalled
    <3>6. copy[t] # None
      BY <2>1
    <3>7. CopyLoads'
      BY <1>0, <2>3, <3>1 DEF CopyLoads
    <3>8. InstalledLoads'
      BY <1>0, <2>1, <3>2 DEF InstalledLoads
    <3>9. Holds'
      BY <1>0, <2>2, <2>3, <3>1, <3>2, <3>3, <3>4, <3>6 DEF Holds, row
    <3>10. Released'
      BY <1>0, <2>2, <2>3, <3>1, <3>5 DEF Released, row
    <3>11. RegisteredIsInstalled'
      BY <1>0, <2>2, <3>2, <3>5 DEF RegisteredIsInstalled, row
    <3> QED
      BY <1>0, <3>7, <3>8, <3>9, <3>10, <3>11 DEF IInv
  <2>4. CASE Finish(t) /\ UNCHANGED installed
    <3>1. pc'[t] = "idle" /\ \A u \in Threads \ {t} :
                                pc'[u] = pc[u] /\ req'[u] = req[u] /\ copy'[u] = copy[u]
      BY <1>0, <2>4, FinishEffect
    <3>2. CopyLoads' /\ InstalledLoads'
      BY <1>0, <2>4, <3>1 DEF CopyLoads, InstalledLoads
    <3>3. OwnersKept /\ RegisteredKept
      BY <2>2, <2>4, <3>1 DEF OwnersKept, RegisteredKept, Owning, row
    <3> QED
      BY <1>0, <3>2, <3>3, Kept DEF IInv
  <2> QED
    BY <1>12, <2>3, <2>4 DEF Move
<1>13. ASSUME NEW t \in Threads, CheckConfig(t)
       PROVE  IInv'
  <2>1. pc[t] = "check" /\ pc'[t] \in {"replace", "remove"}
        /\ \A u \in Threads \ {t} : pc'[u] = pc[u] /\ req'[u] = req[u] /\ copy'[u] = copy[u]
    BY <1>0, <1>13 DEF CheckConfig, GoTo, TypeOK
  <2>2. UNCHANGED <<status, skill, installed>>
    BY <1>13 DEF CheckConfig, row
  <2>3. req'[t] = req[t]
    BY <1>13 DEF CheckConfig
  <2>4. CopyLoads' /\ InstalledLoads'
    BY <1>0, <2>1, <2>2 DEF CopyLoads, InstalledLoads
  <2>5. OwnersKept
    BY <2>1, <2>2, <2>3 DEF OwnersKept, Owning
  <2>6. RegisteredKept
    BY <2>2 DEF RegisteredKept
  <2> QED
    BY <1>0, <2>4, <2>5, <2>6, Kept DEF IInv
<1>14. ASSUME NEW t \in Threads, ReplaceConfig(t)
       PROVE  IInv'
  <2>1. pc[t] = "replace" /\ pc'[t] \in {"reload"}
        /\ \A u \in Threads \ {t} : pc'[u] = pc[u] /\ req'[u] = req[u] /\ copy'[u] = copy[u]
    BY <1>0, <1>14 DEF ReplaceConfig, GoTo, TypeOK
  <2>2. UNCHANGED <<status, skill, installed>>
    BY <1>14 DEF ReplaceConfig, row
  <2>3. req'[t] = req[t]
    BY <1>14 DEF ReplaceConfig
  <2>4. CopyLoads' /\ InstalledLoads'
    BY <1>0, <2>1, <2>2 DEF CopyLoads, InstalledLoads
  <2>5. OwnersKept
    BY <2>1, <2>2, <2>3 DEF OwnersKept, Owning
  <2>6. RegisteredKept
    BY <2>2 DEF RegisteredKept
  <2> QED
    BY <1>0, <2>4, <2>5, <2>6, Kept DEF IInv
<1>15. ASSUME NEW t \in Threads, Reload(t)
       PROVE  IInv'
  <2>1. pc[t] = "reload" /\ pc'[t] \in {"mark", "roll back"}
        /\ \A u \in Threads \ {t} : pc'[u] = pc[u] /\ req'[u] = req[u] /\ copy'[u] = copy[u]
    BY <1>0, <1>15 DEF Reload, GoTo, TypeOK
  <2>2. UNCHANGED <<status, skill, installed>>
    BY <1>15 DEF Reload, row
  <2>3. req'[t] = req[t]
    BY <1>15 DEF Reload
  <2>4. CopyLoads' /\ InstalledLoads'
    BY <1>0, <2>1, <2>2 DEF CopyLoads, InstalledLoads
  <2>5. OwnersKept
    BY <2>1, <2>2, <2>3 DEF OwnersKept, Owning
  <2>6. RegisteredKept
    BY <2>2 DEF RegisteredKept
  <2> QED
    BY <1>0, <2>4, <2>5, <2>6, Kept DEF IInv
<1>16. ASSUME NEW t \in Threads, RollBack(t)
       PROVE  IInv'
  <2>1. pc[t] = "roll back" /\ pc'[t] \in {"remove"}
        /\ \A u \in Threads \ {t} : pc'[u] = pc[u] /\ req'[u] = req[u] /\ copy'[u] = copy[u]
    BY <1>0, <1>16 DEF RollBack, GoTo, TypeOK
  <2>2. UNCHANGED <<status, skill, installed>>
    BY <1>16 DEF RollBack, row
  <2>3. req'[t] = req[t]
    BY <1>16 DEF RollBack
  <2>4. CopyLoads' /\ InstalledLoads'
    BY <1>0, <2>1, <2>2 DEF CopyLoads, InstalledLoads
  <2>5. OwnersKept
    BY <2>1, <2>2, <2>3 DEF OwnersKept, Owning
  <2>6. RegisteredKept
    BY <2>2 DEF RegisteredKept
  <2> QED
    BY <1>0, <2>4, <2>5, <2>6, Kept DEF IInv
<1>17. ASSUME NEW t \in Threads, RemoveMoved(t)
       PROVE  IInv'
  <2>1. pc[t] = "remove" /\ pc'[t] \in {"idle"}
        /\ \A u \in Threads \ {t} : pc'[u] = pc[u] /\ req'[u] = req[u] /\ copy'[u] = copy[u]
    BY <1>0, <1>17, FinishEffect DEF RemoveMoved, TypeOK
  <2>2. UNCHANGED <<status, skill>> /\ req[t] \in Requests /\ skill[req[t]] \in Skills
    BY <1>0, <1>17, <2>1 DEF RemoveMoved, row, Briefed
  <2>3. /\ installed'[skill[req[t]]] = None
        /\ \A k \in Skills \ {skill[req[t]]} : installed'[k] = installed[k]
    BY <1>0, <1>17, <2>2 DEF RemoveMoved, TypeOK
  <2>4. CopyLoads' /\ InstalledLoads'
    BY <1>0, <2>1, <2>2, <2>3 DEF CopyLoads, InstalledLoads
  <2>5. OwnersKept
    <3>1. \A u \in Threads \ {t} : pc[u] \in Owning => skill[req[u]] \in Skills \ {skill[req[t]]}
      BY <1>0, <2>1 DEF Holds, Briefed, Owning
    <3> QED
      BY <2>1, <2>2, <2>3, <3>1 DEF OwnersKept, Owning
  <2>6. RegisteredKept
    <3>1. \A r \in Requests : status[r] = "registered" => skill[r] \in Skills \ {skill[req[t]]}
      BY <1>0, <2>1 DEF Released, Briefed, Owning
    <3> QED
      BY <2>2, <2>3, <3>1 DEF RegisteredKept
  <2> QED
    BY <1>0, <2>4, <2>5, <2>6, Kept DEF IInv
<1>18. ASSUME NEW t \in Threads, MarkRegistered(t)
       PROVE  IInv'
  <2>1. pc[t] = "mark" /\ UNCHANGED <<digest, skill, files, installed, config, history>>
    BY <1>18 DEF MarkRegistered
  <2>2. req[t] \in Requests
    BY <1>0, <2>1 DEF Briefed
  <2>3. status'[req[t]] = "registered" /\ \A q \in Requests \ {req[t]} : status'[q] = status[q]
    BY <1>0, <1>18, <2>2 DEF MarkRegistered, TypeOK
  <2>4. pc'[t] = "idle" /\ \A u \in Threads \ {t} :
                              pc'[u] = pc[u] /\ req'[u] = req[u] /\ copy'[u] = copy[u]
    BY <1>0, <1>18, FinishEffect DEF MarkRegistered
  <2>5. CopyLoads' /\ InstalledLoads'
    BY <1>0, <2>1, <2>4 DEF CopyLoads, InstalledLoads
  <2>6. OwnersKept
    BY <2>1, <2>4 DEF OwnersKept, Owning
  <2>7. /\ installed[skill[req[t]]] # None
        /\ \A u \in Threads \ {t} : pc[u] \in Owning => skill[req[u]] # skill[req[t]]
    BY <1>0, <2>1 DEF Holds, Owning
  <2>8. Holds'
    BY <1>0, <2>6 DEF Holds, OwnersKept
  <2>9. Released'
    <3>1. \A u \in Threads : pc'[u] \in Owning => pc[u] \in Owning /\ u # t /\ req'[u] = req[u]
      BY <2>4 DEF Owning
    <3>2. \A u \in Threads : pc'[u] \in Owning => skill[req[u]] # skill[req[t]]
      BY <2>7, <3>1
    <3>3. \A q \in Requests \ {req[t]} : status'[q] = "registered" => status[q] = "registered"
      BY <2>3
    <3> QED
      BY <1>0, <2>1, <3>1, <3>2, <3>3 DEF Released
  <2>10. RegisteredIsInstalled'
    BY <1>0, <2>1, <2>3, <2>7 DEF RegisteredIsInstalled
  <2> QED
    BY <1>0, <2>5, <2>8, <2>9, <2>10 DEF IInv
<1>19. CASE Crash
  <2>1. UNCHANGED <<status, skill, installed>> /\ \A u \in Threads : pc'[u] = "idle"
    BY <1>19 DEF Crash, row
  <2>2. CopyLoads' /\ InstalledLoads'
    BY <1>0, <2>1 DEF CopyLoads, InstalledLoads
  <2>3. OwnersKept /\ RegisteredKept
    BY <2>1 DEF OwnersKept, RegisteredKept, Owning
  <2> QED
    BY <1>0, <2>2, <2>3, Kept DEF IInv
<1>20. CASE UNCHANGED vars
  <2>1. UNCHANGED <<status, skill, installed, pc, req, copy>>
    BY <1>20 DEF vars, row, thread
  <2>2. CopyLoads' /\ InstalledLoads'
    BY <1>0, <2>1 DEF CopyLoads, InstalledLoads
  <2>3. OwnersKept /\ RegisteredKept
    BY <2>1 DEF OwnersKept, RegisteredKept
  <2> QED
    BY <1>0, <2>2, <2>3, Kept DEF IInv
<1> QED
  BY <1>1, <1>2, <1>3, <1>4, <1>5, <1>6, <1>7, <1>8, <1>9, <1>10, <1>11, <1>12, <1>13, <1>14,
     <1>15, <1>16, <1>17, <1>18, <1>19, <1>20 DEF Next, Promote

\* Steps outside a promotion keep what is known of workspace.toml.
LEMMA ListKept ==
  ASSUME ListInv, PromotersKept
  PROVE  ListInv'
<1> SUFFICES ASSUME ~overlapped' PROVE ConfigKnown' /\ \A s \in config' : installed'[s] # None
  BY DEF ListInv
<1>1. ConfigKnown /\ \A s \in config : installed[s] # None
  BY DEF ListInv, PromotersKept
<1>2. ConfigKnown'
  BY <1>1 DEF ConfigKnown, PromotersKept, Updated
<1> QED
  BY <1>1, <1>2 DEF PromotersKept

\* At the start nothing is listed.
LEMMA InitListInv == Init => ListInv
  BY DEF Init, ListInv, ConfigKnown, Promoting, Tracked, Owning

\* A step of the promoting thread itself: what it has to show about workspace.toml.
LEMMA PromoterStep ==
  ASSUME TypeOK, ListInv, NEW t \in Threads, pc[t] \in Promoting, pc'[t] \in Promoting,
         UNCHANGED <<overlapped, skill>>, req'[t] = req[t],
         \A u \in Threads \ {t} : pc'[u] = pc[u],
         ~overlapped => /\ pc'[t] \in Tracked =>
                             /\ skill[req[t]] \notin original'[t]
                             /\ config' = IF pc'[t] \in {"reload", "roll back", "mark"}
                                          THEN original'[t] \cup {skill[req[t]]}
                                          ELSE original'[t]
                        /\ \A s \in config' : installed'[s] # None
  PROVE  ListInv'
<1> SUFFICES ASSUME ~overlapped' PROVE ConfigKnown' /\ \A s \in config' : installed'[s] # None
  BY DEF ListInv
<1>1. ConfigKnown /\ ~overlapped
  BY DEF ListInv
<1>2. \A u \in Threads : pc'[u] \in Promoting => u = t
  BY <1>1 DEF ConfigKnown
<1>3. Tracked \subseteq Promoting
  BY DEF Tracked, Owning, Promoting
<1>4. \A u \in Threads : pc'[u] \in Tracked => u = t
  BY <1>2, <1>3
<1>5. ConfigKnown'
  BY <1>1, <1>2, <1>4 DEF ConfigKnown, Updated
<1> QED
  BY <1>1, <1>5

\* The knowledge of workspace.toml is kept, step by step of the promotion and its rollback.
LEMMA NextListInv == IInv /\ ListInv /\ [Next]_vars => ListInv'
<1> SUFFICES ASSUME IInv, ListInv, [Next]_vars PROVE ListInv'
  OBVIOUS
<1>0. TypeOK /\ Briefed /\ Holds /\ InstalledLoads
  BY DEF IInv
<1>a. Tracked \subseteq Promoting /\ "idle" \notin Promoting
  BY DEF Tracked, Owning, Promoting
<1>1. ASSUME NEW r \in Requests, NEW s \in Skills, PrepareBrief(r, s)
      PROVE  ListInv'
  <2>1. \A u \in Threads : pc[u] # "idle" => skill'[req[u]] = skill[req[u]]
    BY <1>0, <1>1 DEF PrepareBrief, Briefed, TypeOK
  <2>2. PromotersKept
    BY <1>1, <1>a, <2>1 DEF PrepareBrief, PromotersKept, thread, history
  <2> QED
    BY <2>2, ListKept
<1>2. ASSUME NEW r \in Requests, NEW c \in Contents, EditDraft(r, c)
      PROVE  ListInv'
  <2>1. PromotersKept
    BY <1>2 DEF EditDraft, PromotersKept, row, thread, history
  <2> QED
    BY <2>1, ListKept
<1>3. ASSUME NEW t \in Threads, NEW r \in Requests, SubmitBegin(t, r)
      PROVE  ListInv'
  <2>1. pc'[t] = "submit" /\ \A u \in Threads \ {t} : pc'[u] = pc[u] /\ req'[u] = req[u]
    BY <1>0, <1>3 DEF SubmitBegin, GoTo, TypeOK
  <2>2. pc'[t] \notin Promoting
    BY <2>1 DEF Promoting
  <2>3. PromotersKept
    BY <1>3, <1>a, <2>1, <2>2 DEF SubmitBegin, PromotersKept, row, history
  <2> QED
    BY <2>3, ListKept
<1>4. ASSUME NEW t \in Threads, NEW r \in Requests, CancelBegin(t, r)
      PROVE  ListInv'
  <2>1. pc'[t] = "cancel" /\ \A u \in Threads \ {t} : pc'[u] = pc[u] /\ req'[u] = req[u]
    BY <1>0, <1>4 DEF CancelBegin, GoTo, TypeOK
  <2>2. pc'[t] \notin Promoting
    BY <2>1 DEF Promoting
  <2>3. PromotersKept
    BY <1>4, <1>a, <2>1, <2>2 DEF CancelBegin, PromotersKept, row, history
  <2> QED
    BY <2>3, ListKept
<1>5. ASSUME NEW t \in Threads, NEW r \in Requests, ConfirmBegin(t, r)
      PROVE  ListInv'
  <2>1. pc'[t] = "redigest" /\ \A u \in Threads \ {t} : pc'[u] = pc[u] /\ req'[u] = req[u]
    BY <1>0, <1>5 DEF ConfirmBegin, GoTo, TypeOK
  <2>2. pc'[t] \notin Promoting
    BY <2>1 DEF Promoting
  <2>3. PromotersKept
    BY <1>5, <1>a, <2>1, <2>2 DEF ConfirmBegin, PromotersKept, row, history
  <2> QED
    BY <2>3, ListKept
<1>6. ASSUME NEW t \in Threads, SubmitEnd(t)
      PROVE  ListInv'
  <2>1. pc'[t] = "idle" /\ \A u \in Threads \ {t} :
                              pc'[u] = pc[u] /\ req'[u] = req[u] /\ original'[u] = original[u]
    BY <1>0, <1>6 DEF SubmitEnd, Finish, TypeOK
  <2>2. UNCHANGED <<skill, installed, config, overlapped>>
    BY <1>6 DEF SubmitEnd, SetRow, row, history
  <2>3. PromotersKept
    BY <1>a, <2>1, <2>2 DEF PromotersKept
  <2> QED
    BY <2>3, ListKept
<1>7. ASSUME NEW t \in Threads, CancelEnd(t)
      PROVE  ListInv'
  <2>1. pc'[t] = "idle" /\ \A u \in Threads \ {t} :
                              pc'[u] = pc[u] /\ req'[u] = req[u] /\ original'[u] = original[u]
    BY <1>0, <1>7 DEF CancelEnd, Finish, TypeOK
  <2>2. UNCHANGED <<skill, installed, config, overlapped>>
    BY <1>7 DEF CancelEnd, SetRow, row, history
  <2>3. PromotersKept
    BY <1>a, <2>1, <2>2 DEF PromotersKept
  <2> QED
    BY <2>3, ListKept
<1>8. ASSUME NEW t \in Threads, Redigest(t)
      PROVE  ListInv'
  <2>1. pc'[t] = "revalidate" /\ \A u \in Threads \ {t} : pc'[u] = pc[u] /\ req'[u] = req[u]
    BY <1>0, <1>8 DEF Redigest, GoTo, TypeOK
  <2>2. pc'[t] \notin Promoting
    BY <2>1 DEF Promoting
  <2>3. PromotersKept
    BY <1>8, <1>a, <2>1, <2>2 DEF Redigest, PromotersKept, row, history
  <2> QED
    BY <2>3, ListKept
<1>9. ASSUME NEW t \in Threads, Revalidate(t)
      PROVE  ListInv'
  <2>1. UNCHANGED <<installed, config, skill>>
    BY <1>9 DEF Revalidate, SetRow, row
  <2>2. CASE /\ GoTo(t, "copy") /\ UNCHANGED <<req, original>>
             /\ overlapped' = (overlapped \/ \E u \in Threads \ {t} : pc[u] \in Promoting)
    <3> SUFFICES ASSUME ~overlapped' PROVE ConfigKnown' /\ \A s \in config' : installed'[s] # None
      BY DEF ListInv
    <3>1. ~overlapped /\ \A u \in Threads \ {t} : pc[u] \notin Promoting
      BY <2>2
    <3>2. pc'[t] = "copy" /\ \A u \in Threads \ {t} : pc'[u] = pc[u]
      BY <1>0, <2>2 DEF GoTo, TypeOK
    <3>3. \A u \in Threads : pc'[u] \notin Tracked
      BY <1>a, <3>1, <3>2 DEF Tracked, Owning
    <3>4. ConfigKnown'
      BY <3>1, <3>2, <3>3 DEF ConfigKnown
    <3> QED
      BY <2>1, <3>1, <3>4 DEF ListInv
  <2>3. CASE Finish(t) /\ UNCHANGED overlapped
    <3>1. pc'[t] = "idle" /\ \A u \in Threads \ {t} :
                                pc'[u] = pc[u] /\ req'[u] = req[u] /\ original'[u] = original[u]
      BY <1>0, <2>3 DEF Finish, TypeOK
    <3>2. PromotersKept
      BY <1>a, <2>1, <2>3, <3>1 DEF PromotersKept
    <3> QED
      BY <3>2, ListKept
  <2> QED
    BY <1>9, <2>2, <2>3 DEF Revalidate
<1>10. ASSUME NEW t \in Threads, Copy(t)
       PROVE  ListInv'
  <2>1. pc[t] = "copy" /\ UNCHANGED <<installed, config, skill, overlapped>>
    BY <1>10 DEF Copy, row, history
  <2>2. CASE GoTo(t, "read config") /\ UNCHANGED <<req, original>>
    <3>1. pc'[t] = "read config" /\ \A u \in Threads \ {t} : pc'[u] = pc[u]
      BY <1>0, <2>2 DEF GoTo, TypeOK
    <3>2. PromotersKept
      BY <2>1, <2>2, <3>1 DEF PromotersKept, Promoting, Tracked, Owning
    <3> QED
      BY <3>2, ListKept
  <2>3. CASE Finish(t)
    <3>1. pc'[t] = "idle" /\ \A u \in Threads \ {t} :
                                pc'[u] = pc[u] /\ req'[u] = req[u] /\ original'[u] = original[u]
      BY <1>0, <2>3 DEF Finish, TypeOK
    <3>2. PromotersKept
      BY <1>a, <2>1, <2>3, <3>1 DEF PromotersKept
    <3> QED
      BY <3>2, ListKept
  <2> QED
    BY <1>10, <2>2, <2>3 DEF Copy
<1>11. ASSUME NEW t \in Threads, ReadConfig(t)
       PROVE  ListInv'
  <2>1. pc[t] = "read config" /\ UNCHANGED <<installed, config, skill, overlapped>>
    BY <1>11 DEF ReadConfig, row, history
  <2>2. CASE /\ skill[req[t]] \notin config /\ GoTo(t, "move") /\ UNCHANGED req
             /\ original' = [original EXCEPT ![t] = config]
    <3>1. /\ pc'[t] = "move" /\ original'[t] = config
          /\ \A u \in Threads \ {t} : pc'[u] = pc[u]
      BY <1>0, <2>2 DEF GoTo, TypeOK
    <3>2. pc[t] \in Promoting /\ pc'[t] \in Promoting
      BY <2>1, <3>1 DEF Promoting
    <3>3. ~overlapped => \A s \in config : installed[s] # None
      BY DEF ListInv
    <3> QED
      BY <1>0, <2>1, <2>2, <3>1, <3>2, <3>3, PromoterStep
  <2>3. CASE Finish(t)
    <3>1. pc'[t] = "idle" /\ \A u \in Threads \ {t} :
                                pc'[u] = pc[u] /\ req'[u] = req[u] /\ original'[u] = original[u]
      BY <1>0, <2>3 DEF Finish, TypeOK
    <3>2. PromotersKept
      BY <1>a, <2>1, <2>3, <3>1 DEF PromotersKept
    <3> QED
      BY <3>2, ListKept
  <2> QED
    BY <1>11, <2>2, <2>3 DEF ReadConfig
<1>12. ASSUME NEW t \in Threads, Move(t)
       PROVE  ListInv'
  <2>1. pc[t] = "move" /\ UNCHANGED <<config, skill, overlapped>>
    BY <1>12 DEF Move, row, history
  <2>2. CASE /\ installed[skill[req[t]]] = None /\ GoTo(t, "check") /\ UNCHANGED <<req, original>>
             /\ installed' = [installed EXCEPT ![skill[req[t]]] = copy[t]]
    <3>1. pc'[t] = "check" /\ \A u \in Threads \ {t} : pc'[u] = pc[u]
      BY <1>0, <2>2 DEF GoTo, TypeOK
    <3>2. pc[t] \in Promoting /\ pc'[t] \in Promoting /\ pc[t] \in Tracked
      BY <2>1, <3>1 DEF Promoting, Tracked
    <3>3. ~overlapped => /\ skill[req[t]] \notin original[t] /\ config = original[t]
                         /\ \A s \in config : installed[s] # None
      BY <2>1, <3>2 DEF ListInv, ConfigKnown
    <3>4. config \subseteq Skills
      BY <1>0 DEF TypeOK
    <3>5. \A s \in Skills \ {skill[req[t]]} : installed'[s] = installed[s]
      BY <1>0, <2>2 DEF TypeOK
    <3> QED
      BY <1>0, <2>1, <2>2, <3>1, <3>2, <3>3, <3>4, <3>5, PromoterStep
  <2>3. CASE Finish(t) /\ UNCHANGED installed
    <3>1. pc'[t] = "idle" /\ \A u \in Threads \ {t} :
                                pc'[u] = pc[u] /\ req'[u] = req[u] /\ original'[u] = original[u]
      BY <1>0, <2>3 DEF Finish, TypeOK
    <3>2. PromotersKept
      BY <1>a, <2>1, <2>3, <3>1 DEF PromotersKept
    <3> QED
      BY <3>2, ListKept
  <2> QED
    BY <1>12, <2>2, <2>3 DEF Move
<1>13. ASSUME NEW t \in Threads, CheckConfig(t)
       PROVE  ListInv'
  <2>1. pc[t] = "check" /\ UNCHANGED <<installed, config, skill, overlapped, req, original>>
    BY <1>13 DEF CheckConfig, row, history
  <2>2. pc'[t] \in {"replace", "remove"} /\ \A u \in Threads \ {t} : pc'[u] = pc[u]
    BY <1>0, <1>13 DEF CheckConfig, GoTo, TypeOK
  <2>3. pc[t] \in Promoting /\ pc'[t] \in Promoting /\ pc[t] \in Tracked /\ pc[t] \in Owning
    BY <2>1, <2>2 DEF Promoting, Tracked, Owning
  <2>4. ~overlapped => /\ skill[req[t]] \notin original[t] /\ config = original[t]
                       /\ \A s \in config : installed[s] # None
    BY <2>1, <2>3 DEF ListInv, ConfigKnown, Updated
  <2> QED
    BY <1>0, <2>1, <2>2, <2>3, <2>4, PromoterStep
<1>14. ASSUME NEW t \in Threads, ReplaceConfig(t)
       PROVE  ListInv'
  <2>1. pc[t] = "replace" /\ UNCHANGED <<installed, skill, overlapped, req, original>>
    BY <1>14 DEF ReplaceConfig, row, history
  <2>2. pc'[t] = "reload" /\ \A u \in Threads \ {t} : pc'[u] = pc[u]
    BY <1>0, <1>14 DEF ReplaceConfig, GoTo, TypeOK
  <2>3. pc[t] \in Promoting /\ pc'[t] \in Promoting /\ pc[t] \in Tracked /\ pc[t] \in Owning
    BY <2>1, <2>2 DEF Promoting, Tracked, Owning
  <2>4. ~overlapped => /\ skill[req[t]] \notin original[t] /\ config = original[t]
                       /\ \A s \in config : installed[s] # None
    BY <2>1, <2>3 DEF ListInv, ConfigKnown, Updated
  <2>5. config' = original[t] \cup {skill[req[t]]} /\ installed[skill[req[t]]] # None
    BY <1>0, <1>14, <2>3 DEF ReplaceConfig, Updated, Holds
  <2> QED
    BY <1>0, <2>1, <2>2, <2>3, <2>4, <2>5, PromoterStep
<1>15. ASSUME NEW t \in Threads, Reload(t)
       PROVE  ListInv'
  <2>1. pc[t] = "reload" /\ UNCHANGED <<installed, config, skill, overlapped, req, original>>
    BY <1>15 DEF Reload, row, history
  <2>2. pc'[t] \in {"mark", "roll back"} /\ \A u \in Threads \ {t} : pc'[u] = pc[u]
    BY <1>0, <1>15 DEF Reload, GoTo, TypeOK
  <2>3. pc[t] \in Promoting /\ pc'[t] \in Promoting /\ pc[t] \in Tracked /\ pc[t] \in Owning
    BY <2>1, <2>2 DEF Promoting, Tracked, Owning
  <2>4. ~overlapped => /\ skill[req[t]] \notin original[t]
                       /\ config = original[t] \cup {skill[req[t]]}
                       /\ \A s \in config : installed[s] # None
    BY <2>1, <2>3 DEF ListInv, ConfigKnown, Updated
  <2> QED
    BY <1>0, <2>1, <2>2, <2>3, <2>4, PromoterStep
<1>16. ASSUME NEW t \in Threads, RollBack(t)
       PROVE  ListInv'
  <2>1. pc[t] = "roll back" /\ UNCHANGED <<installed, skill, overlapped, req, original>>
    BY <1>16 DEF RollBack, row, history
  <2>2. pc'[t] = "remove" /\ \A u \in Threads \ {t} : pc'[u] = pc[u]
    BY <1>0, <1>16 DEF RollBack, GoTo, TypeOK
  <2>3. pc[t] \in Promoting /\ pc'[t] \in Promoting /\ pc[t] \in Tracked /\ pc[t] \in Owning
    BY <2>1, <2>2 DEF Promoting, Tracked, Owning
  <2>4. ~overlapped => /\ skill[req[t]] \notin original[t]
                       /\ config = original[t] \cup {skill[req[t]]}
                       /\ \A s \in config : installed[s] # None
    BY <2>1, <2>3 DEF ListInv, ConfigKnown, Updated
  <2>5. config' = original[t]
    BY <1>16 DEF RollBack
  <2> QED
    BY <1>0, <2>1, <2>2, <2>3, <2>4, <2>5, PromoterStep
<1>17. ASSUME NEW t \in Threads, RemoveMoved(t)
       PROVE  ListInv'
  <2>1. pc[t] = "remove" /\ UNCHANGED <<config, skill, overlapped>>
    BY <1>17 DEF RemoveMoved, row, history
  <2>2. pc'[t] = "idle" /\ \A u \in Threads \ {t} :
                              pc'[u] = pc[u] /\ req'[u] = req[u] /\ original'[u] = original[u]
    BY <1>0, <1>17 DEF RemoveMoved, Finish, TypeOK
  <2> SUFFICES ASSUME ~overlapped' PROVE ConfigKnown' /\ \A s \in config' : installed'[s] # None
    BY DEF ListInv
  <2>3. ConfigKnown /\ \A s \in config : installed[s] # None
    BY <2>1 DEF ListInv
  <2>4. \A u \in Threads : pc'[u] \notin Promoting
    BY <1>a, <2>1, <2>2, <2>3 DEF ConfigKnown, Promoting
  <2>5. ConfigKnown'
    BY <1>a, <2>4 DEF ConfigKnown
  <2>6. config \subseteq Skills /\ skill[req[t]] \notin config
    BY <1>0, <2>1, <2>3 DEF ConfigKnown, Tracked, Owning, TypeOK
  <2>7. \A s \in Skills \ {skill[req[t]]} : installed'[s] = installed[s]
    BY <1>0, <1>17 DEF RemoveMoved, TypeOK
  <2> QED
    BY <2>1, <2>3, <2>5, <2>6, <2>7
<1>18. ASSUME NEW t \in Threads, MarkRegistered(t)
       PROVE  ListInv'
  <2>1. pc[t] = "mark" /\ UNCHANGED <<installed, config, skill, overlapped>>
    BY <1>18 DEF MarkRegistered, row, history
  <2>2. pc'[t] = "idle" /\ \A u \in Threads \ {t} :
                              pc'[u] = pc[u] /\ req'[u] = req[u] /\ original'[u] = original[u]
    BY <1>0, <1>18 DEF MarkRegistered, Finish, TypeOK
  <2>3. PromotersKept
    BY <1>a, <2>1, <2>2 DEF PromotersKept
  <2> QED
    BY <2>3, ListKept
<1>19. CASE Crash
  <2>1. PromotersKept
    BY <1>19, <1>a DEF Crash, PromotersKept
  <2> QED
    BY <2>1, ListKept
<1>20. CASE UNCHANGED vars
  <2>1. PromotersKept
    BY <1>20 DEF vars, PromotersKept, row, thread, history
  <2> QED
    BY <2>1, ListKept
<1> QED
  BY <1>1, <1>2, <1>3, <1>4, <1>5, <1>6, <1>7, <1>8, <1>9, <1>10, <1>11,
     <1>12, <1>13, <1>14, <1>15, <1>16, <1>17, <1>18, <1>19, <1>20 DEF Next, Promote

-----------------------------------------------------------------------------
(* What a failed promotion leaves.                                         *)

\* At the start nothing is installed.
LEMMA InitLeftInv == Init => LeftInv
  BY DEF Init, LeftInv

\* A step that installs and unlists nothing, and after which every owner still owns.
LEMMA LeftKept ==
  ASSUME LeftInv, OwnersStay, UNCHANGED <<crashed, installed>>,
         overlapped => overlapped', config \subseteq config'
  PROVE  LeftInv'
<1> SUFFICES ASSUME ~crashed, ~overlapped, NEW s \in Skills, installed[s] # None
             PROVE  s \in config' \/ \E t \in Threads : pc'[t] \in Owning /\ skill'[req'[t]] = s
  BY DEF LeftInv
<1>1. s \in config \/ \E t \in Threads : pc[t] \in Owning /\ skill[req[t]] = s
  BY DEF LeftInv
<1> QED
  BY <1>1 DEF OwnersStay

\* A thread that owns nothing may go anywhere without disturbing the owners.
LEMMA OthersOwn ==
  ASSUME NEW t \in Threads, pc[t] \notin Owning, UNCHANGED skill,
         \A u \in Threads \ {t} : pc'[u] = pc[u] /\ req'[u] = req[u]
  PROVE  OwnersStay
  BY DEF OwnersStay

\* Nor does an owner that goes on owning for the same request.
LEMMA OwnerGoesOn ==
  ASSUME TypeOK, NEW t \in Threads, NEW p \in Owning, GoTo(t, p), UNCHANGED <<skill, req>>
  PROVE  OwnersStay
<1>1. pc'[t] = p /\ \A u \in Threads \ {t} : pc'[u] = pc[u]
  BY DEF GoTo, TypeOK
<1> QED
  BY <1>1 DEF OwnersStay

\* Every step of a promotion, its rollback and its handlers accounts for what is installed.
LEMMA NextLeftInv == IInv /\ ListInv /\ LeftInv /\ [Next]_vars => LeftInv'
<1> SUFFICES ASSUME IInv, ListInv, LeftInv, [Next]_vars PROVE LeftInv'
  OBVIOUS
<1>0. TypeOK /\ Briefed /\ Holds
  BY DEF IInv
<1>1. ASSUME NEW r \in Requests, NEW s \in Skills, PrepareBrief(r, s)
      PROVE  LeftInv'
  <2>1. \A u \in Threads : pc[u] # "idle" => skill'[req[u]] = skill[req[u]]
    BY <1>0, <1>1 DEF PrepareBrief, Briefed, TypeOK
  <2>2. OwnersStay
    BY <1>1, <2>1 DEF PrepareBrief, OwnersStay, Owning, thread
  <2> QED
    BY <1>1, <2>2, LeftKept DEF PrepareBrief, history
<1>2. ASSUME NEW r \in Requests, NEW c \in Contents, EditDraft(r, c)
      PROVE  LeftInv'
  <2>1. OwnersStay
    BY <1>2 DEF EditDraft, OwnersStay, row, thread
  <2> QED
    BY <1>2, <2>1, LeftKept DEF EditDraft, history
<1>3. ASSUME NEW t \in Threads, NEW r \in Requests,
             SubmitBegin(t, r) \/ CancelBegin(t, r) \/ ConfirmBegin(t, r)
      PROVE  LeftInv'
  <2>1. /\ pc[t] \notin Owning
        /\ UNCHANGED <<skill, crashed, overlapped, installed, config>>
    BY <1>3 DEF SubmitBegin, CancelBegin, ConfirmBegin, row, history, Owning
  <2>2. \A u \in Threads \ {t} : pc'[u] = pc[u] /\ req'[u] = req[u]
    BY <1>0, <1>3 DEF SubmitBegin, CancelBegin, ConfirmBegin, GoTo, TypeOK
  <2> QED
    BY <2>1, <2>2, OthersOwn, LeftKept
<1>4. ASSUME NEW t \in Threads, SubmitEnd(t) \/ CancelEnd(t)
      PROVE  LeftInv'
  <2>1. /\ pc[t] \notin Owning
        /\ UNCHANGED <<skill, crashed, overlapped, installed, config>>
    BY <1>4 DEF SubmitEnd, CancelEnd, SetRow, row, history, Owning
  <2>2. \A u \in Threads \ {t} : pc'[u] = pc[u] /\ req'[u] = req[u]
    BY <1>0, <1>4, FinishEffect DEF SubmitEnd, CancelEnd
  <2> QED
    BY <2>1, <2>2, OthersOwn, LeftKept
<1>5. ASSUME NEW t \in Threads, Redigest(t)
      PROVE  LeftInv'
  <2>1. /\ pc[t] \notin Owning
        /\ UNCHANGED <<skill, crashed, overlapped, installed, config>>
    BY <1>5 DEF Redigest, row, history, Owning
  <2>2. \A u \in Threads \ {t} : pc'[u] = pc[u] /\ req'[u] = req[u]
    BY <1>0, <1>5 DEF Redigest, GoTo, TypeOK
  <2> QED
    BY <2>1, <2>2, OthersOwn, LeftKept
<1>6. ASSUME NEW t \in Threads, Revalidate(t)
      PROVE  LeftInv'
  <2>1. /\ pc[t] \notin Owning /\ UNCHANGED <<skill, crashed, installed, config>>
    BY <1>6 DEF Revalidate, SetRow, row, Owning
  <2>a. overlapped => overlapped'
    BY <1>6, Zenon DEF Revalidate
  <2>2. \A u \in Threads \ {t} : pc'[u] = pc[u] /\ req'[u] = req[u]
    <3>1. (GoTo(t, "copy") /\ UNCHANGED req) \/ Finish(t)
      BY <1>6 DEF Revalidate
    <3>2. ASSUME GoTo(t, "copy") /\ UNCHANGED req
          PROVE  \A u \in Threads \ {t} : pc'[u] = pc[u] /\ req'[u] = req[u]
      BY <1>0, <3>2 DEF GoTo, TypeOK
    <3> QED
      BY <1>0, <3>1, <3>2, FinishEffect
  <2> QED
    BY <2>1, <2>a, <2>2, OthersOwn, LeftKept
<1>7. ASSUME NEW t \in Threads, Copy(t) \/ ReadConfig(t)
      PROVE  LeftInv'
  <2>1. /\ pc[t] \notin Owning
        /\ UNCHANGED <<skill, crashed, overlapped, installed, config>>
    BY <1>7 DEF Copy, ReadConfig, row, history, Owning
  <2>2. \A u \in Threads \ {t} : pc'[u] = pc[u] /\ req'[u] = req[u]
    <3>1. (\E p \in {"read config", "move"} : GoTo(t, p) /\ UNCHANGED req) \/ Finish(t)
      BY <1>7 DEF Copy, ReadConfig
    <3>2. ASSUME NEW p \in {"read config", "move"}, GoTo(t, p) /\ UNCHANGED req
          PROVE  \A u \in Threads \ {t} : pc'[u] = pc[u] /\ req'[u] = req[u]
      BY <1>0, <3>2 DEF GoTo, TypeOK
    <3> QED
      BY <1>0, <3>1, <3>2, FinishEffect
  <2> QED
    BY <2>1, <2>2, OthersOwn, LeftKept
<1>8. ASSUME NEW t \in Threads, Move(t)
      PROVE  LeftInv'
  <2> DEFINE d == skill[req[t]]
  <2>1. pc[t] \notin Owning /\ UNCHANGED <<skill, crashed, overlapped, config>>
    BY <1>8 DEF Move, row, history, Owning
  <2>2. CASE /\ GoTo(t, "check") /\ UNCHANGED req
             /\ installed' = [installed EXCEPT ![d] = copy[t]]
    <3>1. pc'[t] = "check" /\ \A u \in Threads \ {t} : pc'[u] = pc[u]
      BY <1>0, <2>2 DEF GoTo, TypeOK
    <3>2. pc'[t] \in Owning
      BY <3>1 DEF Owning
    <3>3. \A s \in Skills : s # d => installed'[s] = installed[s]
      BY <1>0, <2>2 DEF TypeOK
    <3> SUFFICES ASSUME ~crashed, ~overlapped, NEW s \in Skills, installed'[s] # None
                 PROVE  s \in config \/ \E u \in Threads : pc'[u] \in Owning /\ skill[req[u]] = s
      BY <2>1, <2>2 DEF LeftInv
    <3>4. CASE s = d
      BY <3>2, <3>4
    <3>5. CASE s # d
      <4>1. s \in config \/ \E u \in Threads : pc[u] \in Owning /\ skill[req[u]] = s
        BY <3>3, <3>5 DEF LeftInv
      <4> QED
        BY <2>1, <3>1, <4>1
    <3> QED
      BY <3>4, <3>5
  <2>3. CASE Finish(t) /\ UNCHANGED installed
    <3>1. \A u \in Threads \ {t} : pc'[u] = pc[u] /\ req'[u] = req[u]
      BY <1>0, <2>3, FinishEffect
    <3> QED
      BY <2>1, <2>3, <3>1, OthersOwn, LeftKept
  <2> QED
    BY <1>8, <2>2, <2>3 DEF Move
<1>9. ASSUME NEW t \in Threads, CheckConfig(t) \/ Reload(t)
      PROVE  LeftInv'
  <2>1. UNCHANGED <<skill, req, crashed, overlapped, installed, config>>
    BY <1>9 DEF CheckConfig, Reload, row, history
  <2>2. \E p \in Owning : GoTo(t, p)
    BY <1>9 DEF CheckConfig, Reload, Owning
  <2> QED
    BY <1>0, <2>1, <2>2, OwnerGoesOn, LeftKept
<1>10. ASSUME NEW t \in Threads, ReplaceConfig(t)
       PROVE  LeftInv'
  <2>1. /\ pc[t] = "replace" /\ UNCHANGED <<skill, req, crashed, overlapped, installed>>
        /\ config' = original[t] \cup {skill[req[t]]} /\ GoTo(t, "reload")
    BY <1>10 DEF ReplaceConfig, Updated, row, history
  <2>2. "reload" \in Owning /\ pc[t] \in Tracked
    BY <2>1 DEF Owning, Tracked
  <2>3. OwnersStay
    BY <1>0, <2>1, <2>2, OwnerGoesOn
  <2>4. ~overlapped => config \subseteq config'
    BY <2>1, <2>2 DEF ListInv, ConfigKnown
  <2>5. CASE overlapped
    BY <2>1, <2>5 DEF LeftInv
  <2>6. CASE ~overlapped
    BY <2>1, <2>3, <2>4, <2>6, LeftKept
  <2> QED
    BY <2>5, <2>6
<1>11. ASSUME NEW t \in Threads, RollBack(t)
       PROVE  LeftInv'
  <2> DEFINE d == skill[req[t]]
  <2>1. /\ pc[t] = "roll back" /\ UNCHANGED <<skill, req, crashed, overlapped, installed>>
        /\ config' = original[t] /\ GoTo(t, "remove")
    BY <1>11 DEF RollBack, row, history
  <2>2. "remove" \in Owning /\ pc[t] \in Tracked /\ pc[t] \in Owning
    BY <2>1 DEF Owning, Tracked
  <2>3. OwnersStay
    BY <1>0, <2>1, <2>2, OwnerGoesOn
  <2>4. ~overlapped => config = config' \cup {d}
    BY <2>1, <2>2 DEF ListInv, ConfigKnown, Updated
  <2> SUFFICES ASSUME ~crashed, ~overlapped, NEW s \in Skills, installed[s] # None
               PROVE  \/ s \in config'
                      \/ \E u \in Threads : pc'[u] \in Owning /\ skill'[req'[u]] = s
    BY <2>1 DEF LeftInv
  <2>5. s \in config \/ \E u \in Threads : pc[u] \in Owning /\ skill[req[u]] = s
    BY DEF LeftInv
  <2>6. pc'[t] \in Owning /\ skill'[req'[t]] = d
    BY <2>2, <2>3 DEF OwnersStay
  <2> QED
    BY <2>3, <2>4, <2>5, <2>6 DEF OwnersStay
<1>12. ASSUME NEW t \in Threads, RemoveMoved(t)
       PROVE  LeftInv'
  <2> DEFINE d == skill[req[t]]
  <2>1. /\ UNCHANGED <<skill, crashed, overlapped, config>> /\ Finish(t)
        /\ installed' = [installed EXCEPT ![d] = None]
    BY <1>12 DEF RemoveMoved, row, history
  <2>2. \A u \in Threads \ {t} : pc'[u] = pc[u] /\ req'[u] = req[u]
    BY <1>0, <2>1, FinishEffect
  <2>3. \A s \in Skills : installed'[s] # None => s # d /\ installed[s] # None
    BY <1>0, <2>1 DEF TypeOK
  <2> SUFFICES ASSUME ~crashed, ~overlapped, NEW s \in Skills, installed'[s] # None
               PROVE  s \in config \/ \E u \in Threads : pc'[u] \in Owning /\ skill[req'[u]] = s
    BY <2>1 DEF LeftInv
  <2>4. s \in config \/ \E u \in Threads : pc[u] \in Owning /\ skill[req[u]] = s
    BY <2>3 DEF LeftInv
  <2> QED
    BY <2>2, <2>3, <2>4
<1>13. ASSUME NEW t \in Threads, MarkRegistered(t)
       PROVE  LeftInv'
  <2> DEFINE d == skill[req[t]]
  <2>1. /\ pc[t] = "mark" /\ UNCHANGED <<skill, crashed, overlapped, config, installed>>
        /\ Finish(t)
    BY <1>13 DEF MarkRegistered, history
  <2>2. \A u \in Threads \ {t} : pc'[u] = pc[u] /\ req'[u] = req[u]
    BY <1>0, <2>1, FinishEffect
  <2>3. pc[t] \in Tracked
    BY <2>1 DEF Owning, Tracked
  <2>4. ~overlapped => d \in config
    BY <2>1, <2>3 DEF ListInv, ConfigKnown, Updated
  <2> SUFFICES ASSUME ~crashed, ~overlapped, NEW s \in Skills, installed[s] # None
               PROVE  s \in config \/ \E u \in Threads : pc'[u] \in Owning /\ skill[req'[u]] = s
    BY <2>1 DEF LeftInv
  <2>5. s \in config \/ \E u \in Threads : pc[u] \in Owning /\ skill[req[u]] = s
    BY DEF LeftInv
  <2> QED
    BY <2>2, <2>4, <2>5
<1>14. CASE Crash
  BY <1>14 DEF Crash, LeftInv
<1>15. CASE UNCHANGED vars
  BY <1>15 DEF vars, LeftInv, row, thread, history
<1> QED
  BY <1>1, <1>2, <1>3, <1>4, <1>5, <1>6, <1>7, <1>8, <1>9, <1>10, <1>11, <1>12, <1>13, <1>14,
     <1>15 DEF Next, Promote

-----------------------------------------------------------------------------
\* The inductive invariant holds in every reachable state.
LEMMA AlwaysIInv == Spec => []IInv
  BY InitIInv, NextIInv, PTL DEF Spec

\* Every reachable state of skill authoring is well typed.
THEOREM AuthoringTypes == Spec => []TypeOK
<1>1. IInv => TypeOK
  BY DEF IInv
<1> QED
  BY <1>1, AlwaysIInv, PTL

\* However requests, threads and edits of drafts overlap and wherever the server dies, the
\* package of a request that reads `registered' is on disk: promote_and_register only
\* removes what it moved in itself, and gives that up when it marks the request.
THEOREM RegisteredStays == Spec => []RegisteredIsInstalled
<1>1. IInv => RegisteredIsInstalled
  BY DEF IInv
<1> QED
  BY <1>1, AlwaysIInv, PTL

\* No edit between the digests, the preflight and the copy brings a package into
\* skill-packages/ that the loader refuses: what is moved is the copy that was loaded.
THEOREM InstalledAlwaysLoads == Spec => []InstalledLoads
<1>1. IInv => InstalledLoads
  BY DEF IInv
<1> QED
  BY <1>1, AlwaysIInv, PTL

\* Nothing is listed that is not there: while promotions do not overlap, workspace.toml
\* composes after every step of promote_and_register and its rollback, so a server that dies
\* between any two of them starts again.
THEOREM WorkspaceComposes == Spec => []ListedIsInstalled
<1>1. Spec => []ListInv
  BY AlwaysIInv, InitListInv, NextListInv, PTL DEF Spec
<1>2. IInv /\ ListInv => ListedIsInstalled
  <2> SUFFICES ASSUME IInv, ListInv, ~overlapped PROVE ComposeWorkspace
    BY DEF ListedIsInstalled
  <2>1. config \subseteq Skills /\ InstalledLoads /\ \A s \in config : installed[s] # None
    BY DEF IInv, TypeOK, ListInv
  <2> QED
    BY <2>1 DEF ComposeWorkspace, Loads, LoaderAccepts, InstalledLoads
<1> QED
  BY <1>1, <1>2, AlwaysIInv, PTL

\* A promotion that fails at any point takes back what it did: without a crash or a second
\* promotion at the same time, the packages no thread is promoting are exactly the ones
\* workspace.toml lists (the handlers of promote_and_register and the rollback of the reload).
THEOREM NothingLeftBehind == Spec => []AbortLeavesNothing
<1>1. Spec => []ListInv
  BY AlwaysIInv, InitListInv, NextListInv, PTL DEF Spec
<1>2. Spec => []LeftInv
  BY <1>1, AlwaysIInv, InitLeftInv, NextLeftInv, PTL DEF Spec
<1>3. ListInv /\ LeftInv => AbortLeavesNothing
  <2>1. Owning \subseteq Promoting
    BY DEF Owning, Promoting
  <2> QED
    BY <2>1 DEF ListInv, LeftInv, AbortLeavesNothing, Owner
<1> QED
  BY <1>1, <1>2, <1>3, AlwaysIInv, PTL

-----------------------------------------------------------------------------
(* Outcome learning: the inductive invariant.                              *)

\* A run has no row until its choice is stored, a hint from its start on and an observation
\* only once it has ended.
PhaseInv ==
  \A r \in Runs :
    /\ phase[r] \in {"new", "deciding"} => assigned[r] = Unset
    /\ phase[r] = "running" => hint[r] # Unset
    /\ obs[r] # Unset => phase[r] = "ended"

LearnInv == LearningTypeOK /\ PhaseInv

-----------------------------------------------------------------------------
(* Type correctness.                                                       *)

LEMMA WinnerType == EvidenceWinner \in Strategies \cup {Unset}
BY DEF EvidenceWinner, Eligible

\* Starting a run, with or without a row.
LEMMA StartKeeps ==
  ASSUME LearnInv, NEW r \in Runs, NEW c \in Choice, Start(r, c), phase[r] # "ended",
         assigned' = assigned \/ Assign(r, c),
         read' \in [Runs -> Strategies \cup {Unset}], obs' = obs
  PROVE  LearnInv'
<1>1. LearningTypeOK'
  BY DEF LearnInv, LearningTypeOK, Start, Assign
<1>2. PhaseInv'
  BY NoRow DEF LearnInv, PhaseInv, LearningTypeOK, Start, Assign
<1> QED
  BY <1>1, <1>2 DEF LearnInv

\* Ending one: what is captured is unlabelled.
LEMMA EndKeeps ==
  ASSUME LearnInv, NEW r \in Runs, phase' = [phase EXCEPT ![r] = "ended"],
         NEW a \in Strategies \cup {GraphTerminal}, Create(r, a, "unknown"),
         read' = read \/ read' = [read EXCEPT ![r] = Unset], UNCHANGED <<assigned, hint>>
  PROVE  LearnInv'
<1>1. [approach |-> a, signal |-> "unknown"] \in Observation
  BY DEF Observation, Signals
<1>2. LearningTypeOK'
  BY <1>1 DEF LearnInv, LearningTypeOK, Create
<1>3. PhaseInv'
  BY <1>1 DEF LearnInv, PhaseInv, LearningTypeOK, Create
<1> QED
  BY <1>2, <1>3 DEF LearnInv

\* A label replaces the signal of an observation.
LEMMA LabelEffect ==
  ASSUME LearningTypeOK, NEW r \in Runs, NEW label \in Labels, RecordOutcome(r, label)
  PROVE  /\ obs[r] \in Observation
         /\ obs' = [obs EXCEPT ![r] = [approach |-> obs[r].approach, signal |-> label]]
         /\ [approach |-> obs[r].approach, signal |-> label] \in Observation
<1>1. obs[r] \in Observation
  BY DEF RecordOutcome, LearningTypeOK
<1>2. obs[r] = [approach |-> obs[r].approach, signal |-> obs[r].signal]
  BY <1>1 DEF Observation
<1>3. [obs[r] EXCEPT !.signal = label] = [approach |-> obs[r].approach, signal |-> label]
  BY <1>2
<1>4. obs' = [obs EXCEPT ![r] = [obs[r] EXCEPT !.signal = label]]
  BY DEF RecordOutcome, LearningTypeOK
<1>5. [approach |-> obs[r].approach, signal |-> label] \in Observation
  BY <1>1 DEF Observation, Signals
<1> QED
  BY <1>1, <1>3, <1>4, <1>5

LEMMA LearnInvInit == LearningInit => LearnInv
BY DEF LearningInit, LearnInv, LearningTypeOK, PhaseInv

LEMMA LearnInvStep ==
  ASSUME LearnInv, [LearningNext]_learningVars
  PROVE  LearnInv'
<1>0. LearningTypeOK /\ PhaseInv
  BY DEF LearnInv
<1>1. CASE UNCHANGED learningVars
  BY <1>1 DEF learningVars, LearnInv, LearningTypeOK, PhaseInv
<1>2. ASSUME NEW r \in Runs, NEW s \in Strategies, SelectUnrecorded(r, s)
      PROVE  LearnInv'
  <2>1. PICK c \in Choice : Start(r, c)
    BY <1>2 DEF SelectUnrecorded, Choice, Reasons
  <2> QED
    BY <1>0, <1>2, <2>1, StartKeeps DEF SelectUnrecorded, LearningTypeOK
<1>3. ASSUME NEW r \in Runs, NEW s \in Strategies, SelectExplicit(r, s)
      PROVE  LearnInv'
  <2>1. [strategy |-> s, reason |-> "explicit"] \in Choice
    BY DEF Choice, Reasons
  <2> QED
    BY <1>0, <1>3, <2>1, StartKeeps DEF SelectExplicit, LearningTypeOK
<1>4. ASSUME NEW r \in Runs, SelectRead(r)
      PROVE  LearnInv'
  BY <1>0, <1>4, WinnerType DEF SelectRead, LearnInv, LearningTypeOK, PhaseInv
<1>5. ASSUME NEW r \in Runs, SelectAssign(r)
      PROVE  LearnInv'
  <2>1. PICK c \in Choice : Assign(r, c) /\ Start(r, c)
    BY <1>0, <1>5 DEF SelectAssign, Choice, Reasons, LeastAssigned, LearningTypeOK
  <2>2. phase[r] = "deciding" /\ read' = [read EXCEPT ![r] = Unset] /\ obs' = obs
    BY <1>5 DEF SelectAssign
  <2>3. read' \in [Runs -> Strategies \cup {Unset}]
    BY <1>0, <2>2 DEF LearningTypeOK
  <2> QED
    BY <2>1, <2>2, <2>3, StartKeeps
<1>6. ASSUME NEW r \in Runs, Complete(r)
      PROVE  LearnInv'
  <2>1. hint[r].strategy \in Strategies
    BY <1>0, <1>6 DEF Complete, PhaseInv, LearningTypeOK, Choice
  <2> QED
    BY <1>6, <2>1, EndKeeps DEF Complete
<1>7. ASSUME NEW r \in Runs, Fail(r)
      PROVE  LearnInv'
  BY <1>7, EndKeeps DEF Fail
<1>8. ASSUME NEW r \in Runs, EndUncaptured(r)
      PROVE  LearnInv'
  BY <1>8, EndKeeps DEF EndUncaptured, Create
<1>9. ASSUME NEW r \in Runs, NEW label \in Labels, RecordOutcome(r, label)
      PROVE  LearnInv'
  <2>1. /\ obs' = [obs EXCEPT ![r] = [approach |-> obs[r].approach, signal |-> label]]
        /\ [approach |-> obs[r].approach, signal |-> label] \in Observation
        /\ obs[r] # Unset
    BY <1>0, <1>9, LabelEffect DEF RecordOutcome
  <2>2. UNCHANGED <<phase, read, assigned, hint>>
    BY <1>9 DEF RecordOutcome
  <2>3. LearningTypeOK'
    BY <1>0, <2>1, <2>2 DEF LearningTypeOK
  <2>4. PhaseInv'
    BY <1>0, <2>1, <2>2 DEF LearningTypeOK, PhaseInv
  <2> QED
    BY <2>3, <2>4 DEF LearnInv
<1> QED
  BY <1>1, <1>2, <1>3, <1>4, <1>5, <1>6, <1>7, <1>8, <1>9
  DEF LearningNext, LabelFromApi, LabelFromCli

LEMMA LearnInvHolds == LearningSpec => []LearnInv
BY LearnInvInit, LearnInvStep, PTL DEF LearningSpec

\* Every reachable state of outcome learning is well typed.
THEOREM LearningTyped == LearningSpec => []LearningTypeOK
<1>1. LearnInv => LearningTypeOK
  BY DEF LearnInv
<1> QED
  BY <1>1, LearnInvHolds, PTL

-----------------------------------------------------------------------------
(* Balanced exploration.                                                   *)

\* Runs with a row for s.
RowsFor(s) == {r \in Runs : assigned[r] # Unset /\ assigned[r].strategy = s}

\* The counts of strategy_assignments are numbers.
LEMMA AssignmentsType ==
  ASSUME NEW s
  PROVE  IsFiniteSet(RowsFor(s)) /\ Assignments(s) = Cardinality(RowsFor(s)) /\ Assignments(s) \in Nat
<1>1. RowsFor(s) \in SUBSET Runs
  BY DEF RowsFor
<1>2. IsFiniteSet(RowsFor(s))
  BY <1>1, LearningAssumption, FS_Subset
<1>3. Assignments(s) = Cardinality(RowsFor(s))
  BY DEF Assignments, RowsFor
<1> QED
  BY <1>2, <1>3, FS_CardinalityType

\* A new row counts for its strategy and for no other.
LEMMA AssignCounts ==
  ASSUME LearningTypeOK, NEW r \in Runs, assigned[r] = Unset, NEW c \in Choice, Assign(r, c)
  PROVE  /\ Assignments(c.strategy)' = Assignments(c.strategy) + 1
         /\ \A s \in Strategies \ {c.strategy} : Assignments(s)' = Assignments(s)
<1>1. /\ assigned' = [assigned EXCEPT ![r] = c] /\ c # Unset
      /\ assigned \in [Runs -> Choice \cup {Unset}]
  BY NoRow DEF Assign, LearningTypeOK
<1>2. RowsFor(c.strategy)' = RowsFor(c.strategy) \cup {r} /\ r \notin RowsFor(c.strategy)
  BY <1>1 DEF RowsFor
<1>3. \A s \in Strategies \ {c.strategy} : RowsFor(s)' = RowsFor(s)
  BY <1>1 DEF RowsFor
<1>4. Cardinality(RowsFor(c.strategy) \cup {r}) = Cardinality(RowsFor(c.strategy)) + 1
  BY <1>2, AssignmentsType, FS_AddElement
<1>5. \A s : Assignments(s) = Cardinality(RowsFor(s)) /\ Assignments(s)' = Cardinality(RowsFor(s)')
  BY DEF Assignments, RowsFor
<1> QED
  BY <1>2, <1>3, <1>4, <1>5

LEMMA BalanceStep ==
  ASSUME LearnInv, BalancedExploration, [LearningNext]_learningVars
  PROVE  BalancedExploration'
<1>0. LearningTypeOK /\ PhaseInv
  BY DEF LearnInv
<1>1. CASE assigned' = assigned
  BY <1>1 DEF BalancedExploration, Assignments
<1>2. ASSUME NEW r \in Runs, phase[r] \in {"new", "deciding"}, NEW c \in Choice, Assign(r, c),
             c.reason = "exploration" => c.strategy \in LeastAssigned
      PROVE  BalancedExploration'
  <2>1. assigned[r] = Unset /\ assigned'[r] = c /\ c # Unset
        /\ \A q \in Runs \ {r} : assigned'[q] = assigned[q]
    BY <1>0, <1>2, NoRow DEF PhaseInv, Assign, LearningTypeOK
  <2> SUFFICES ASSUME \A q \in Runs : assigned'[q] # Unset => assigned'[q].reason = "exploration",
                      NEW s \in Strategies, NEW u \in Strategies
               PROVE  Assignments(s)' <= Assignments(u)' + 1
    BY DEF BalancedExploration
  <2>2. \A q \in Runs : assigned[q] # Unset => assigned[q].reason = "exploration"
    BY <2>1
  <2>3. \A x, y \in Strategies : Assignments(x) <= Assignments(y) + 1
    BY <2>2 DEF BalancedExploration
  <2>4. c.strategy \in Strategies /\ \A x \in Strategies : Assignments(c.strategy) <= Assignments(x)
    BY <1>2, <2>1 DEF LeastAssigned
  <2>5. /\ Assignments(c.strategy)' = Assignments(c.strategy) + 1
        /\ \A x \in Strategies \ {c.strategy} : Assignments(x)' = Assignments(x)
    BY <1>0, <1>2, <2>1, AssignCounts
  <2>6. \A x : Assignments(x) \in Nat
    BY AssignmentsType
  <2>7. s # c.strategy => Assignments(s)' = Assignments(s)
    BY <2>5
  <2>8. u # c.strategy => Assignments(u)' = Assignments(u)
    BY <2>5
  <2>9. /\ Assignments(s) \in Nat /\ Assignments(u) \in Nat
        /\ Assignments(s) <= Assignments(u) + 1
        /\ s = c.strategy => Assignments(s) <= Assignments(u)
    BY <2>3, <2>4, <2>6
  <2>10. CASE s = c.strategy /\ u = c.strategy
    BY <2>5, <2>9, <2>10
  <2>11. CASE s = c.strategy /\ u # c.strategy
    BY <2>5, <2>8, <2>9, <2>11
  <2>12. CASE s # c.strategy /\ u = c.strategy
    BY <2>5, <2>7, <2>9, <2>12
  <2>13. CASE s # c.strategy /\ u # c.strategy
    BY <2>7, <2>8, <2>9, <2>13
  <2> QED
    BY <2>10, <2>11, <2>12, <2>13
<1>3. ASSUME NEW r \in Runs, NEW s \in Strategies, SelectExplicit(r, s)
      PROVE  BalancedExploration'
  <2>1. [strategy |-> s, reason |-> "explicit"] \in Choice
    BY DEF Choice, Reasons
  <2> QED
    BY <1>2, <1>3, <2>1 DEF SelectExplicit
<1>4. ASSUME NEW r \in Runs, SelectAssign(r)
      PROVE  BalancedExploration'
  <2>1. PICK c \in Choice : Assign(r, c) /\ (c.reason = "exploration" => c.strategy \in LeastAssigned)
    BY <1>0, <1>4 DEF SelectAssign, Choice, Reasons, LeastAssigned, LearningTypeOK
  <2> QED
    BY <1>2, <1>4, <2>1 DEF SelectAssign
<1>5. UNCHANGED learningVars => assigned' = assigned
  BY DEF learningVars
<1>6. ASSUME NEW r \in Runs
      PROVE  /\ \A s \in Strategies : SelectUnrecorded(r, s) => assigned' = assigned
             /\ SelectRead(r) \/ Complete(r) \/ Fail(r) \/ EndUncaptured(r) => assigned' = assigned
             /\ \A label \in Labels : RecordOutcome(r, label) => assigned' = assigned
  BY DEF SelectUnrecorded, SelectRead, Complete, Fail, EndUncaptured, RecordOutcome
<1> QED
  BY <1>1, <1>3, <1>4, <1>5, <1>6 DEF LearningNext, LabelFromApi, LabelFromCli

\* For any number of strategies and of runs that decide at the same time, exploration gives
\* no strategy two rows more than another.
THEOREM ExplorationIsEven == LearningSpec => []BalancedExploration
<1>1. LearningInit => BalancedExploration
  <2> SUFFICES ASSUME LearningInit PROVE BalancedExploration
    OBVIOUS
  <2>1. \A s : Assignments(s) = Cardinality({})
    <3> SUFFICES ASSUME NEW s PROVE RowsFor(s) = {}
      BY AssignmentsType
    <3> QED
      BY DEF LearningInit, RowsFor
  <2> QED
    BY <2>1, FS_EmptySet DEF BalancedExploration
<1>2. LearnInv /\ BalancedExploration /\ [LearningNext]_learningVars => BalancedExploration'
  BY BalanceStep
<1> QED
  BY <1>1, <1>2, LearnInvHolds, PTL DEF LearningSpec

-----------------------------------------------------------------------------
(* What teaches.                                                           *)

\* The strategies _evidence_winner chooses from.
Winners ==
  {s \in Eligible : /\ Eligible # {s}
                    /\ ScoreAtLeast(Of(s), MinScore)
                    /\ \A u \in Eligible \ {s} : Leads(s, u)}

Chosen(W) == IF W = {} THEN Unset ELSE CHOOSE s \in W : TRUE

LEMMA WinnerIsChosen == EvidenceWinner = Chosen(Winners) /\ EvidenceWinner' = Chosen(Winners')
<1>1. EvidenceWinner = Chosen(Winners)
  BY DEF EvidenceWinner, Winners, Chosen
<1>2. EvidenceWinner' = Chosen(Winners')
  BY DEF EvidenceWinner, Winners, Chosen
<1> QED
  BY <1>1, <1>2

\* Unless a label is given or changed, what a step adds is unlabelled.
LEMMA NewsIsUnlabelled ==
  ASSUME LearnInv, [LearningNext]_learningVars, \A r \in Runs : obs[r] # Unset => obs'[r] = obs[r]
  PROVE  \A q \in Runs : obs'[q] = obs[q] \/ (obs[q] = Unset /\ obs'[q].signal = "unknown")
<1>0. LearningTypeOK
  BY DEF LearnInv
<1>1. ASSUME NEW r \in Runs, NEW a, Create(r, a, "unknown")
      PROVE  \A q \in Runs : obs'[q] = obs[q] \/ (obs[q] = Unset /\ obs'[q].signal = "unknown")
  BY <1>0, <1>1 DEF Create, LearningTypeOK
<1>2. ASSUME NEW r \in Runs
      PROVE  /\ Complete(r) => Create(r, hint[r].strategy, "unknown")
             /\ Fail(r) => Create(r, GraphTerminal, "unknown")
  BY DEF Complete, Fail
<1>3. ASSUME NEW r \in Runs, NEW label \in Labels, RecordOutcome(r, label)
      PROVE  \A q \in Runs : obs'[q] = obs[q]
  BY <1>0, <1>3 DEF RecordOutcome, LearningTypeOK
<1>4. ASSUME NEW r \in Runs
      PROVE  /\ \A s \in Strategies : SelectUnrecorded(r, s) \/ SelectExplicit(r, s) => obs' = obs
             /\ SelectRead(r) \/ SelectAssign(r) \/ EndUncaptured(r) => obs' = obs
  BY DEF SelectUnrecorded, SelectExplicit, SelectRead, SelectAssign, EndUncaptured
<1>5. UNCHANGED learningVars => obs' = obs
  BY DEF learningVars
<1> QED
  BY <1>1, <1>2, <1>3, <1>4, <1>5 DEF LearningNext, LabelFromApi, LabelFromCli

\* Such a step leaves every count of labels as it was.
LEMMA CountsStay ==
  ASSUME \A q \in Runs : obs'[q] = obs[q] \/ (obs[q] = Unset /\ obs'[q].signal = "unknown")
  PROVE  /\ \A s : Labelled(Of(s))' = Labelled(Of(s)) /\ LabelPoints(Of(s))' = LabelPoints(Of(s))
         /\ \A g : /\ Labelled(SignedBy(g))' = Labelled(SignedBy(g))
                   /\ LabelPoints(SignedBy(g))' = LabelPoints(SignedBy(g))
<1>1. ASSUME NEW s, NEW label \in Labels
      PROVE  Count(Of(s), label)' = Count(Of(s), label)
  <2>1. {r \in Of(s) : obs[r] # Unset /\ obs[r].signal = label}'
          = {r \in Of(s) : obs[r] # Unset /\ obs[r].signal = label}
    BY <1>1 DEF Of, Labels
  <2> QED
    BY <2>1 DEF Count
<1>2. ASSUME NEW g, NEW label \in Labels
      PROVE  Count(SignedBy(g), label)' = Count(SignedBy(g), label)
  <2>1. {r \in SignedBy(g) : obs[r] # Unset /\ obs[r].signal = label}'
          = {r \in SignedBy(g) : obs[r] # Unset /\ obs[r].signal = label}
    BY <1>2 DEF SignedBy, Labels
  <2> QED
    BY <2>1 DEF Count
<1>3. "accepted" \in Labels /\ "rejected" \in Labels /\ "edited" \in Labels
  BY DEF Labels
<1>4. ASSUME NEW s
      PROVE  Labelled(Of(s))' = Labelled(Of(s)) /\ LabelPoints(Of(s))' = LabelPoints(Of(s))
  BY <1>1, <1>3 DEF Labelled, LabelPoints
<1>5. ASSUME NEW g
      PROVE  /\ Labelled(SignedBy(g))' = Labelled(SignedBy(g))
             /\ LabelPoints(SignedBy(g))' = LabelPoints(SignedBy(g))
  BY <1>2, <1>3 DEF Labelled, LabelPoints
<1> QED
  BY <1>4, <1>5

\* Only labels teach: a run that starts, explores or ends changes neither the winner nor the
\* candidates.
THEOREM LabelsAloneTeach == LearningSpec => OnlyLabelsTeach
<1>1. ASSUME LearnInv, [LearningNext]_learningVars, \A r \in Runs : obs[r] # Unset => obs'[r] = obs[r]
      PROVE  EvidenceWinner' = EvidenceWinner /\ Candidates' = Candidates
  <2>1. /\ \A s : Labelled(Of(s))' = Labelled(Of(s)) /\ LabelPoints(Of(s))' = LabelPoints(Of(s))
        /\ \A g : /\ Labelled(SignedBy(g))' = Labelled(SignedBy(g))
                  /\ LabelPoints(SignedBy(g))' = LabelPoints(SignedBy(g))
    BY <1>1, NewsIsUnlabelled, CountsStay
  <2>2. Eligible' = Eligible
    BY <2>1 DEF Eligible
  <2>3. \A s, u : Leads(s, u)' = Leads(s, u)
    BY <2>1 DEF Leads
  <2>4. \A s : ScoreAtLeast(Of(s), MinScore)' = ScoreAtLeast(Of(s), MinScore)
    BY <2>1 DEF ScoreAtLeast
  <2>5. Winners' = Winners
    BY <2>2, <2>3, <2>4 DEF Winners
  <2>6. EvidenceWinner' = EvidenceWinner
    BY <2>5, WinnerIsChosen
  <2>7. Candidates' = Candidates
    BY <2>1 DEF Candidates, ScoreAtLeast
  <2> QED
    BY <2>6, <2>7
<1>2. LearnInv /\ [LearningNext]_learningVars =>
        [(\A r \in Runs : obs[r] # Unset => obs'[r] = obs[r])
           => /\ EvidenceWinner' = EvidenceWinner
              /\ Candidates' = Candidates]_learningVars
  BY <1>1
<1> QED
  BY <1>2, LearnInvHolds, PTL DEF LearningSpec, OnlyLabelsTeach

-----------------------------------------------------------------------------
(* Good news.                                                              *)

\* How an acceptance moves points and labels: an unlabelled run is one label and two points,
\* a rejected one two points, an edited one a point.
Better(p, l, p2, l2) ==
  \/ p2 = p + 2 /\ l2 = l + 1
  \/ p2 = p + 2 /\ l2 = l
  \/ p2 = p + 1 /\ l2 = l

\* A score above the threshold stays there.
LEMMA ScoreGrows ==
  ASSUME NEW m \in 0..100, NEW p \in Nat, NEW l \in Nat, NEW p2 \in Nat, NEW l2 \in Nat,
         Better(p, l, p2, l2), 100 * p >= m * 2 * l
  PROVE  100 * p2 >= m * 2 * l2
<1>1. m \in Nat /\ m <= 100
  OBVIOUS
<1>2. CASE l2 = l
  BY <1>2 DEF Better
<1>3. CASE p2 = p + 2 /\ l2 = l + 1
  <2>1. m * 2 * (l + 1) = m * 2 * l + m * 2
    BY <1>1
  <2> QED
    BY <1>1, <1>3, <2>1
<1> QED
  BY <1>2, <1>3 DEF Better

\* What has a positive multiple that is not negative is not negative.
LEMMA Cancel ==
  ASSUME NEW l \in Nat, l > 0, NEW x \in Int, l * x >= 0
  PROVE  x >= 0
OBVIOUS

\* A lead stays a lead: whoever leads by the margin leaves the other short of full marks by it.
LEMMA LeadGrows ==
  ASSUME NEW m \in 1..100, NEW p \in Nat, NEW l \in Nat, NEW q \in Nat, NEW k \in Nat,
         NEW p2 \in Nat, NEW l2 \in Nat, Better(p, l, p2, l2), p <= 2 * l, l > 0,
         100 * (p * k - q * l) >= m * 2 * l * k
  PROVE  100 * (p2 * k - q * l2) >= m * 2 * l2 * k
<1>1. m \in Nat /\ m <= 100
  OBVIOUS
<1>2. CASE l2 = l
  <2>1. p2 * k >= p * k
    BY <1>2 DEF Better
  <2>2. p2 * k \in Int /\ p * k \in Int /\ q * l \in Int /\ m * 2 * l * k \in Int
    BY <1>1
  <2> QED
    BY <1>2, <2>1, <2>2
<1>3. CASE p2 = p + 2 /\ l2 = l + 1
  <2>1. p * k <= 2 * l * k
    OBVIOUS
  <2>2. p * k \in Int /\ q * l \in Int /\ l * k \in Int /\ m * 2 * l * k \in Int /\ m * 2 * k \in Int
    BY <1>1
  <2>3. 200 * (l * k) >= 100 * (q * l) + m * 2 * l * k
    BY <2>1, <2>2
  <2>4. l * (200 * k - 100 * q - m * 2 * k) = 200 * (l * k) - 100 * (q * l) - m * 2 * l * k
    BY <1>1
  <2>5. 200 * k - 100 * q - m * 2 * k \in Int
    BY <1>1
  <2>6. l * (200 * k - 100 * q - m * 2 * k) >= 0
    BY <2>2, <2>3, <2>4
  <2>7. 200 * k - 100 * q - m * 2 * k >= 0
    BY <2>5, <2>6, Cancel
  <2>8. (p + 2) * k = p * k + 2 * k /\ q * (l + 1) = q * l + q
        /\ m * 2 * (l + 1) * k = m * 2 * l * k + m * 2 * k
    BY <1>1
  <2> QED
    BY <1>3, <2>2, <2>7, <2>8
<1> QED
  BY <1>2, <1>3 DEF Better

\* Two strategies do not lead each other.
LEMMA LeadIsOneWay ==
  ASSUME NEW m \in 1..100, NEW p \in Nat, NEW l \in Nat, NEW q \in Nat, NEW k \in Nat,
         l > 0, k > 0, 100 * (p * k - q * l) >= m * 2 * l * k, 100 * (q * l - p * k) >= m * 2 * k * l
  PROVE  FALSE
<1>1. p * k \in Int /\ q * l \in Int /\ m \in Nat /\ m >= 1
  OBVIOUS
<1>2. l * k > 0 /\ l * k \in Int
  OBVIOUS
<1>3. m * 2 * l * k = 2 * (m * (l * k)) /\ m * 2 * k * l = 2 * (m * (l * k)) /\ m * (l * k) > 0
  BY <1>1, <1>2
<1>4. m * (l * k) \in Int
  BY <1>1, <1>2
<1> QED
  BY <1>1, <1>3, <1>4

\* The runs of R with this label in the observations o, and what they add up to.
SignedIn(o, R, label) == {q \in R : o[q] # Unset /\ o[q].signal = label}
CountIn(o, R, label)  == Cardinality(SignedIn(o, R, label))
LabelledIn(o, R) == CountIn(o, R, "accepted") + CountIn(o, R, "rejected") + CountIn(o, R, "edited")
PointsIn(o, R)   == 2 * CountIn(o, R, "accepted") + CountIn(o, R, "edited")

\* The counts are numbers, and full marks are two points for each label.
LEMMA CountType ==
  ASSUME NEW o, NEW R \in SUBSET Runs
  PROVE  /\ \A label : IsFiniteSet(SignedIn(o, R, label)) /\ CountIn(o, R, label) \in Nat
         /\ LabelledIn(o, R) \in Nat /\ PointsIn(o, R) \in Nat
         /\ PointsIn(o, R) <= 2 * LabelledIn(o, R)
<1>1. ASSUME NEW label
      PROVE  IsFiniteSet(SignedIn(o, R, label)) /\ CountIn(o, R, label) \in Nat
  <2>1. SignedIn(o, R, label) \in SUBSET Runs
    BY DEF SignedIn
  <2>2. IsFiniteSet(SignedIn(o, R, label))
    BY <2>1, LearningAssumption, FS_Subset
  <2> QED
    BY <2>2, FS_CardinalityType DEF CountIn
<1>2. /\ CountIn(o, R, "accepted") \in Nat
      /\ CountIn(o, R, "rejected") \in Nat
      /\ CountIn(o, R, "edited") \in Nat
  BY <1>1
<1> QED
  BY <1>1, <1>2 DEF LabelledIn, PointsIn

\* Runs whose observations stay count as before.
LEMMA OthersCount ==
  ASSUME NEW o, NEW n, NEW R \in SUBSET Runs, \A q \in R : n[q] = o[q]
  PROVE  LabelledIn(n, R) = LabelledIn(o, R) /\ PointsIn(n, R) = PointsIn(o, R)
<1>1. \A label : SignedIn(n, R, label) = SignedIn(o, R, label)
  BY DEF SignedIn
<1> QED
  BY <1>1 DEF LabelledIn, PointsIn, CountIn

\* A run of R that becomes accepted makes R better.
LEMMA AcceptCounts ==
  ASSUME NEW o, NEW n, NEW R \in SUBSET Runs, NEW r \in R, o[r] # Unset, n[r] # Unset,
         o[r].signal \in Signals \ {"accepted"}, n[r].signal = "accepted",
         \A q \in R \ {r} : n[q] = o[q]
  PROVE  Better(PointsIn(o, R), LabelledIn(o, R), PointsIn(n, R), LabelledIn(n, R))
<1>1. /\ SignedIn(n, R, "accepted") = SignedIn(o, R, "accepted") \cup {r}
      /\ r \notin SignedIn(o, R, "accepted")
  BY DEF SignedIn
<1>2. CountIn(n, R, "accepted") = CountIn(o, R, "accepted") + 1
  BY <1>1, CountType, FS_AddElement DEF CountIn
<1>3. ASSUME NEW label \in {"rejected", "edited"}
      PROVE  CountIn(n, R, label) = IF o[r].signal = label THEN CountIn(o, R, label) - 1
                                    ELSE CountIn(o, R, label)
  <2>1. SignedIn(n, R, label) = SignedIn(o, R, label) \ {r}
    BY DEF SignedIn
  <2>2. r \in SignedIn(o, R, label) <=> o[r].signal = label
    BY DEF SignedIn
  <2>3. IsFiniteSet(SignedIn(o, R, label))
    BY CountType
  <2>4. Cardinality(SignedIn(o, R, label) \ {r}) =
          IF r \in SignedIn(o, R, label) THEN Cardinality(SignedIn(o, R, label)) - 1
          ELSE Cardinality(SignedIn(o, R, label))
    BY <2>3, FS_RemoveElement
  <2> QED
    BY <2>1, <2>2, <2>4 DEF CountIn
<1>4. /\ CountIn(o, R, "accepted") \in Nat
      /\ CountIn(o, R, "rejected") \in Nat
      /\ CountIn(o, R, "edited") \in Nat
  BY CountType
<1>5. CASE o[r].signal = "unknown"
  <2>1. /\ CountIn(n, R, "rejected") = CountIn(o, R, "rejected")
        /\ CountIn(n, R, "edited") = CountIn(o, R, "edited")
    BY <1>3, <1>5
  <2> QED
    BY <1>2, <1>4, <2>1 DEF Better, PointsIn, LabelledIn
<1>6. CASE o[r].signal = "rejected"
  <2>1. /\ CountIn(n, R, "rejected") = CountIn(o, R, "rejected") - 1
        /\ CountIn(n, R, "edited") = CountIn(o, R, "edited")
    BY <1>3, <1>6
  <2> QED
    BY <1>2, <1>4, <2>1 DEF Better, PointsIn, LabelledIn
<1>7. CASE o[r].signal = "edited"
  <2>1. /\ CountIn(n, R, "rejected") = CountIn(o, R, "rejected")
        /\ CountIn(n, R, "edited") = CountIn(o, R, "edited") - 1
    BY <1>3, <1>7
  <2> QED
    BY <1>2, <1>4, <2>1 DEF Better, PointsIn, LabelledIn
<1> QED
  BY <1>5, <1>6, <1>7 DEF Signals, Labels

\* An observation that changes to accepted was relabelled, alone, and keeps its approach.
LEMMA AcceptEffect ==
  ASSUME LearnInv, [LearningNext]_learningVars, NEW r \in Runs, obs[r] # Unset, obs'[r] # obs[r],
         obs'[r].signal = "accepted"
  PROVE  /\ obs'[r] # Unset /\ obs'[r].approach = obs[r].approach
         /\ obs[r].approach \in Strategies \cup {GraphTerminal}
         /\ obs[r].signal \in Signals \ {"accepted"}
         /\ \A q \in Runs \ {r} : obs'[q] = obs[q]
<1>0. LearningTypeOK /\ PhaseInv /\ phase[r] = "ended"
  BY DEF LearnInv, PhaseInv
<1>1. ASSUME NEW q \in Runs, NEW a, Create(q, a, "unknown"), phase[q] # "ended"
      PROVE  FALSE
  <2>1. q # r
    BY <1>0, <1>1
  <2> QED
    BY <1>0, <1>1, <2>1 DEF Create, LearningTypeOK
<1>2. ASSUME NEW q \in Runs, Complete(q) \/ Fail(q)
      PROVE  FALSE
  <2>1. phase[q] # "ended" /\ \E a : Create(q, a, "unknown")
    BY <1>2 DEF Complete, Fail
  <2> QED
    BY <1>1, <2>1
<1>3. ASSUME NEW q \in Runs
      PROVE  /\ \A s \in Strategies : ~SelectUnrecorded(q, s) /\ ~SelectExplicit(q, s)
             /\ ~SelectRead(q) /\ ~SelectAssign(q) /\ ~EndUncaptured(q)
  BY DEF SelectUnrecorded, SelectExplicit, SelectRead, SelectAssign, EndUncaptured
<1>4. ~UNCHANGED learningVars
  BY DEF learningVars
<1>5. PICK q \in Runs, label \in Labels : RecordOutcome(q, label)
  BY <1>2, <1>3, <1>4 DEF LearningNext, LabelFromApi, LabelFromCli
<1>6. /\ obs[q] \in Observation
      /\ obs' = [obs EXCEPT ![q] = [approach |-> obs[q].approach, signal |-> label]]
      /\ [approach |-> obs[q].approach, signal |-> label] \in Observation
  BY <1>0, <1>5, LabelEffect
<1>7. q = r
  BY <1>0, <1>6 DEF LearningTypeOK
<1>8. obs'[r] = [approach |-> obs[r].approach, signal |-> label] /\ obs'[r] \in Observation
      /\ \A x \in Runs \ {r} : obs'[x] = obs[x]
  BY <1>0, <1>6, <1>7 DEF LearningTypeOK
<1>9. obs[r].approach \in Strategies \cup {GraphTerminal} /\ obs[r].signal \in Signals
      /\ obs[r] = [approach |-> obs[r].approach, signal |-> obs[r].signal]
  BY <1>6, <1>7 DEF Observation
<1>10. obs[r].signal # "accepted"
  BY <1>8, <1>9
<1> QED
  BY <1>8, <1>9, <1>10, NoRow

\* What _evidence_winner sees in the observations o.
OfIn(o, s)   == {r \in Runs : o[r] # Unset /\ o[r].approach = s}
EligibleIn(o) == {s \in Strategies : LabelledIn(o, OfIn(o, s)) >= MinLabelled}
LeadsIn(o, s, u) ==
  100 * (PointsIn(o, OfIn(o, s)) * LabelledIn(o, OfIn(o, u))
           - PointsIn(o, OfIn(o, u)) * LabelledIn(o, OfIn(o, s)))
    >= MinLead * 2 * LabelledIn(o, OfIn(o, s)) * LabelledIn(o, OfIn(o, u))
ScoreIn(o, R, percent) == 100 * PointsIn(o, R) >= percent * 2 * LabelledIn(o, R)
WinnersIn(o) ==
  {s \in EligibleIn(o) : /\ EligibleIn(o) # {s}
                         /\ ScoreIn(o, OfIn(o, s), MinScore)
                         /\ \A u \in EligibleIn(o) \ {s} : LeadsIn(o, s, u)}

LEMMA WinnersSeen == Winners = WinnersIn(obs) /\ Winners' = WinnersIn(obs')
<1>1. Winners = WinnersIn(obs)
  BY DEF Winners, Eligible, ScoreAtLeast, Leads, Of, LabelPoints, Labelled, Count,
         WinnersIn, EligibleIn, ScoreIn, LeadsIn, OfIn, PointsIn, LabelledIn, CountIn, SignedIn
<1>2. Winners' = WinnersIn(obs')
  BY DEF Winners, Eligible, ScoreAtLeast, Leads, Of, LabelPoints, Labelled, Count,
         WinnersIn, EligibleIn, ScoreIn, LeadsIn, OfIn, PointsIn, LabelledIn, CountIn, SignedIn
<1> QED
  BY <1>1, <1>2

\* The counts of a strategy that is eligible.
LEMMA EligibleCounts ==
  ASSUME NEW o, NEW s \in EligibleIn(o)
  PROVE  /\ LabelledIn(o, OfIn(o, s)) \in Nat /\ LabelledIn(o, OfIn(o, s)) > 0
         /\ PointsIn(o, OfIn(o, s)) \in Nat
         /\ PointsIn(o, OfIn(o, s)) <= 2 * LabelledIn(o, OfIn(o, s))
<1>1. OfIn(o, s) \in SUBSET Runs
  BY DEF OfIn
<1>2. /\ LabelledIn(o, OfIn(o, s)) \in Nat /\ PointsIn(o, OfIn(o, s)) \in Nat
      /\ PointsIn(o, OfIn(o, s)) <= 2 * LabelledIn(o, OfIn(o, s))
  BY <1>1, CountType
<1>3. LabelledIn(o, OfIn(o, s)) >= MinLabelled /\ MinLabelled \in Nat \ {0}
  BY LearningAssumption DEF EligibleIn
<1> QED
  BY <1>2, <1>3

\* There is one winner at most, so it does not matter which one is chosen.
LEMMA OneWinner ==
  ASSUME NEW o, NEW s \in WinnersIn(o)
  PROVE  Chosen(WinnersIn(o)) = s
<1>1. ASSUME NEW u \in WinnersIn(o), u # s PROVE FALSE
  <2>1. s \in EligibleIn(o) /\ u \in EligibleIn(o) /\ LeadsIn(o, s, u) /\ LeadsIn(o, u, s)
    BY <1>1 DEF WinnersIn
  <2>2. MinLead \in 1..100
    BY LearningAssumption
  <2> QED
    BY <2>1, <2>2, EligibleCounts, LeadIsOneWay DEF LeadsIn
<1>2. WinnersIn(o) = {s}
  BY <1>1
<1> QED
  BY <1>2 DEF Chosen

\* Accepting a run of a winner leaves it a winner.
LEMMA AcceptKeepsWinner ==
  ASSUME NEW o, NEW n, NEW r \in Runs, o[r] # Unset, n[r] # Unset, n[r].approach = o[r].approach,
         o[r].signal \in Signals \ {"accepted"}, n[r].signal = "accepted",
         \A q \in Runs \ {r} : n[q] = o[q], NEW s \in WinnersIn(o), o[r].approach = s
  PROVE  s \in WinnersIn(n)
<1> DEFINE p == PointsIn(o, OfIn(o, s))
           l == LabelledIn(o, OfIn(o, s))
           p2 == PointsIn(n, OfIn(n, s))
           l2 == LabelledIn(n, OfIn(n, s))
<1>1. OfIn(n, s) = OfIn(o, s) /\ r \in OfIn(o, s) /\ OfIn(o, s) \in SUBSET Runs
  BY DEF OfIn
<1>2. Better(p, l, p2, l2)
  BY <1>1, AcceptCounts DEF OfIn
<1>3. ASSUME NEW u \in Strategies \ {s}
      PROVE  /\ PointsIn(n, OfIn(n, u)) = PointsIn(o, OfIn(o, u))
             /\ LabelledIn(n, OfIn(n, u)) = LabelledIn(o, OfIn(o, u))
  <2>1. OfIn(n, u) = OfIn(o, u) /\ OfIn(o, u) \in SUBSET Runs /\ \A q \in OfIn(o, u) : n[q] = o[q]
    BY <1>3 DEF OfIn
  <2> QED
    BY <2>1, OthersCount
<1>4. s \in EligibleIn(o) /\ s \in Strategies
  BY DEF WinnersIn, EligibleIn
<1>5. p \in Nat /\ l \in Nat /\ l > 0 /\ p <= 2 * l
  BY <1>4, EligibleCounts
<1>6. p2 \in Nat /\ l2 \in Nat
  BY <1>1, CountType
<1>7. MinScore \in 0..100 /\ MinLead \in 1..100 /\ MinLabelled \in Nat
  BY LearningAssumption
<1>8. l2 >= MinLabelled
  <2>1. l >= MinLabelled
    BY <1>4 DEF EligibleIn
  <2> HIDE DEF p, l, p2, l2
  <2> QED
    BY <1>2, <1>5, <1>6, <1>7, <2>1 DEF Better
<1>9. EligibleIn(n) = EligibleIn(o)
  <2>1. \A u \in Strategies \ {s} : u \in EligibleIn(n) <=> u \in EligibleIn(o)
    BY <1>3 DEF EligibleIn
  <2>2. s \in EligibleIn(n)
    BY <1>4, <1>8 DEF EligibleIn
  <2>3. EligibleIn(n) \subseteq Strategies /\ EligibleIn(o) \subseteq Strategies
    BY DEF EligibleIn
  <2> QED
    BY <1>4, <2>1, <2>2, <2>3
<1>10. ScoreIn(n, OfIn(n, s), MinScore)
  <2>1. 100 * p >= MinScore * 2 * l
    BY DEF WinnersIn, ScoreIn
  <2>2. 100 * p2 >= MinScore * 2 * l2
    <3> HIDE DEF p, l, p2, l2
    <3> QED
      BY <1>2, <1>5, <1>6, <1>7, <2>1, ScoreGrows
  <2> QED
    BY <2>2 DEF ScoreIn
<1>11. ASSUME NEW u \in EligibleIn(n) \ {s} PROVE LeadsIn(n, s, u)
  <2>1. u \in EligibleIn(o) /\ u \in Strategies \ {s} /\ LeadsIn(o, s, u)
    BY <1>9, <1>11 DEF WinnersIn, EligibleIn
  <2> DEFINE q == PointsIn(o, OfIn(o, u))
             k == LabelledIn(o, OfIn(o, u))
  <2>2. q \in Nat /\ k \in Nat
    BY <2>1, EligibleCounts
  <2>3. 100 * (p * k - q * l) >= MinLead * 2 * l * k
    BY <2>1 DEF LeadsIn
  <2>4. 100 * (p2 * k - q * l2) >= MinLead * 2 * l2 * k
    <3> HIDE DEF p, l, p2, l2, q, k
    <3> QED
      BY <1>2, <1>5, <1>6, <1>7, <2>2, <2>3, LeadGrows
  <2>5. PointsIn(n, OfIn(n, u)) = q /\ LabelledIn(n, OfIn(n, u)) = k
    BY <1>3, <2>1
  <2> QED
    BY <2>4, <2>5 DEF LeadsIn
<1> QED
  BY <1>4, <1>9, <1>10, <1>11 DEF WinnersIn

\* Accepting a run of a candidate's signature leaves it a candidate.
LEMMA AcceptKeepsCandidate ==
  ASSUME NEW o, NEW n, NEW r \in Runs, o[r] # Unset, n[r] # Unset,
         o[r].signal \in Signals \ {"accepted"}, n[r].signal = "accepted",
         \A q \in Runs \ {r} : n[q] = o[q], NEW R \in SUBSET Runs, r \in R,
         LabelledIn(o, R) >= MinOccurrences, ScoreIn(o, R, MinCandidate)
  PROVE  LabelledIn(n, R) >= MinOccurrences /\ ScoreIn(n, R, MinCandidate)
<1>1. Better(PointsIn(o, R), LabelledIn(o, R), PointsIn(n, R), LabelledIn(n, R))
  BY AcceptCounts
<1>2. /\ PointsIn(o, R) \in Nat /\ LabelledIn(o, R) \in Nat
      /\ PointsIn(n, R) \in Nat /\ LabelledIn(n, R) \in Nat
  BY CountType
<1>3. MinCandidate \in 0..100 /\ MinOccurrences \in Nat
  BY LearningAssumption
<1>4. LabelledIn(n, R) >= MinOccurrences
  BY <1>1, <1>2, <1>3 DEF Better
<1>5. ScoreIn(n, R, MinCandidate)
  BY <1>1, <1>2, <1>3, ScoreGrows DEF ScoreIn
<1> QED
  BY <1>4, <1>5

\* Good news never costs a place: an acceptance keeps the winner it speaks for and the
\* candidate it belongs to, whatever the thresholds and the other labels are.
THEOREM AcceptanceIsSafe == LearningSpec => AcceptNeverDemotes
<1>1. ASSUME LearnInv, [LearningNext]_learningVars, NEW r \in Runs, obs[r] # Unset, obs'[r] # obs[r],
             obs'[r].signal = "accepted"
      PROVE  /\ obs[r].approach = EvidenceWinner => EvidenceWinner' = EvidenceWinner
             /\ SignatureOf[r] \in Candidates => SignatureOf[r] \in Candidates'
  <2>1. /\ obs'[r] # Unset /\ obs'[r].approach = obs[r].approach
        /\ obs[r].approach \in Strategies \cup {GraphTerminal}
        /\ obs[r].signal \in Signals \ {"accepted"}
        /\ \A q \in Runs \ {r} : obs'[q] = obs[q]
    BY <1>1, AcceptEffect
  <2>2. ASSUME obs[r].approach = EvidenceWinner
        PROVE  EvidenceWinner' = EvidenceWinner
    <3>1. EvidenceWinner # Unset
      BY <2>1, <2>2, NoRow, LearningAssumption
    <3>2. EvidenceWinner \in WinnersIn(obs)
      BY <3>1, WinnerIsChosen, WinnersSeen DEF Chosen
    <3>3. PICK s \in WinnersIn(obs) : s = obs[r].approach
      BY <2>2, <3>2
    <3>4. s \in WinnersIn(obs')
      BY <1>1, <2>1, <3>3, AcceptKeepsWinner
    <3>5. Chosen(WinnersIn(obs')) = s
      BY <3>4, OneWinner
    <3> QED
      BY <2>2, <3>3, <3>5, WinnerIsChosen, WinnersSeen
  <2>3. ASSUME SignatureOf[r] \in Candidates
        PROVE  SignatureOf[r] \in Candidates'
    <3> DEFINE R == SignedBy(SignatureOf[r])
    <3>1. R \in SUBSET Runs /\ r \in R
      BY DEF SignedBy
    <3>2. LabelledIn(obs, R) >= MinOccurrences /\ ScoreIn(obs, R, MinCandidate)
          /\ SignatureOf[r] \in Signatures \ Covered
      BY <2>3 DEF Candidates, ScoreAtLeast, LabelPoints, Labelled, Count,
                  ScoreIn, PointsIn, LabelledIn, CountIn, SignedIn
    <3>3. LabelledIn(obs', R) >= MinOccurrences /\ ScoreIn(obs', R, MinCandidate)
      <4> HIDE DEF R
      <4> QED
        BY <1>1, <2>1, <3>1, <3>2, AcceptKeepsCandidate
    <3> QED
      BY <3>2, <3>3 DEF Candidates, ScoreAtLeast, LabelPoints, Labelled, Count,
                        ScoreIn, PointsIn, LabelledIn, CountIn, SignedIn, SignedBy
  <2> QED
    BY <2>2, <2>3
<1>2. LearnInv /\ [LearningNext]_learningVars =>
        [\A r \in Runs : obs[r] # Unset /\ obs'[r] # obs[r] /\ obs'[r].signal = "accepted" =>
           /\ obs[r].approach = EvidenceWinner => EvidenceWinner' = EvidenceWinner
           /\ SignatureOf[r] \in Candidates => SignatureOf[r] \in Candidates']_learningVars
  BY <1>1
<1> QED
  BY <1>2, LearnInvHolds, PTL DEF LearningSpec, AcceptNeverDemotes

=============================================================================
