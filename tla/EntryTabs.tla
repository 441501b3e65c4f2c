------------------------------- MODULE EntryTabs -------------------------------
(***************************************************************************)
(* Browser tabs with the same sheet open: staging, saving and the backup   *)
(* of staged edits.  Modelled from OnlineEntryPage.tsx / OfflineEntry-     *)
(* Page.tsx (handleSaveAll), usePendingEntryChanges.ts, sessionHistory.ts, *)
(* draftBackup.ts, useUnsavedWorkGuard.ts, AuthContext.tsx and the log out *)
(* of Sidebar.tsx.                                                         *)
(*                                                                         *)
(* The tabs share the server's figure, and (being one browser) the sign-in *)
(* token and one backup per sheet in localStorage.  A save re-reads the    *)
(* sheet and sends afterwards what was staged when it was clicked; a save  *)
(* the tab gave up on may still commit.                                    *)
(***************************************************************************)
EXTENDS EntrySheet, TLC

CONSTANTS
    Tabs,
    Users,
    NoUser,
    FirstFigure,   \* what the server starts with
    Scopes         \* what one behaviour may involve, see `scope`

NoTab == "none"

\* Owners of a backup that are not an open tab: a log out parked it, or its tab is gone.
Parked == "parked"
Gone == "gone"

ASSUME TabsAssumption ==
    /\ FirstFigure \in Figures /\ NoUser \notin Users
    /\ {NoTab, Parked, Gone} \cap Tabs = {}
    /\ \A s \in Scopes: {s.edits, s.faults, s.signIns} \subseteq Nat

VARIABLES
    cell,     \* the figure on the server
    token,    \* whose token localStorage holds
    user,     \* user[t]: who the tab says is signed in
    sheet,    \* sheet[t]: what the tab shows and has staged (sessionStorage)
    save,     \* save[t]: its handleSaveAll
    late,     \* figures still on their way from saves the tab gave up on
    backup,   \* the sheet's backup in localStorage, as a set of at most one
    author,   \* author[t]: who made the edits in the tab
    left,     \* left[t]: edits or undo steps stayed behind when a session ended
    scope,    \* the tabs and users of the behaviour, its most edits, faults and sign-ins
    edits,    \* figures typed, undone or redone
    faults,   \* failures, and writes from another device
    signIns   \* sign-ins

counters == <<scope, edits, faults, signIns>>
vars == <<cell, token, user, sheet, save, late, backup, author, left, counters>>

\* `overtaken`: the figure was written by someone else since the re-read.
\* `newer`: the staged edit changed after Save was clicked.  `failed`: the save
\* before this one failed, so this one may be a Retry.
Idle == [step |-> "idle", want |-> {}, base |-> {}, newer |-> FALSE, overtaken |-> FALSE,
         failed |-> FALSE]
Saves == [step: {"idle", "reread", "sent", "committed"}, want: Maybe, base: Maybe,
          newer: BOOLEAN, overtaken: BOOLEAN, failed: BOOLEAN]

Backups == [pend: Maybe, base: Maybe, user: Users, tab: Tabs \cup {Parked, Gone}, beat: BOOLEAN]

TypeOK ==
    /\ cell \in Figures
    /\ token \in Users \cup {NoUser}
    /\ user \in [Tabs -> Users \cup {NoUser}]
    /\ sheet \in [Tabs -> Sheets]
    /\ save \in [Tabs -> Saves]
    /\ late \subseteq Figures
    /\ backup \subseteq Backups /\ AtMostOne(backup)
    /\ author \in [Tabs -> Users \cup {NoUser}]
    /\ left \in [Tabs -> BOOLEAN]
    /\ scope \in Scopes
    /\ edits \in 0..scope.edits
    /\ faults \in 0..scope.faults
    /\ signIns \in 0..scope.signIns

Init ==
    /\ cell = FirstFigure
    /\ token = NoUser
    /\ user = [t \in Tabs |-> NoUser]
    /\ sheet = [t \in Tabs |-> Unedited(FirstFigure)]
    /\ save = [t \in Tabs |-> Idle]
    /\ late = {}
    /\ backup = {}
    /\ author = [t \in Tabs |-> NoUser]
    /\ left = [t \in Tabs |-> FALSE]
    /\ scope \in Scopes
    /\ edits = 0
    /\ faults = 0
    /\ signIns = 0

Fault == faults < scope.faults /\ faults' = faults + 1 /\ UNCHANGED <<scope, edits, signIns>>
Edit == edits < scope.edits /\ edits' = edits + 1 /\ UNCHANGED <<scope, faults, signIns>>
SignedIn(t) == user[t] # NoUser
Staged(t) == sheet[t].pend # {}
At(t, step) == SignedIn(t) /\ save[t].step = step

session == <<token, user>>

-----------------------------------------------------------------------------
(* Editing *)

\* The figure staged when Save was clicked is no longer the one staged.
Touch(t) == save' = [save EXCEPT ![t].newer = @ \/ save[t].step # "idle"]

\* The review dialog covers the grid until the re-read is checked, and a progress
\* ring while the save is sent.  Retry opens no dialog.
GridOpen(t) == At(t, "idle") \/ (At(t, "reread") /\ save[t].failed)

Type(t, figure) ==
    /\ GridOpen(t)
    /\ Edit
    /\ sheet' = [sheet EXCEPT ![t] = Stage(@, figure)]
    /\ author' = [author EXCEPT ![t] = user[t]]
    /\ Touch(t)
    /\ UNCHANGED <<cell, session, late, backup, left>>

\* Ctrl+Z and Ctrl+Y listen on the window, whatever covers the grid.
UndoOrRedo(t) ==
    /\ SignedIn(t)
    /\ Edit
    /\ \/ sheet[t].past # <<>> /\ sheet' = [sheet EXCEPT ![t] = Undo(@)]
       \/ sheet[t].future # <<>> /\ sheet' = [sheet EXCEPT ![t] = Redo(@)]
    /\ Touch(t)
    /\ UNCHANGED <<cell, session, late, backup, author, left>>

Discard(t) ==
    /\ GridOpen(t)
    /\ Staged(t)
    /\ sheet' = [sheet EXCEPT ![t] = Clear(@)]
    /\ author' = [author EXCEPT ![t] = NoUser]
    /\ Touch(t)
    /\ UNCHANGED <<cell, session, late, backup, left, counters>>

Resolve(t) ==
    /\ GridOpen(t)
    /\ Conflict(Effective(sheet[t]), sheet[t].base, sheet[t].rows)
    /\ \E resolved \in {KeepMine(sheet[t]), KeepServer(sheet[t])}:
           sheet' = [sheet EXCEPT ![t] = resolved]
    /\ Touch(t)
    /\ UNCHANGED <<cell, session, late, backup, author, left, counters>>

\* A data-changed message, a reconnect or a refresh re-reads the sheet.
Refresh(t) ==
    /\ SignedIn(t)
    /\ sheet[t].rows # cell
    /\ sheet' = [sheet EXCEPT ![t].rows = cell]
    /\ UNCHANGED <<cell, session, save, late, backup, author, left, counters>>

-----------------------------------------------------------------------------
(* handleSaveAll *)

\* The edits and baselines of the click are the ones saved.
ClickSave(t) ==
    /\ At(t, "idle")
    /\ Effective(sheet[t]) # {}
    /\ ~Conflict(Effective(sheet[t]), sheet[t].base, sheet[t].rows)
    /\ save' = [save EXCEPT ![t].step = "reread", ![t].want = Effective(sheet[t]),
                            ![t].base = sheet[t].base]
    /\ UNCHANGED <<cell, session, sheet, late, backup, author, left, counters>>

\* Mutant of NewerFound: the check made when Save was clicked is relied on.
NewerFoundBefore(s, shown) == Conflict(s.want, s.base, shown)

\* The fresh sheet is checked, not the one shown so far.
NewerFound(s, shown) == Conflict(s.want, s.base, cell)

\* The re-read: a conflict or a failure (no token, no answer) ends the save.
ReRead(t) ==
    /\ At(t, "reread")
    /\ \/ /\ token # NoUser
          /\ sheet' = [sheet EXCEPT ![t].rows = cell]
          /\ save' = [save EXCEPT ![t] = IF NewerFound(@, sheet[t].rows) THEN Idle
                                         ELSE [@ EXCEPT !.step = "sent", !.failed = FALSE]]
          /\ UNCHANGED counters
       \/ /\ IF token = NoUser THEN UNCHANGED counters ELSE Fault
          /\ save' = [save EXCEPT ![t] = [Idle EXCEPT !.failed = TRUE]]
          /\ UNCHANGED sheet
    /\ UNCHANGED <<cell, session, late, backup, author, left>>

\* A write lands: the saves of the other tabs were checked before it.
Write(figure, by) ==
    /\ cell' = figure
    /\ save' = [t \in Tabs |->
                   CASE t = by -> [save[t] EXCEPT !.step = "committed"]
                     [] t # by /\ save[t].step = "sent" -> [save[t] EXCEPT !.overtaken = TRUE]
                     [] OTHER -> save[t]]

CommitSave(t) ==
    /\ At(t, "sent")
    /\ token # NoUser
    /\ \E figure \in save[t].want: Write(figure, t)
    /\ UNCHANGED <<session, sheet, late, backup, author, left, counters>>

CommitLate ==
    \E figure \in late:
        /\ Write(figure, NoTab)
        /\ late' = late \ {figure}
        /\ UNCHANGED <<session, sheet, backup, author, left, counters>>

\* Mutant of ClearsOn: the sheet is cleared whatever the answer.
ClearsOnAny(saved) == TRUE
ClearsOn(saved) == saved

\* mergeEntry and clear on success, the edit stays staged on failure.
EndSave(t, saved) ==
    /\ save' = [save EXCEPT ![t] = [Idle EXCEPT !.failed = ~saved]]
    /\ IF ClearsOn(saved)
       THEN /\ sheet' = [sheet EXCEPT ![t] = Unedited(CHOOSE f \in save[t].want: TRUE)]
            /\ author' = [author EXCEPT ![t] = NoUser]
       ELSE UNCHANGED <<sheet, author>>

Answer(t) ==
    /\ At(t, "committed")
    /\ EndSave(t, TRUE)
    /\ UNCHANGED <<cell, session, late, backup, left, counters>>

Abandoned(t) ==
    IF save[t].step = "sent" THEN save[t].want ELSE {}

\* The server refuses (a finished page, no token), or the tab's timeout ends
\* the request: the write may still be on its way.
FailSave(t) ==
    /\ \/ At(t, "sent") /\ late' = late
       \/ (At(t, "sent") \/ At(t, "committed")) /\ late' = late \cup Abandoned(t)
    /\ Fault
    /\ EndSave(t, FALSE)
    /\ UNCHANGED <<cell, session, backup, left>>

\* Somebody saves the figure on another device.
WriteElsewhere(figure) ==
    /\ Fault
    /\ figure # cell
    /\ Write(figure, NoTab)
    /\ UNCHANGED <<session, sheet, late, backup, author, left>>

-----------------------------------------------------------------------------
(* Backups: draftBackup.ts *)

Draft(t) ==
    [pend |-> sheet[t].pend, base |-> sheet[t].base, user |-> user[t], tab |-> t, beat |-> TRUE]

\* Mutant of Swept: whatever this tab has not staged is swept.
SweptAny(t) == backup

\* Backups of what this tab no longer has staged.
Swept(t) == {b \in backup: b.tab = t}

\* syncDraftBackup, every second and as the page is hidden.
Synced(t) == IF Staged(t) THEN {Draft(t)} ELSE backup \ Swept(t)

Sync(t) ==
    /\ SignedIn(t)
    /\ backup' = Synced(t)
    /\ UNCHANGED <<cell, session, sheet, save, late, author, left, counters>>

\* No heartbeat for 20 seconds: the tab is gone, or the browser throttles it.
FallSilent ==
    \E b \in backup:
        /\ b.beat
        /\ backup' = {[b EXCEPT !.beat = FALSE]}
        /\ UNCHANGED <<cell, session, sheet, save, late, author, left, counters>>

\* Mutant of Mine: anybody's backup is restored.
MineOrNot(b, who) == TRUE
Mine(b, who) == b.user = who

\* restoreDraftBackup
Restorable(t, who) ==
    {b \in backup: Mine(b, who) /\ (b.tab = t \/ ~b.beat) /\ ~Staged(t)}

\* adopt: the backup goes into the session before the pages are shown.
Adopt(t, who) ==
    /\ user' = [user EXCEPT ![t] = who]
    /\ token' = who
    /\ \/ /\ Restorable(t, who) = {}
          /\ sheet' = [sheet EXCEPT ![t].rows = cell]
          /\ UNCHANGED <<backup, author>>
       \/ \E b \in Restorable(t, who):
              /\ sheet' = [sheet EXCEPT ![t] = [Restored(@, b) EXCEPT !.rows = cell]]
              /\ backup' = {[b EXCEPT !.tab = t]}
              /\ author' = [author EXCEPT ![t] = b.user]

-----------------------------------------------------------------------------
(* Sessions: AuthContext.tsx *)

\* A tab is opened on a stored token, or somebody signs in where a tab shows
\* the login page: the token of the other tabs is replaced under them.
SignIn(t, who) ==
    /\ ~SignedIn(t)
    /\ t \in scope.tabs /\ who \in scope.users
    /\ signIns < scope.signIns /\ signIns' = signIns + 1
    /\ Adopt(t, who)
    /\ UNCHANGED <<cell, save, late, left, scope, edits, faults>>

\* The token expires or is revoked.
Expire ==
    /\ Fault
    /\ token # NoUser
    /\ token' = NoUser
    /\ UNCHANGED <<cell, user, sheet, save, late, backup, author, left>>

\* The dialog over the page signs the same person in again.
Reauthenticate(t) ==
    /\ At(t, "idle")
    /\ token = NoUser
    /\ Staged(t)
    /\ token' = user[t]
    /\ UNCHANGED <<cell, user, sheet, save, late, backup, author, left, counters>>

\* The session of the tab ends with `s` still in its sessionStorage.
Leave(t, s) ==
    LET stays == s.pend # {} \/ s.past # <<>> \/ s.future # <<>> IN
    /\ user' = [user EXCEPT ![t] = NoUser]
    /\ sheet' = [sheet EXCEPT ![t] = [s EXCEPT !.rows = FirstFigure]]
    /\ left' = [left EXCEPT ![t] = stays]
    /\ author' = IF stays THEN author ELSE [author EXCEPT ![t] = NoUser]
    /\ save' = [save EXCEPT ![t] = Idle]
    /\ late' = late \cup Abandoned(t)
    /\ UNCHANGED cell

\* "Log out" of that dialog parks the edits; the undo steps are not tracked.
LogOutKeepingDrafts(t) ==
    /\ At(t, "idle")
    /\ token = NoUser
    /\ Staged(t)
    /\ backup' = {[b EXCEPT !.tab = Parked, !.beat = FALSE]: b \in Synced(t)}
    /\ Leave(t, KeepServer(sheet[t]))
    /\ UNCHANGED <<token, counters>>

\* A 401 with nothing staged shows the login page.
LoseSession(t) ==
    /\ At(t, "idle")
    /\ token = NoUser
    /\ ~Staged(t)
    /\ Leave(t, sheet[t])
    /\ UNCHANGED <<token, backup, counters>>

\* A reload whose start-up check finds the token gone: the session storage of
\* the tab stays as it was.
ReloadExpired(t) ==
    /\ SignedIn(t)
    /\ token = NoUser
    /\ Leave(t, sheet[t])
    /\ UNCHANGED <<token, backup, counters>>

\* The confirmed log out discards the edits of the tab and every backup.
LogOut(t) ==
    /\ At(t, "idle")
    /\ token' = NoUser
    /\ backup' = {}
    /\ Leave(t, Clear(sheet[t]))
    /\ UNCHANGED counters

\* The tab is closed (a last sync, and its heartbeat is withdrawn) or it dies.
\* The next tab in its place has an empty session and an id of its own.
Bury(backups, t, beat) ==
    {IF b.tab = t THEN [b EXCEPT !.tab = Gone, !.beat = beat] ELSE b: b \in backups}

CloseTab(t) ==
    /\ SignedIn(t)
    /\ \/ backup' = Bury(Synced(t), t, FALSE) /\ UNCHANGED counters
       \/ backup' = Bury(backup, t, TRUE) /\ Fault
    /\ Leave(t, Clear(sheet[t]))
    /\ UNCHANGED token

-----------------------------------------------------------------------------
Next ==
    \/ \E t \in Tabs:
        \/ \E figure \in Figures: Type(t, figure)
        \/ UndoOrRedo(t) \/ Discard(t) \/ Resolve(t) \/ Refresh(t)
        \/ ClickSave(t) \/ ReRead(t) \/ CommitSave(t) \/ Answer(t) \/ FailSave(t)
        \/ Sync(t)
        \/ \E who \in Users: SignIn(t, who)
        \/ Reauthenticate(t) \/ LogOutKeepingDrafts(t) \/ LoseSession(t)
        \/ ReloadExpired(t) \/ LogOut(t) \/ CloseTab(t)
    \/ \E figure \in Figures: WriteElsewhere(figure)
    \/ CommitLate \/ FallSilent \/ Expire

Spec == Init /\ [][Next]_vars

-----------------------------------------------------------------------------
(* Properties *)

\* A save overwrites only what its person saw, or what was written after the
\* re-read that preceded it (handleSaveAll's check right before sending).
SavesAreInformed ==
    \A t \in Tabs: save[t].step = "sent" /\ ~save[t].overtaken
                    => cell \in save[t].base \cup save[t].want

PersonActs(t) ==
    \/ \E figure \in Figures: Type(t, figure)
    \/ UndoOrRedo(t) \/ Discard(t) \/ Resolve(t)
    \/ LogOut(t) \/ LogOutKeepingDrafts(t) \/ CloseTab(t)

\* An edit leaves a sheet by its person's doing or because a save of it was
\* committed; one typed while the sheet was re-read goes with the older save.
EditsEndSaved ==
    [][\A t \in Tabs: Staged(t) /\ ~Staged(t)' =>
         \/ PersonActs(t)
         \/ save[t].step = "committed" /\ (sheet[t].pend = save[t].want \/ save[t].newer)]_vars

\* Nobody is shown another person's edits as their own, unless a session ended
\* without a log out and left them (or their undo steps) in the tab.
DraftsStayPersonal ==
    \A t \in Tabs: SignedIn(t) /\ Staged(t) /\ author[t] # user[t] => left[t]

Orphan(b) == b.tab \in {Parked, Gone}

\* The backup of a tab that is gone waits for its owner: it ends restored, or
\* covered by another tab's edits of the sheet, or with a confirmed log out.
OrphansAreKept ==
    [][\A b \in backup: Orphan(b) =>
         \/ \E b2 \in backup': [b2 EXCEPT !.beat = b.beat] = b
         \/ \E t \in Tabs: user'[t] = b.user /\ sheet'[t].pend = b.pend
         \/ \E t \in Tabs: Staged(t) /\ (\E b2 \in backup': b2.pend = sheet[t].pend)
         \/ \E t \in Tabs: LogOut(t)]_vars
=============================================================================
