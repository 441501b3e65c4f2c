---------------------------- MODULE EntryTabsProofs ----------------------------
(***************************************************************************)
(* Theorems about EntryTabs, for any number of tabs, people and figures,   *)
(* any depth of the undo history, and any number of edits, faults and      *)
(* sign-ins.                                                               *)
(***************************************************************************)
EXTENDS EntryTabs, TLAPS

-----------------------------------------------------------------------------
(* The sheet: what its operations return *)

LEMMA StackIs ==
    ASSUME NEW stack
    PROVE  stack \in Stacks <=> stack \in Seq(Snapshots) /\ Len(stack) <= HistoryLimit
<1>1. ASSUME stack \in Stacks
      PROVE  stack \in Seq(Snapshots) /\ Len(stack) <= HistoryLimit
  <2>1. PICK n \in 0..HistoryLimit: stack \in [1..n -> Snapshots]
    BY <1>1 DEF Stacks
  <2> QED BY <2>1, HistoryAssumption
<1>2. ASSUME stack \in Seq(Snapshots), Len(stack) <= HistoryLimit
      PROVE  stack \in Stacks
  <2>1. Len(stack) \in 0..HistoryLimit /\ stack \in [1..Len(stack) -> Snapshots]
    BY <1>2, HistoryAssumption
  <2> QED BY <2>1 DEF Stacks
<1> QED BY <1>1, <1>2

\* slice(-HISTORY_LIMIT) and slice(0, HISTORY_LIMIT) of a stack one too long.
LEMMA CutsAreShort ==
    ASSUME NEW S, NEW stack \in Seq(S), Len(stack) <= HistoryLimit + 1
    PROVE  /\ Latest(stack) \in Seq(S) /\ Len(Latest(stack)) <= HistoryLimit
           /\ Earliest(stack) \in Seq(S) /\ Len(Earliest(stack)) <= HistoryLimit
<1>1. CASE Len(stack) <= HistoryLimit
  BY <1>1 DEF Latest, Earliest
<1>2. CASE Len(stack) > HistoryLimit
  <2>1. Len(stack) \in Nat \ {0} /\ stack # <<>>
    BY <1>2, HistoryAssumption
  <2>2. Tail(stack) \in Seq(S) /\ Len(Tail(stack)) <= HistoryLimit
    BY <2>1, HistoryAssumption
  <2>3. Front(stack) \in Seq(S) /\ Len(Front(stack)) <= HistoryLimit
    BY <2>1, HistoryAssumption DEF Front
  <2> QED BY <1>2, <2>2, <2>3, HistoryAssumption DEF Latest, Earliest
<1> QED BY <1>1, <1>2, HistoryAssumption

LEMMA CutsAreStacks ==
    ASSUME NEW stack \in Seq(Snapshots), Len(stack) <= HistoryLimit + 1
    PROVE  Latest(stack) \in Stacks /\ Earliest(stack) \in Stacks
BY CutsAreShort, StackIs

LEMMA SnapshotsOfSheets ==
    ASSUME NEW s \in Sheets
    PROVE  /\ s.pend \in Maybe /\ s.base \in Maybe /\ s.rows \in Figures
           /\ Snapshot(s) \in Snapshots
           /\ s.past \in Seq(Snapshots) /\ Len(s.past) <= HistoryLimit
           /\ s.future \in Seq(Snapshots) /\ Len(s.future) <= HistoryLimit
<1>1. s.past \in Stacks /\ s.future \in Stacks
  BY DEF Sheets
<1> QED BY <1>1, StackIs DEF Sheets, Snapshot, Snapshots

LEMMA RestoredIsSheet ==
    ASSUME NEW s \in Sheets, NEW snapshot, snapshot.pend \in Maybe, snapshot.base \in Maybe,
           NEW past \in Stacks, NEW future \in Stacks
    PROVE  /\ Restored(s, snapshot) \in Sheets
           /\ Restored(s, snapshot).pend = snapshot.pend
           /\ [Restored(s, snapshot) EXCEPT !.past = past, !.future = future] \in Sheets
           /\ [Restored(s, snapshot) EXCEPT !.future = future, !.past = past] \in Sheets
BY DEF Sheets, Restored

LEMMA NoneAndOne ==
    /\ {} \in Maybe /\ \A figure \in Figures: {figure} \in Maybe
    /\ <<>> \in Stacks
<1>1. 0 \in 0..HistoryLimit /\ <<>> \in [1..0 -> Snapshots]
  BY HistoryAssumption
<1>2. <<>> \in Stacks
  BY <1>1 DEF Stacks
<1> QED BY <1>2 DEF Maybe

LEMMA PushIsStack ==
    ASSUME NEW s \in Sheets
    PROVE  Latest(Append(s.past, Snapshot(s))) \in Stacks
<1>1. Append(s.past, Snapshot(s)) \in Seq(Snapshots)
  BY SnapshotsOfSheets
<1>2. Len(Append(s.past, Snapshot(s))) <= HistoryLimit + 1
  <2>1. Len(Append(s.past, Snapshot(s))) = Len(s.past) + 1 /\ Len(s.past) \in Nat
    BY SnapshotsOfSheets
  <2> QED BY <2>1, SnapshotsOfSheets, HistoryAssumption
<1> QED BY <1>1, <1>2, CutsAreStacks

LEMMA StageIsSheet ==
    ASSUME NEW s \in Sheets, NEW figure \in Figures
    PROVE  Stage(s, figure) \in Sheets
<1> DEFINE none == [pend |-> {}, base |-> {}]
           some == [pend |-> {figure}, base |-> Based(s)]
           past == Latest(Append(s.past, Snapshot(s)))
<1>1. past \in Stacks
  BY PushIsStack
<1>2. some.pend \in Maybe /\ some.base \in Maybe /\ none.pend \in Maybe /\ none.base \in Maybe
  BY SnapshotsOfSheets, NoneAndOne DEF Based
<1>3. [Restored(s, none) EXCEPT !.past = past, !.future = <<>>] \in Sheets
  BY <1>1, <1>2, NoneAndOne, RestoredIsSheet
<1>4. [Restored(s, some) EXCEPT !.past = past, !.future = <<>>] \in Sheets
  BY <1>1, <1>2, NoneAndOne, RestoredIsSheet
<1> QED BY <1>3, <1>4 DEF Stage

LEMMA UndoIsSheet ==
    ASSUME NEW s \in Sheets, s.past # <<>>
    PROVE  Undo(s) \in Sheets
<1> DEFINE future == Earliest(<<Snapshot(s)>> \o s.future)
<1>1. /\ Len(s.past) \in Nat \ {0} /\ Last(s.past) \in Snapshots
      /\ Front(s.past) \in Seq(Snapshots) /\ Len(Front(s.past)) <= HistoryLimit
  BY SnapshotsOfSheets, HistoryAssumption DEF Front, Last
<1>2. Front(s.past) \in Stacks
  BY <1>1, StackIs
<1>3. <<Snapshot(s)>> \in Seq(Snapshots) /\ Len(<<Snapshot(s)>>) = 1
  BY SnapshotsOfSheets
<1>4. /\ <<Snapshot(s)>> \o s.future \in Seq(Snapshots)
      /\ Len(<<Snapshot(s)>> \o s.future) <= HistoryLimit + 1
  BY <1>3, SnapshotsOfSheets, HistoryAssumption
<1>5. future \in Stacks
  BY <1>4, CutsAreStacks
<1>6. Last(s.past).pend \in Maybe /\ Last(s.past).base \in Maybe
  BY <1>1 DEF Snapshots
<1> QED BY <1>2, <1>5, <1>6, RestoredIsSheet DEF Undo

LEMMA RedoIsSheet ==
    ASSUME NEW s \in Sheets, s.future # <<>>
    PROVE  Redo(s) \in Sheets
<1> DEFINE past == Latest(Append(s.past, Snapshot(s)))
<1>1. /\ Head(s.future) \in Snapshots
      /\ Tail(s.future) \in Seq(Snapshots) /\ Len(Tail(s.future)) <= HistoryLimit
  BY SnapshotsOfSheets, HistoryAssumption
<1>2. Tail(s.future) \in Stacks
  BY <1>1, StackIs
<1>3. past \in Stacks
  BY PushIsStack
<1>4. Head(s.future).pend \in Maybe /\ Head(s.future).base \in Maybe
  BY <1>1 DEF Snapshots
<1> QED BY <1>2, <1>3, <1>4, RestoredIsSheet DEF Redo

LEMMA OtherSheets ==
    ASSUME NEW s \in Sheets, NEW figure \in Figures
    PROVE  /\ Unedited(figure) \in Sheets /\ Clear(s) \in Sheets
           /\ KeepMine(s) \in Sheets /\ KeepServer(s) \in Sheets
           /\ [s EXCEPT !.rows = figure] \in Sheets
           /\ Effective(s) \in Maybe
           /\ Effective(s) # {} => Effective(s) = s.pend
<1>1. KeepServer(s) \in Sheets
  BY NoneAndOne, RestoredIsSheet DEF KeepServer
<1>2. KeepMine(s) \in Sheets
  BY NoneAndOne, SnapshotsOfSheets DEF KeepMine, Sheets
<1>3. Effective(s) \in Maybe /\ (Effective(s) # {} => Effective(s) = s.pend)
  BY SnapshotsOfSheets DEF Effective, Maybe
<1> QED BY <1>1, <1>2, <1>3, NoneAndOne, SnapshotsOfSheets DEF Unedited, Clear, Sheets


-----------------------------------------------------------------------------
(* Types *)

\* A save is its tab's, wants one figure, and that figure is the one staged
\* unless the person touched the sheet after the click.
SavesHaveEdits ==
    \A t \in Tabs: save[t].step # "idle" =>
        /\ SignedIn(t)
        /\ save[t].want # {}
        /\ save[t].newer \/ sheet[t].pend = save[t].want

TabsInv == TypeOK /\ SavesHaveEdits

LEMMA CountersAreTyped ==
    ASSUME TypeOK, Fault \/ Edit \/ UNCHANGED counters
    PROVE  /\ scope' \in Scopes /\ edits' \in 0..scope'.edits
           /\ faults' \in 0..scope'.faults /\ signIns' \in 0..scope'.signIns
<1>1. scope.edits \in Nat /\ scope.faults \in Nat /\ scope.signIns \in Nat
  BY TabsAssumption DEF TypeOK
<1> QED BY <1>1 DEF TypeOK, Fault, Edit, counters

LEMMA EditingTypes ==
    ASSUME TypeOK, NEW t \in Tabs,
           \/ \E figure \in Figures: Type(t, figure)
           \/ UndoOrRedo(t) \/ Discard(t) \/ Resolve(t) \/ Refresh(t)
    PROVE  TypeOK'
<1>1. Fault \/ Edit \/ UNCHANGED counters
  BY DEF Type, UndoOrRedo, Discard, Resolve, Refresh
<1>2. sheet[t] \in Sheets /\ user[t] \in Users \cup {NoUser}
  BY DEF TypeOK
<1>3. /\ UNCHANGED <<cell, token, user, late, backup, left>>
      /\ save' = save \/ Touch(t)
      /\ author' = author \/ \E a \in Users \cup {NoUser}: author' = [author EXCEPT ![t] = a]
  BY <1>2 DEF Type, UndoOrRedo, Discard, Resolve, Refresh, session
<1>4. save' \in [Tabs -> Saves]
  <2>1. [save[t] EXCEPT !.newer = @ \/ save[t].step # "idle"] \in Saves
    BY DEF TypeOK, Saves
  <2> QED BY <1>3, <2>1 DEF TypeOK, Touch
<1>5. \E s \in Sheets: sheet' = [sheet EXCEPT ![t] = s]
  <2>1. ASSUME NEW figure \in Figures, Type(t, figure)
        PROVE  sheet' = [sheet EXCEPT ![t] = Stage(sheet[t], figure)]
    BY <2>1 DEF Type
  <2>2. CASE UndoOrRedo(t)
    BY <1>2, <2>2, UndoIsSheet, RedoIsSheet DEF UndoOrRedo
  <2>3. CASE Discard(t)
    BY <1>2, <2>3, OtherSheets DEF Discard, TypeOK
  <2>4. CASE Resolve(t)
    BY <1>2, <2>4, OtherSheets DEF Resolve, TypeOK
  <2>5. CASE Refresh(t)
    BY <1>2, <2>5, OtherSheets DEF Refresh, TypeOK
  <2> QED BY <1>2, <2>1, <2>2, <2>3, <2>4, <2>5, StageIsSheet
<1>6. sheet' \in [Tabs -> Sheets]
  BY <1>5 DEF TypeOK
<1> QED BY <1>1, <1>3, <1>4, <1>6, CountersAreTyped DEF TypeOK

LEMMA WriteTypes ==
    ASSUME TypeOK, NEW figure \in Figures, NEW by, Write(figure, by)
    PROVE  cell' \in Figures /\ save' \in [Tabs -> Saves]
<1>1. ASSUME NEW t \in Tabs
      PROVE  save'[t] \in Saves
  BY DEF TypeOK, Write, Saves
<1> QED BY <1>1 DEF Write

LEMMA EndSaveTypes ==
    ASSUME TabsInv, NEW t \in Tabs, save[t].step # "idle",
           NEW saved \in BOOLEAN, EndSave(t, saved)
    PROVE  /\ sheet' \in [Tabs -> Sheets] /\ save' \in [Tabs -> Saves]
           /\ author' \in [Tabs -> Users \cup {NoUser}]
<1>1. save[t].want \subseteq Figures /\ save[t].want # {}
  BY DEF TabsInv, TypeOK, SavesHaveEdits, Saves, Maybe
<1>2. Unedited(CHOOSE f \in save[t].want: TRUE) \in Sheets
  BY <1>1, OtherSheets, NoneAndOne DEF Unedited, Sheets
<1>3. [Idle EXCEPT !.failed = ~saved] \in Saves
  BY NoneAndOne DEF Idle, Saves
<1> QED BY <1>2, <1>3 DEF EndSave, TabsInv, TypeOK

LEMMA SavingTypes ==
    ASSUME TabsInv, NEW t \in Tabs,
           ClickSave(t) \/ ReRead(t) \/ CommitSave(t) \/ Answer(t) \/ FailSave(t)
    PROVE  TypeOK'
<1> USE DEF TabsInv
<1>1. Fault \/ Edit \/ UNCHANGED counters
  BY DEF ClickSave, ReRead, CommitSave, Answer, FailSave
<1>2. sheet[t] \in Sheets /\ save[t] \in Saves /\ cell \in Figures
  BY DEF TypeOK
<1>3. UNCHANGED <<token, user, backup, left>>
  BY DEF ClickSave, ReRead, CommitSave, Answer, FailSave, session
<1>4. CASE ClickSave(t)
  <2>1. [save[t] EXCEPT !.step = "reread", !.want = Effective(sheet[t]),
                        !.base = sheet[t].base] \in Saves
    BY <1>2, OtherSheets, SnapshotsOfSheets DEF Saves
  <2>2. save' \in [Tabs -> Saves]
    BY <1>4, <2>1 DEF ClickSave, TypeOK
  <2> QED BY <1>1, <1>3, <1>4, <2>2, CountersAreTyped DEF ClickSave, TypeOK
<1>5. CASE ReRead(t)
  <2>1. /\ Idle \in Saves /\ [Idle EXCEPT !.failed = TRUE] \in Saves
        /\ [save[t] EXCEPT !.step = "sent", !.failed = FALSE] \in Saves
        /\ [sheet[t] EXCEPT !.rows = cell] \in Sheets
    BY <1>2, NoneAndOne, OtherSheets DEF Idle, Saves
  <2>2. sheet' \in [Tabs -> Sheets] /\ save' \in [Tabs -> Saves]
    BY <1>5, <2>1 DEF ReRead, TypeOK
  <2> QED BY <1>1, <1>3, <1>5, <2>2, CountersAreTyped DEF ReRead, TypeOK
<1>6. CASE CommitSave(t)
  <2>1. save[t].want \subseteq Figures
    BY <1>2 DEF Saves, Maybe
  <2>2. cell' \in Figures /\ save' \in [Tabs -> Saves]
    BY <1>6, <2>1, WriteTypes DEF CommitSave
  <2> QED BY <1>1, <1>3, <1>6, <2>2, CountersAreTyped DEF CommitSave, TypeOK
<1>7. CASE Answer(t) \/ FailSave(t)
  <2>1. \E saved \in BOOLEAN: EndSave(t, saved)
    BY <1>7 DEF Answer, FailSave
  <2>2. save[t].step # "idle"
    BY <1>7 DEF Answer, FailSave, At
  <2>3. /\ sheet' \in [Tabs -> Sheets] /\ save' \in [Tabs -> Saves]
        /\ author' \in [Tabs -> Users \cup {NoUser}]
    BY <2>1, <2>2, EndSaveTypes
  <2>4. Abandoned(t) \subseteq Figures
    BY <1>2 DEF Abandoned, Saves, Maybe
  <2>5. late' \subseteq Figures
    BY <1>7, <2>4 DEF Answer, FailSave, TypeOK
  <2> QED BY <1>1, <1>3, <1>7, <2>3, <2>5, CountersAreTyped DEF Answer, FailSave, TypeOK
<1> QED BY <1>4, <1>5, <1>6, <1>7

\* What Draft, Synced, Bury and a log out leave in localStorage.
LEMMA BackupTypes ==
    ASSUME TypeOK, NEW t \in Tabs, SignedIn(t)
    PROVE  /\ Draft(t) \in Backups
           /\ Synced(t) \subseteq Backups /\ AtMostOne(Synced(t))
<1>1. user[t] \in Users /\ sheet[t] \in Sheets
  BY DEF TypeOK, SignedIn
<1>2. Draft(t) \in Backups
  BY <1>1, SnapshotsOfSheets DEF Draft, Backups
<1> QED BY <1>2 DEF Synced, Swept, AtMostOne, TypeOK

LEMMA BuriedTypes ==
    ASSUME NEW backups, backups \subseteq Backups, AtMostOne(backups),
           NEW t, NEW beat \in BOOLEAN
    PROVE  /\ Bury(backups, t, beat) \subseteq Backups /\ AtMostOne(Bury(backups, t, beat))
           /\ LET parked == {[b EXCEPT !.tab = Parked, !.beat = FALSE]: b \in backups}
              IN parked \subseteq Backups /\ AtMostOne(parked)
BY DEF Bury, AtMostOne, Backups

LEMMA LeaveTypes ==
    ASSUME TypeOK, NEW t \in Tabs, NEW s \in Sheets, Leave(t, s)
    PROVE  /\ cell' \in Figures /\ user' \in [Tabs -> Users \cup {NoUser}]
           /\ sheet' \in [Tabs -> Sheets] /\ save' \in [Tabs -> Saves]
           /\ late' \subseteq Figures /\ author' \in [Tabs -> Users \cup {NoUser}]
           /\ left' \in [Tabs -> BOOLEAN]
<1>1. [s EXCEPT !.rows = FirstFigure] \in Sheets
  BY TabsAssumption, OtherSheets
<1>2. Idle \in Saves
  BY NoneAndOne DEF Idle, Saves
<1>3. Abandoned(t) \subseteq Figures
  BY DEF Abandoned, TypeOK, Saves, Maybe
<1>4. author' \in [Tabs -> Users \cup {NoUser}]
  BY DEF Leave, TypeOK
<1>5. \A stays \in BOOLEAN: [left EXCEPT ![t] = stays] \in [Tabs -> BOOLEAN]
  BY DEF TypeOK
<1> QED BY <1>1, <1>2, <1>3, <1>4, <1>5 DEF Leave, TypeOK

LEMMA SignInTypes ==
    ASSUME TypeOK, NEW t \in Tabs, NEW who \in Users, SignIn(t, who)
    PROVE  TypeOK'
<1>1. sheet[t] \in Sheets /\ cell \in Figures
  BY DEF TypeOK
<1>2. CASE sheet' = [sheet EXCEPT ![t].rows = cell] /\ UNCHANGED <<backup, author>>
  <2>1. sheet' \in [Tabs -> Sheets]
    BY <1>1, <1>2, OtherSheets DEF TypeOK
  <2> QED BY <1>2, <2>1, TabsAssumption DEF SignIn, Adopt, TypeOK
<1>3. ASSUME NEW b \in backup,
             sheet' = [sheet EXCEPT ![t] = [Restored(@, b) EXCEPT !.rows = cell]],
             backup' = {[b EXCEPT !.tab = t]},
             author' = [author EXCEPT ![t] = b.user]
      PROVE  TypeOK'
  <2>1. b \in Backups
    BY DEF TypeOK
  <2>2. Restored(sheet[t], b) \in Sheets
    BY <1>1, <2>1, NoneAndOne, RestoredIsSheet DEF Backups
  <2>3. sheet' \in [Tabs -> Sheets]
    BY <1>1, <1>3, <2>2, OtherSheets DEF TypeOK
  <2>4. backup' \subseteq Backups /\ AtMostOne(backup')
    BY <1>3, <2>1 DEF Backups, AtMostOne
  <2>5. author' \in [Tabs -> Users \cup {NoUser}]
    BY <1>3, <2>1 DEF Backups, TypeOK
  <2> QED BY <2>3, <2>4, <2>5, TabsAssumption DEF SignIn, Adopt, TypeOK
<1> QED BY <1>2, <1>3 DEF SignIn, Adopt, Restorable

LEMMA SessionTypes ==
    ASSUME TypeOK, NEW t \in Tabs,
           \/ Sync(t) \/ Reauthenticate(t) \/ LogOutKeepingDrafts(t) \/ LoseSession(t)
           \/ ReloadExpired(t) \/ LogOut(t) \/ CloseTab(t)
    PROVE  TypeOK'
<1>1. Fault \/ Edit \/ UNCHANGED counters
  BY DEF Sync, Reauthenticate, LogOutKeepingDrafts, LoseSession, ReloadExpired, LogOut, CloseTab
<1>2. sheet[t] \in Sheets
  BY DEF TypeOK
<1>3. KeepServer(sheet[t]) \in Sheets /\ Clear(sheet[t]) \in Sheets
  BY <1>2, SnapshotsOfSheets, OtherSheets
<1>4. SignedIn(t)
  BY DEF Sync, Reauthenticate, LogOutKeepingDrafts, LoseSession, ReloadExpired, LogOut,
         CloseTab, At
<1>5. token' \in Users \cup {NoUser}
  BY <1>4 DEF Sync, Reauthenticate, LogOutKeepingDrafts, LoseSession, ReloadExpired, LogOut,
         CloseTab, TypeOK, session, SignedIn
<1>6. backup' \subseteq Backups /\ AtMostOne(backup')
  <2>1. backup \subseteq Backups /\ AtMostOne(backup)
    BY DEF TypeOK
  <2>2. CASE CloseTab(t)
    BY <1>4, <2>1, <2>2, BackupTypes, BuriedTypes DEF CloseTab
  <2>3. CASE LogOutKeepingDrafts(t)
    BY <1>4, <2>3, BackupTypes, BuriedTypes DEF LogOutKeepingDrafts
  <2>4. CASE LogOut(t)
    BY <2>4 DEF LogOut, AtMostOne
  <2>5. CASE Sync(t)
    BY <1>4, <2>5, BackupTypes DEF Sync
  <2> QED BY <2>1, <2>2, <2>3, <2>4, <2>5 DEF Reauthenticate, LoseSession, ReloadExpired
<1>7. CASE Sync(t) \/ Reauthenticate(t)
  BY <1>1, <1>5, <1>6, <1>7, CountersAreTyped DEF Sync, Reauthenticate, TypeOK, session
<1>8. CASE ~Sync(t) /\ ~Reauthenticate(t)
  <2>1. \E s \in Sheets: Leave(t, s)
    BY <1>2, <1>3, <1>8 DEF LogOutKeepingDrafts, LoseSession, ReloadExpired, LogOut, CloseTab
  <2> QED BY <1>1, <1>5, <1>6, <2>1, LeaveTypes, CountersAreTyped DEF TypeOK
<1> QED BY <1>7, <1>8

LEMMA OtherTypes ==
    ASSUME TypeOK,
           \/ \E figure \in Figures: WriteElsewhere(figure)
           \/ CommitLate \/ FallSilent \/ Expire \/ UNCHANGED vars
    PROVE  TypeOK'
<1>1. Fault \/ Edit \/ UNCHANGED counters
  BY DEF WriteElsewhere, CommitLate, FallSilent, Expire, vars
<1>2. CASE CommitLate \/ \E figure \in Figures: WriteElsewhere(figure)
  <2>1. \E figure \in Figures: Write(figure, NoTab)
    BY <1>2 DEF CommitLate, WriteElsewhere, TypeOK
  <2>2. cell' \in Figures /\ save' \in [Tabs -> Saves]
    BY <2>1, WriteTypes
  <2> QED BY <1>1, <1>2, <2>2, CountersAreTyped DEF CommitLate, WriteElsewhere, TypeOK, session
<1>3. CASE FallSilent
  <2>1. backup' \subseteq Backups /\ AtMostOne(backup')
    BY <1>3 DEF FallSilent, TypeOK, Backups, AtMostOne
  <2> QED BY <1>1, <1>3, <2>1, CountersAreTyped DEF FallSilent, TypeOK, session
<1>4. CASE Expire \/ UNCHANGED vars
  BY <1>1, <1>4, CountersAreTyped DEF Expire, TypeOK, vars, session
<1> QED BY <1>2, <1>3, <1>4

-----------------------------------------------------------------------------
(* Saves *)

\* A write changes no save but its own and those it overtakes.
LEMMA WriteKeepsSaves ==
    ASSUME TabsInv, NEW figure, NEW by, Write(figure, by), UNCHANGED <<user, sheet>>,
           by \in Tabs => save[by].step # "idle"
    PROVE  SavesHaveEdits'
<1>1. ASSUME NEW t \in Tabs
      PROVE  /\ save'[t].want = save[t].want /\ save'[t].newer = save[t].newer
             /\ save'[t].step # "idle" => save[t].step # "idle"
  BY DEF Write, TabsInv, TypeOK, Saves
<1> QED BY <1>1 DEF TabsInv, SavesHaveEdits, SignedIn

LEMMA EditingKeepsSaves ==
    ASSUME TabsInv, NEW t \in Tabs,
           \/ \E figure \in Figures: Type(t, figure)
           \/ UndoOrRedo(t) \/ Discard(t) \/ Resolve(t) \/ Refresh(t)
    PROVE  SavesHaveEdits'
<1>1. UNCHANGED user
  BY DEF Type, UndoOrRedo, Discard, Resolve, Refresh, session
<1>2. ASSUME NEW u \in Tabs, u # t
      PROVE  save'[u] = save[u] /\ sheet'[u] = sheet[u]
  BY <1>2 DEF Type, UndoOrRedo, Discard, Resolve, Refresh, Touch, TabsInv, TypeOK
<1>3. CASE Refresh(t)
  BY <1>3 DEF Refresh, TabsInv, SavesHaveEdits, TypeOK, Sheets, session, SignedIn
<1>4. CASE Touch(t)
  <2>1. /\ save'[t].step = save[t].step /\ save'[t].want = save[t].want
        /\ save[t].step # "idle" => save'[t].newer
    BY <1>4 DEF Touch, TabsInv, TypeOK, Saves
  <2> QED BY <1>1, <1>2, <2>1 DEF TabsInv, SavesHaveEdits, SignedIn
<1> QED BY <1>3, <1>4 DEF Type, UndoOrRedo, Discard, Resolve

LEMMA SavingKeepsSaves ==
    ASSUME TabsInv, NEW t \in Tabs,
           ClickSave(t) \/ ReRead(t) \/ CommitSave(t) \/ Answer(t) \/ FailSave(t)
    PROVE  SavesHaveEdits'
<1>1. UNCHANGED user
  BY DEF ClickSave, ReRead, CommitSave, Answer, FailSave, session
<1>2. CASE CommitSave(t)
  BY <1>2, WriteKeepsSaves DEF CommitSave, At, session
<1>3. CASE ~CommitSave(t)
  <2>1. ASSUME NEW u \in Tabs, u # t
        PROVE  save'[u] = save[u] /\ sheet'[u] = sheet[u]
    BY <1>3, <2>1 DEF ClickSave, ReRead, Answer, FailSave, EndSave, TabsInv, TypeOK
  <2>2. CASE ClickSave(t)
    <3>1. save'[t].want = Effective(sheet[t]) /\ sheet' = sheet
      <4>1. save[t] \in Saves /\ t \in DOMAIN save
        BY DEF TabsInv, TypeOK
      <4>2. save'[t] = [save[t] EXCEPT !.step = "reread", !.want = Effective(sheet[t]),
                                       !.base = sheet[t].base]
        BY <2>2, <4>1 DEF ClickSave
      <4> QED BY <2>2, <4>1, <4>2 DEF ClickSave, Saves
    <3>2. sheet[t] \in Sheets
      BY DEF TabsInv, TypeOK
    <3>3. save'[t].want # {} /\ save'[t].want = sheet'[t].pend
      BY <2>2, <3>1, <3>2, SnapshotsOfSheets, OtherSheets DEF ClickSave
    <3> QED BY <1>1, <2>1, <2>2, <3>3 DEF ClickSave, At, TabsInv, SavesHaveEdits, SignedIn
  <2>3. CASE ReRead(t)
    <3>1. sheet'[t].pend = sheet[t].pend
      BY <2>3 DEF ReRead, TabsInv, TypeOK, Sheets
    <3>2. save[t].step = "reread" /\ save[t] \in Saves /\ t \in DOMAIN save
      BY <2>3 DEF ReRead, At, TabsInv, TypeOK
    <3>3. \/ save'[t] = Idle \/ save'[t] = [Idle EXCEPT !.failed = TRUE]
          \/ save'[t] = [save[t] EXCEPT !.step = "sent", !.failed = FALSE]
      BY <2>3, <3>2 DEF ReRead
    <3>4. save'[t].step # "idle" =>
             save'[t].want = save[t].want /\ save'[t].newer = save[t].newer
      <4>1. CASE save'[t] = [save[t] EXCEPT !.step = "sent", !.failed = FALSE]
        BY <3>2, <4>1 DEF Saves
      <4>2. CASE save'[t] = Idle \/ save'[t] = [Idle EXCEPT !.failed = TRUE]
        BY <4>2 DEF Idle
      <4> QED BY <3>3, <4>1, <4>2
    <3> QED BY <1>1, <2>1, <3>1, <3>2, <3>4 DEF TabsInv, SavesHaveEdits, SignedIn
  <2>4. CASE Answer(t) \/ FailSave(t)
    <3>1. save'[t].step = "idle"
      <4>1. \E failed \in BOOLEAN: save' = [save EXCEPT ![t] = [Idle EXCEPT !.failed = failed]]
        BY <2>4 DEF Answer, FailSave, EndSave
      <4> QED BY <4>1 DEF Idle, TabsInv, TypeOK
    <3> QED BY <1>1, <2>1, <3>1 DEF TabsInv, SavesHaveEdits, SignedIn
  <2> QED BY <1>3, <2>2, <2>3, <2>4
<1> QED BY <1>2, <1>3

LEMMA SessionsKeepSaves ==
    ASSUME TabsInv, NEW t \in Tabs,
           \/ Sync(t) \/ (\E who \in Users: SignIn(t, who)) \/ Reauthenticate(t)
           \/ LogOutKeepingDrafts(t) \/ LoseSession(t) \/ ReloadExpired(t)
           \/ LogOut(t) \/ CloseTab(t)
    PROVE  SavesHaveEdits'
<1>1. CASE Sync(t) \/ Reauthenticate(t)
  BY <1>1 DEF Sync, Reauthenticate, TabsInv, SavesHaveEdits, SignedIn, session
<1>2. ASSUME NEW who \in Users, SignIn(t, who)
      PROVE  SavesHaveEdits'
  <2>1. save' = save /\ save[t].step = "idle"
    BY <1>2 DEF SignIn, TabsInv, SavesHaveEdits
  <2>2. \A u \in Tabs: u # t => sheet'[u] = sheet[u] /\ user'[u] = user[u]
    BY <1>2 DEF SignIn, Adopt, TabsInv, TypeOK
  <2> QED BY <2>1, <2>2 DEF TabsInv, SavesHaveEdits, SignedIn
<1>3. ASSUME NEW s, Leave(t, s)
      PROVE  SavesHaveEdits'
  <2>1. save'[t].step = "idle"
    BY <1>3 DEF Leave, Idle, TabsInv, TypeOK
  <2>2. \A u \in Tabs: u # t => /\ sheet'[u] = sheet[u] /\ user'[u] = user[u]
                                /\ save'[u] = save[u]
    BY <1>3 DEF Leave, TabsInv, TypeOK
  <2> QED BY <2>1, <2>2 DEF TabsInv, SavesHaveEdits, SignedIn
<1> QED BY <1>1, <1>2, <1>3 DEF LogOutKeepingDrafts, LoseSession, ReloadExpired, LogOut, CloseTab

LEMMA OthersKeepSaves ==
    ASSUME TabsInv,
           \/ \E figure \in Figures: WriteElsewhere(figure)
           \/ CommitLate \/ FallSilent \/ Expire \/ UNCHANGED vars
    PROVE  SavesHaveEdits'
<1>1. CASE CommitLate \/ \E figure \in Figures: WriteElsewhere(figure)
  <2>1. UNCHANGED <<user, sheet>> /\ \E figure: Write(figure, NoTab)
    BY <1>1 DEF CommitLate, WriteElsewhere, session
  <2> QED BY <2>1, WriteKeepsSaves, TabsAssumption
<1>2. CASE UNCHANGED <<user, sheet, save>>
  BY <1>2 DEF TabsInv, SavesHaveEdits, SignedIn
<1> QED BY <1>1, <1>2 DEF FallSilent, Expire, vars, session

LEMMA NextKeepsTabs ==
    ASSUME TabsInv, [Next]_vars
    PROVE  TabsInv'
<1> USE DEF TabsInv
<1>1. ASSUME NEW t \in Tabs,
             \/ \E figure \in Figures: Type(t, figure)
             \/ UndoOrRedo(t) \/ Discard(t) \/ Resolve(t) \/ Refresh(t)
      PROVE  TabsInv'
  BY <1>1, EditingTypes, EditingKeepsSaves
<1>2. ASSUME NEW t \in Tabs,
             ClickSave(t) \/ ReRead(t) \/ CommitSave(t) \/ Answer(t) \/ FailSave(t)
      PROVE  TabsInv'
  BY <1>2, SavingTypes, SavingKeepsSaves
<1>3. ASSUME NEW t \in Tabs,
             \/ Sync(t) \/ (\E who \in Users: SignIn(t, who)) \/ Reauthenticate(t)
             \/ LogOutKeepingDrafts(t) \/ LoseSession(t) \/ ReloadExpired(t)
             \/ LogOut(t) \/ CloseTab(t)
      PROVE  TabsInv'
  <2>1. TypeOK'
    BY <1>3, SignInTypes, SessionTypes
  <2> QED BY <1>3, <2>1, SessionsKeepSaves
<1>4. CASE \/ \E figure \in Figures: WriteElsewhere(figure)
           \/ CommitLate \/ FallSilent \/ Expire \/ UNCHANGED vars
  BY <1>4, OtherTypes, OthersKeepSaves
<1> QED BY <1>1, <1>2, <1>3, <1>4 DEF Next

LEMMA InitTabs ==
    ASSUME Init
    PROVE  TabsInv
<1>1. Unedited(FirstFigure) \in Sheets
  BY NoneAndOne, TabsAssumption DEF Unedited, Sheets
<1>2. Idle \in Saves /\ Idle.step = "idle"
  BY NoneAndOne DEF Idle, Saves
<1>3. /\ sheet \in [Tabs -> Sheets] /\ save \in [Tabs -> Saves]
      /\ \A t \in Tabs: save[t].step = "idle"
  BY <1>1, <1>2 DEF Init
<1>4. scope \in Scopes /\ 0 \in 0..scope.edits /\ 0 \in 0..scope.faults /\ 0 \in 0..scope.signIns
  BY TabsAssumption DEF Init
<1> QED BY <1>3, <1>4, TabsAssumption DEF Init, TabsInv, TypeOK, SavesHaveEdits, AtMostOne

LEMMA TabsInvariant == Spec => []TabsInv
<1> QED BY InitTabs, NextKeepsTabs, PTL DEF Spec

\* The tabs, their sheets and saves and the backup keep their types, and
\* localStorage holds at most one backup, for any tabs, people and bounds.
THEOREM TypeCorrect == Spec => []TypeOK
<1> QED BY TabsInvariant, PTL DEF TabsInv

-----------------------------------------------------------------------------
(* A save overwrites what its person saw *)

Informed(t) ==
    save[t].step = "sent" /\ ~save[t].overtaken => cell \in save[t].base \cup save[t].want

\* Whatever writes, a save it does not overtake is not on its way.
LEMMA WriteInforms ==
    ASSUME TabsInv, NEW figure, NEW by, Write(figure, by), NEW t \in Tabs
    PROVE  Informed(t)'
<1>1. save[t] \in Saves
  BY DEF TabsInv, TypeOK
<1>2. CASE t = by
  BY <1>1, <1>2 DEF Write, Informed, Saves
<1>3. CASE t # by /\ save[t].step = "sent"
  BY <1>1, <1>3 DEF Write, Informed, Saves
<1>4. CASE t # by /\ save[t].step # "sent"
  BY <1>1, <1>4 DEF Write, Informed, Saves
<1> QED BY <1>2, <1>3, <1>4

\* The re-read lets a save on that would overwrite the figure it read.
LEMMA ReReadInforms ==
    ASSUME TabsInv, NEW t \in Tabs, ReRead(t)
    PROVE  Informed(t)'
<1>1. /\ save[t] \in Saves /\ t \in DOMAIN save /\ save[t].step = "reread"
      /\ save[t].want # {} /\ cell' = cell
  BY DEF ReRead, At, TabsInv, TypeOK, SavesHaveEdits
<1>2. CASE save'[t] = Idle \/ save'[t] = [Idle EXCEPT !.failed = TRUE]
  BY <1>2 DEF Idle, Informed
<1>3. CASE /\ ~NewerFound(save[t], sheet[t].rows)
           /\ save'[t] = [save[t] EXCEPT !.step = "sent", !.failed = FALSE]
  BY <1>1, <1>3 DEF NewerFound, Conflict, Informed, Saves
<1> QED BY <1>1, <1>2, <1>3 DEF ReRead

LEMMA NextInforms ==
    ASSUME TabsInv, SavesAreInformed, [Next]_vars
    PROVE  SavesAreInformed'
<1>0. \A t \in Tabs: Informed(t)
  BY DEF SavesAreInformed, Informed
<1> SUFFICES ASSUME NEW t \in Tabs
             PROVE  Informed(t)'
  BY DEF SavesAreInformed, Informed
<1>1. save \in [Tabs -> Saves]
  BY DEF TabsInv, TypeOK
<1>2. CASE cell' = cell /\ save'[t] = save[t]
  BY <1>0, <1>2 DEF Informed
<1>3. CASE save'[t].step # "sent"
  BY <1>3 DEF Informed
<1>4. ASSUME NEW u \in Tabs, Touch(u), cell' = cell
      PROVE  Informed(t)'
  <2>1. /\ save'[t].step = save[t].step /\ save'[t].overtaken = save[t].overtaken
        /\ save'[t].base = save[t].base /\ save'[t].want = save[t].want
    <3>1. CASE t = u
      <4>1. save'[t] = [save[t] EXCEPT !.newer = @ \/ save[t].step # "idle"]
        BY <1>1, <1>4, <3>1 DEF Touch
      <4> QED BY <1>1, <4>1 DEF Saves
    <3>2. CASE t # u
      BY <1>1, <1>4, <3>2 DEF Touch
    <3> QED BY <3>1, <3>2
  <2> QED BY <1>0, <1>4, <2>1 DEF Informed
<1>5. ASSUME NEW figure, NEW by, Write(figure, by)
      PROVE  Informed(t)'
  BY <1>5, WriteInforms
<1>6. ASSUME NEW u \in Tabs, ClickSave(u)
      PROVE  Informed(t)'
  <2>1. CASE t = u
    BY <1>1, <1>3, <1>6, <2>1 DEF ClickSave, Saves
  <2> QED BY <1>1, <1>2, <1>6, <2>1 DEF ClickSave
<1>7. ASSUME NEW u \in Tabs, ReRead(u)
      PROVE  Informed(t)'
  <2>1. CASE t # u
    BY <1>1, <1>2, <1>7, <2>1 DEF ReRead
  <2> QED BY <1>7, <2>1, ReReadInforms
<1>8. ASSUME NEW u \in Tabs, Answer(u) \/ FailSave(u)
      PROVE  Informed(t)'
  <2>1. cell' = cell /\ \E failed \in BOOLEAN:
             save' = [save EXCEPT ![u] = [Idle EXCEPT !.failed = failed]]
    BY <1>8 DEF Answer, FailSave, EndSave
  <2> QED BY <1>1, <1>2, <1>3, <2>1 DEF Idle
<1>9. ASSUME NEW u \in Tabs, NEW s, Leave(u, s)
      PROVE  Informed(t)'
  BY <1>1, <1>2, <1>3, <1>9 DEF Leave, Idle
<1>10. ASSUME NEW u \in Tabs,
              \/ \E figure \in Figures: Type(u, figure)
              \/ UndoOrRedo(u) \/ Discard(u) \/ Resolve(u) \/ Refresh(u)
       PROVE  Informed(t)'
  BY <1>2, <1>4, <1>10 DEF Type, UndoOrRedo, Discard, Resolve, Refresh
<1>11. ASSUME NEW u \in Tabs,
              \/ Sync(u) \/ (\E who \in Users: SignIn(u, who)) \/ Reauthenticate(u)
              \/ LogOutKeepingDrafts(u) \/ LoseSession(u) \/ ReloadExpired(u)
              \/ LogOut(u) \/ CloseTab(u)
       PROVE  Informed(t)'
  BY <1>2, <1>9, <1>11 DEF Sync, SignIn, Reauthenticate, LogOutKeepingDrafts, LoseSession,
                           ReloadExpired, LogOut, CloseTab
<1>12. CASE \/ \E figure \in Figures: WriteElsewhere(figure)
            \/ CommitLate \/ FallSilent \/ Expire \/ UNCHANGED vars
  BY <1>2, <1>5, <1>12 DEF WriteElsewhere, CommitLate, FallSilent, Expire, vars
<1>13. ASSUME NEW u \in Tabs, CommitSave(u)
       PROVE  Informed(t)'
  BY <1>5, <1>13 DEF CommitSave
<1> QED BY <1>6, <1>7, <1>8, <1>10, <1>11, <1>12, <1>13 DEF Next

\* A save overwrites only what its person saw, or what was written after the
\* re-read that preceded it: for any tabs, people, faults and late writes.
THEOREM SavesOverwriteWhatWasSeen == Spec => []SavesAreInformed
<1>1. Init => SavesAreInformed
  BY DEF Init, Idle, SavesAreInformed
<1> QED BY <1>1, TabsInvariant, NextInforms, PTL DEF Spec

-----------------------------------------------------------------------------
(* An edit leaves a sheet saved, or by its person's doing *)

LEMMA EditsLeaveSaved ==
    ASSUME TabsInv, [Next]_vars, NEW t \in Tabs, Staged(t), ~Staged(t)'
    PROVE  \/ PersonActs(t)
           \/ save[t].step = "committed" /\ (sheet[t].pend = save[t].want \/ save[t].newer)
<1>1. sheet \in [Tabs -> Sheets] /\ save \in [Tabs -> Saves]
  BY DEF TabsInv, TypeOK
<1>2. sheet'[t].pend # sheet[t].pend
  BY DEF Staged
<1>3. ASSUME NEW u \in Tabs,
             \/ \E figure \in Figures: Type(u, figure)
             \/ UndoOrRedo(u) \/ Discard(u) \/ Resolve(u)
      PROVE  PersonActs(t)
  <2>1. u # t => sheet'[t] = sheet[t]
    BY <1>1, <1>3 DEF Type, UndoOrRedo, Discard, Resolve
  <2> QED BY <1>2, <1>3, <2>1 DEF PersonActs
<1>4. ASSUME NEW u \in Tabs, Refresh(u) \/ ReRead(u)
      PROVE  FALSE
  <2>1. sheet' = sheet \/ sheet' = [sheet EXCEPT ![u].rows = cell]
    BY <1>4 DEF Refresh, ReRead
  <2> QED BY <1>1, <1>2, <2>1 DEF Sheets
<1>5. ASSUME NEW u \in Tabs, Answer(u)
      PROVE  save[t].step = "committed" /\ (sheet[t].pend = save[t].want \/ save[t].newer)
  <2>1. u = t
    BY <1>1, <1>2, <1>5 DEF Answer, EndSave, ClearsOn
  <2> QED BY <1>5, <2>1 DEF Answer, At, TabsInv, SavesHaveEdits
<1>6. ASSUME NEW u \in Tabs, NEW who \in Users, SignIn(u, who)
      PROVE  FALSE
  <2>1. sheet'[t] = sheet[t] \/ u = t
    BY <1>1, <1>6 DEF SignIn, Adopt
  <2>2. u = t => Restorable(u, who) = {}
    BY DEF Restorable
  <2> QED BY <1>1, <1>2, <1>6, <2>1, <2>2 DEF SignIn, Adopt, Sheets
<1>7. ASSUME NEW u \in Tabs, LogOutKeepingDrafts(u) \/ LogOut(u) \/ CloseTab(u)
      PROVE  PersonActs(t)
  <2>1. u # t => sheet'[t] = sheet[t]
    BY <1>1, <1>7 DEF LogOutKeepingDrafts, LogOut, CloseTab, Leave
  <2> QED BY <1>2, <1>7, <2>1 DEF PersonActs
<1>8. ASSUME NEW u \in Tabs, LoseSession(u) \/ ReloadExpired(u)
      PROVE  FALSE
  <2>1. sheet' = [sheet EXCEPT ![u] = [sheet[u] EXCEPT !.rows = FirstFigure]]
    BY <1>8 DEF LoseSession, ReloadExpired, Leave
  <2> QED BY <1>1, <1>2, <2>1 DEF Sheets
<1>9. CASE \/ \E u \in Tabs: \/ ClickSave(u) \/ CommitSave(u) \/ FailSave(u) \/ Sync(u)
                             \/ Reauthenticate(u)
           \/ \E figure \in Figures: WriteElsewhere(figure)
           \/ CommitLate \/ FallSilent \/ Expire \/ UNCHANGED vars
  <2>1. sheet' = sheet
    BY <1>9 DEF ClickSave, CommitSave, FailSave, EndSave, ClearsOn, Sync, Reauthenticate,
                WriteElsewhere, CommitLate, FallSilent, Expire, vars
  <2> QED BY <1>2, <2>1
<1> QED BY <1>3, <1>4, <1>5, <1>6, <1>7, <1>8, <1>9 DEF Next

\* An edit leaves a sheet by its person's doing, or because the save of it (or
\* of what was staged before the person touched it again) was committed.
THEOREM EditsEnd == Spec => EditsEndSaved
<1>1. TabsInv /\ [Next]_vars =>
        [\A t \in Tabs: Staged(t) /\ ~Staged(t)' =>
          \/ PersonActs(t)
          \/ save[t].step = "committed" /\ (sheet[t].pend = save[t].want \/ save[t].newer)]_vars
  BY EditsLeaveSaved
<1> QED BY <1>1, TabsInvariant, PTL DEF Spec, EditsEndSaved

-----------------------------------------------------------------------------
(* Drafts stay personal *)

\* Something in the tab could show an edit: staged, or in an undo or redo step.
Marked(s) == s.pend # {} \/ s.past # <<>> \/ s.future # <<>>

\* A tab no session left edits in: what is in it is its person's, and nothing is
\* in it when nobody is signed in.
MarksAreOwned ==
    \A t \in Tabs: ~left[t] /\ Marked(sheet[t]) => SignedIn(t) /\ author[t] = user[t]

OwnedAs(t, s, a, u, l) == ~l /\ Marked(s) => u # NoUser /\ a = u

LEMMA UneditedIsUnmarked ==
    \A figure: ~Marked(Unedited(figure))
BY DEF Marked, Unedited

LEMMA OwnedByParts ==
    ASSUME TabsInv, MarksAreOwned,
           \A t \in Tabs: \/ /\ sheet'[t] = sheet[t] /\ author'[t] = author[t]
                             /\ user'[t] = user[t] /\ left'[t] = left[t]
                          \/ OwnedAs(t, sheet'[t], author'[t], user'[t], left'[t])
    PROVE  MarksAreOwned'
BY DEF MarksAreOwned, OwnedAs, SignedIn

LEMMA EditingKeepsOwned ==
    ASSUME TabsInv, MarksAreOwned, NEW t \in Tabs,
           \/ \E figure \in Figures: Type(t, figure)
           \/ UndoOrRedo(t) \/ Discard(t) \/ Resolve(t) \/ Refresh(t)
    PROVE  MarksAreOwned'
<1>1. /\ sheet \in [Tabs -> Sheets] /\ author \in [Tabs -> Users \cup {NoUser}]
      /\ UNCHANGED <<user, left>>
  BY DEF TabsInv, TypeOK, Type, UndoOrRedo, Discard, Resolve, Refresh, session
<1>2. \A u \in Tabs: u # t => sheet'[u] = sheet[u] /\ author'[u] = author[u]
  BY <1>1 DEF Type, UndoOrRedo, Discard, Resolve, Refresh
<1>3. OwnedAs(t, sheet'[t], author'[t], user'[t], left'[t])
  <2>1. ASSUME NEW figure \in Figures, Type(t, figure)
        PROVE  SignedIn(t) /\ author'[t] = user[t]
    BY <1>1, <2>1 DEF Type, GridOpen, At
  <2>2. CASE UndoOrRedo(t)
    <3>1. Marked(sheet[t]) /\ author' = author
      BY <2>2 DEF UndoOrRedo, Marked
    <3> QED BY <1>1, <3>1 DEF MarksAreOwned, OwnedAs, SignedIn
  <2>3. CASE Discard(t)
    <3>1. sheet'[t] = Unedited(sheet[t].rows)
      BY <1>1, <2>3 DEF Discard, Clear
    <3> QED BY <3>1, UneditedIsUnmarked DEF OwnedAs
  <2>4. CASE Resolve(t)
    <3>1. Marked(sheet[t]) /\ author' = author
      BY <2>4 DEF Resolve, Conflict, Effective, Marked
    <3> QED BY <1>1, <3>1 DEF MarksAreOwned, OwnedAs, SignedIn
  <2>5. CASE Refresh(t)
    <3>1. /\ author' = author /\ sheet'[t].pend = sheet[t].pend
          /\ sheet'[t].past = sheet[t].past /\ sheet'[t].future = sheet[t].future
      BY <1>1, <2>5 DEF Refresh, Sheets
    <3> QED BY <1>1, <3>1 DEF MarksAreOwned, OwnedAs, SignedIn, Marked
  <2> QED BY <1>1, <2>1, <2>2, <2>3, <2>4, <2>5 DEF OwnedAs, SignedIn
<1> QED BY <1>1, <1>2, <1>3, OwnedByParts

LEMMA SavingKeepsOwned ==
    ASSUME TabsInv, MarksAreOwned, NEW t \in Tabs, ReRead(t) \/ Answer(t) \/ FailSave(t)
    PROVE  MarksAreOwned'
<1>1. /\ sheet \in [Tabs -> Sheets] /\ author \in [Tabs -> Users \cup {NoUser}]
      /\ UNCHANGED <<user, left>>
  BY DEF TabsInv, TypeOK, ReRead, Answer, FailSave, session
<1>2. \A u \in Tabs: u # t => sheet'[u] = sheet[u] /\ author'[u] = author[u]
  BY <1>1 DEF ReRead, Answer, FailSave, EndSave
<1>3. CASE ReRead(t)
  <2>1. sheet' = sheet \/ sheet' = [sheet EXCEPT ![t].rows = cell]
    BY <1>3 DEF ReRead
  <2>2. /\ author' = author /\ sheet'[t].pend = sheet[t].pend
        /\ sheet'[t].past = sheet[t].past /\ sheet'[t].future = sheet[t].future
    BY <1>1, <1>3, <2>1 DEF ReRead, Sheets
  <2>3. OwnedAs(t, sheet'[t], author'[t], user'[t], left'[t])
    BY <1>1, <2>2 DEF MarksAreOwned, OwnedAs, SignedIn, Marked
  <2> QED BY <1>1, <1>2, <2>3, OwnedByParts
<1>4. CASE FailSave(t)
  BY <1>1, <1>4, OwnedByParts DEF FailSave, EndSave, ClearsOn
<1>5. CASE Answer(t)
  <2>1. \E figure: sheet'[t] = Unedited(figure)
    BY <1>1, <1>5 DEF Answer, EndSave, ClearsOn
  <2>2. OwnedAs(t, sheet'[t], author'[t], user'[t], left'[t])
    BY <2>1, UneditedIsUnmarked DEF OwnedAs
  <2> QED BY <1>1, <1>2, <2>2, OwnedByParts
<1> QED BY <1>3, <1>4, <1>5

\* A backup restored is its person's own.
LEMMA SignInKeepsOwned ==
    ASSUME TabsInv, MarksAreOwned, NEW t \in Tabs, NEW who \in Users, SignIn(t, who)
    PROVE  MarksAreOwned'
<1>1. /\ sheet \in [Tabs -> Sheets] /\ author \in [Tabs -> Users \cup {NoUser}]
      /\ user \in [Tabs -> Users \cup {NoUser}] /\ backup \subseteq Backups
      /\ left' = left
  BY DEF TabsInv, TypeOK, SignIn
<1>2. \A u \in Tabs: u # t => /\ sheet'[u] = sheet[u] /\ author'[u] = author[u]
                              /\ user'[u] = user[u]
  BY <1>1 DEF SignIn, Adopt
<1>3. CASE sheet' = [sheet EXCEPT ![t].rows = cell] /\ UNCHANGED author
  <2>1. Marked(sheet'[t]) <=> Marked(sheet[t])
    BY <1>1, <1>3 DEF Sheets, Marked
  <2>2. OwnedAs(t, sheet'[t], author'[t], user'[t], left'[t])
    BY <1>1, <2>1 DEF MarksAreOwned, OwnedAs, SignIn
  <2> QED BY <1>1, <1>2, <2>2, OwnedByParts
<1>4. ASSUME NEW b \in Restorable(t, who), author' = [author EXCEPT ![t] = b.user]
      PROVE  MarksAreOwned'
  <2>1. author'[t] = who /\ user'[t] = who /\ who # NoUser
    BY <1>1, <1>4, TabsAssumption DEF Restorable, Mine, SignIn, Adopt
  <2>2. OwnedAs(t, sheet'[t], author'[t], user'[t], left'[t])
    BY <2>1 DEF OwnedAs
  <2> QED BY <1>1, <1>2, <2>2, OwnedByParts
<1> QED BY <1>3, <1>4 DEF SignIn, Adopt

LEMMA LeaveKeepsOwned ==
    ASSUME TabsInv, MarksAreOwned, NEW t \in Tabs, NEW s \in Sheets, Leave(t, s)
    PROVE  MarksAreOwned'
<1>1. /\ sheet \in [Tabs -> Sheets] /\ author \in [Tabs -> Users \cup {NoUser}]
      /\ user \in [Tabs -> Users \cup {NoUser}] /\ left \in [Tabs -> BOOLEAN]
  BY DEF TabsInv, TypeOK
<1>2. \A u \in Tabs: u # t => /\ sheet'[u] = sheet[u] /\ author'[u] = author[u]
                              /\ user'[u] = user[u] /\ left'[u] = left[u]
  BY <1>1 DEF Leave
<1>3. sheet'[t] = [s EXCEPT !.rows = FirstFigure]
  BY <1>1 DEF Leave
<1>4. Marked(sheet'[t]) <=> Marked(s)
  BY <1>3 DEF Sheets, Marked
<1>5. Marked(s) => left'[t]
  BY <1>1 DEF Leave, Marked
<1>6. OwnedAs(t, sheet'[t], author'[t], user'[t], left'[t])
  BY <1>4, <1>5 DEF OwnedAs
<1> QED BY <1>2, <1>6, OwnedByParts

LEMMA NextKeepsOwned ==
    ASSUME TabsInv, MarksAreOwned, [Next]_vars
    PROVE  MarksAreOwned'
<1>1. ASSUME NEW t \in Tabs,
             \/ \E figure \in Figures: Type(t, figure)
             \/ UndoOrRedo(t) \/ Discard(t) \/ Resolve(t) \/ Refresh(t)
      PROVE  MarksAreOwned'
  BY <1>1, EditingKeepsOwned
<1>2. ASSUME NEW t \in Tabs, ReRead(t) \/ Answer(t) \/ FailSave(t)
      PROVE  MarksAreOwned'
  BY <1>2, SavingKeepsOwned
<1>3. ASSUME NEW t \in Tabs, NEW who \in Users, SignIn(t, who)
      PROVE  MarksAreOwned'
  BY <1>3, SignInKeepsOwned
<1>4. ASSUME NEW t \in Tabs,
             \/ LogOutKeepingDrafts(t) \/ LoseSession(t) \/ ReloadExpired(t)
             \/ LogOut(t) \/ CloseTab(t)
      PROVE  MarksAreOwned'
  <2>1. sheet[t] \in Sheets
    BY DEF TabsInv, TypeOK
  <2>2. \E s \in Sheets: Leave(t, s)
    BY <1>4, <2>1, SnapshotsOfSheets, OtherSheets
       DEF LogOutKeepingDrafts, LoseSession, ReloadExpired, LogOut, CloseTab
  <2> QED BY <2>2, LeaveKeepsOwned
<1>5. CASE UNCHANGED <<user, sheet, author, left>>
  BY <1>5 DEF MarksAreOwned, SignedIn
<1>6. ASSUME NEW t \in Tabs, ClickSave(t) \/ CommitSave(t) \/ Sync(t) \/ Reauthenticate(t)
      PROVE  MarksAreOwned'
  BY <1>5, <1>6 DEF ClickSave, CommitSave, Sync, Reauthenticate, session
<1>7. CASE \/ \E figure \in Figures: WriteElsewhere(figure)
           \/ CommitLate \/ FallSilent \/ Expire \/ UNCHANGED vars
  BY <1>5, <1>7 DEF WriteElsewhere, CommitLate, FallSilent, Expire, vars, session
<1> QED BY <1>1, <1>2, <1>3, <1>4, <1>6, <1>7 DEF Next

\* Nobody is shown another person's edits as their own, unless a session ended
\* without a log out in that tab: for any people taking turns in any tabs.
THEOREM DraftsAreTheirAuthors == Spec => []DraftsStayPersonal
<1>1. Init => MarksAreOwned
  BY UneditedIsUnmarked DEF Init, MarksAreOwned
<1>2. MarksAreOwned => DraftsStayPersonal
  BY DEF MarksAreOwned, Marked, Staged, DraftsStayPersonal
<1> QED BY <1>1, <1>2, TabsInvariant, NextKeepsOwned, PTL DEF Spec

-----------------------------------------------------------------------------
(* Backups of tabs that are gone *)

StillThere(b) == \E b2 \in backup': [b2 EXCEPT !.beat = b.beat] = b
TakenBack(b) == \E t \in Tabs: user'[t] = b.user /\ sheet'[t].pend = b.pend
Covered == \E t \in Tabs: Staged(t) /\ (\E b2 \in backup': b2.pend = sheet[t].pend)

LEMMA SameOrSilent ==
    ASSUME NEW b \in Backups
    PROVE  /\ [b EXCEPT !.beat = b.beat] = b
           /\ [[b EXCEPT !.beat = FALSE] EXCEPT !.beat = b.beat] = b
BY DEF Backups

\* What a sync leaves of a backup that is no open tab's.
LEMMA SyncedKeeps ==
    ASSUME TabsInv, NEW t \in Tabs, NEW b \in backup, Orphan(b)
    PROVE  \/ Staged(t) /\ Synced(t) = {Draft(t)} /\ Draft(t).pend = sheet[t].pend
           \/ ~Staged(t) /\ b \in Synced(t)
BY TabsAssumption DEF Synced, Swept, Orphan, Draft

LEMMA BuriedKeeps ==
    ASSUME NEW backups, NEW t \in Tabs, NEW beat, NEW b \in backups
    PROVE  /\ Orphan(b) => b \in Bury(backups, t, beat)
           /\ \E b2 \in Bury(backups, t, beat): b2 = b \/ b2 = [b EXCEPT !.tab = Gone, !.beat = beat]
BY TabsAssumption DEF Bury, Orphan

LEMMA OrphanStays ==
    ASSUME TabsInv, [Next]_vars, NEW b \in backup, Orphan(b)
    PROVE  StillThere(b) \/ TakenBack(b) \/ Covered \/ \E t \in Tabs: LogOut(t)
<1>1. b \in Backups /\ \A b2 \in backup: b2 = b
  BY DEF TabsInv, TypeOK, AtMostOne
<1>2. b \in backup' => StillThere(b)
  BY <1>1, SameOrSilent DEF StillThere
<1>3. ASSUME NEW t \in Tabs, Sync(t)
      PROVE  StillThere(b) \/ Covered
  BY <1>1, <1>2, <1>3, SyncedKeeps DEF Sync, Covered, StillThere
<1>4. CASE FallSilent
  <2>1. backup' = {[b EXCEPT !.beat = FALSE]}
    BY <1>1, <1>4 DEF FallSilent
  <2> QED BY <1>1, <2>1, SameOrSilent DEF StillThere
<1>5. ASSUME NEW t \in Tabs, NEW who \in Users, SignIn(t, who)
      PROVE  StillThere(b) \/ TakenBack(b)
  <2>1. CASE UNCHANGED backup
    BY <1>2, <2>1
  <2>2. ASSUME NEW b2 \in Restorable(t, who),
               sheet' = [sheet EXCEPT ![t] = [Restored(@, b2) EXCEPT !.rows = cell]]
        PROVE  TakenBack(b)
    <3>1. b2 = b /\ user'[t] = b.user
      BY <1>1, <1>5, <2>2 DEF Restorable, Mine, SignIn, Adopt, TabsInv, TypeOK
    <3>2. sheet'[t].pend = b.pend
      BY <2>2, <3>1 DEF TabsInv, TypeOK, Restored, Sheets
    <3> QED BY <3>1, <3>2 DEF TakenBack
  <2> QED BY <1>5, <2>1, <2>2 DEF SignIn, Adopt
<1>6. ASSUME NEW t \in Tabs, LogOutKeepingDrafts(t)
      PROVE  Covered
  <2>1. Staged(t) /\ Synced(t) = {Draft(t)}
    BY <1>6 DEF LogOutKeepingDrafts, Synced
  <2>2. [Draft(t) EXCEPT !.tab = Parked, !.beat = FALSE] \in backup'
    BY <1>6, <2>1 DEF LogOutKeepingDrafts
  <2> QED BY <2>1, <2>2 DEF Covered, Draft
<1>7. ASSUME NEW t \in Tabs, CloseTab(t)
      PROVE  StillThere(b) \/ Covered
  <2>1. CASE backup' = Bury(backup, t, TRUE)
    BY <1>2, <2>1, BuriedKeeps
  <2>2. CASE backup' = Bury(Synced(t), t, FALSE) /\ ~Staged(t)
    <3>1. b \in Synced(t)
      BY <2>2, SyncedKeeps
    <3> QED BY <1>2, <2>2, <3>1, BuriedKeeps
  <2>3. CASE backup' = Bury(Synced(t), t, FALSE) /\ Staged(t)
    <3>1. Draft(t) \in Synced(t) /\ Draft(t).pend = sheet[t].pend
      BY <2>3, SyncedKeeps
    <3>2. \E b2 \in backup': \/ b2 = Draft(t)
                             \/ b2 = [Draft(t) EXCEPT !.tab = Gone, !.beat = FALSE]
      BY <2>3, <3>1, BuriedKeeps
    <3> QED BY <2>3, <3>1, <3>2 DEF Covered, Draft
  <2> QED BY <1>7, <2>1, <2>2, <2>3 DEF CloseTab
<1>8. CASE UNCHANGED backup
  BY <1>2, <1>8
<1>9. ASSUME NEW t \in Tabs,
             \/ \E figure \in Figures: Type(t, figure)
             \/ UndoOrRedo(t) \/ Discard(t) \/ Resolve(t) \/ Refresh(t)
             \/ ClickSave(t) \/ ReRead(t) \/ CommitSave(t) \/ Answer(t) \/ FailSave(t)
             \/ Reauthenticate(t) \/ LoseSession(t) \/ ReloadExpired(t)
      PROVE  UNCHANGED backup
  BY <1>9 DEF Type, UndoOrRedo, Discard, Resolve, Refresh, ClickSave, ReRead, CommitSave,
              Answer, FailSave, Reauthenticate, LoseSession, ReloadExpired
<1>10. CASE \/ \E figure \in Figures: WriteElsewhere(figure)
            \/ CommitLate \/ Expire \/ UNCHANGED vars
  BY <1>8, <1>10 DEF WriteElsewhere, CommitLate, Expire, vars
<1> QED BY <1>3, <1>4, <1>5, <1>6, <1>7, <1>8, <1>9, <1>10 DEF Next

\* The backup of a tab that is gone ends restored to its owner, covered by
\* another tab's edits of the sheet, or with a confirmed log out: whatever is
\* done in any number of tabs.
THEOREM OrphansWait == Spec => OrphansAreKept
<1>1. TabsInv /\ [Next]_vars =>
        [\A b \in backup: Orphan(b) =>
          \/ \E b2 \in backup': [b2 EXCEPT !.beat = b.beat] = b
          \/ \E t \in Tabs: user'[t] = b.user /\ sheet'[t].pend = b.pend
          \/ \E t \in Tabs: Staged(t) /\ (\E b2 \in backup': b2.pend = sheet[t].pend)
          \/ \E t \in Tabs: LogOut(t)]_vars
  BY OrphanStays DEF StillThere, TakenBack, Covered
<1> QED BY <1>1, TabsInvariant, PTL DEF Spec, OrphansAreKept

===============================================================================
