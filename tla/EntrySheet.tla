------------------------------ MODULE EntrySheet ------------------------------
(***************************************************************************)
(* The staged, not yet saved edits of one figure on an entry page          *)
(* (client/src/hooks/usePendingEntryChanges.ts): the value typed, the      *)
(* saved value it was typed over, and the undo and redo stacks.            *)
(***************************************************************************)
EXTENDS Naturals, Sequences, SequencesExt

CONSTANTS
    Figures,        \* what the figure may be
    HistoryLimit    \* undo steps kept

ASSUME HistoryAssumption == HistoryLimit \in Nat \ {0}

AtMostOne(s) == \A x, y \in s : x = y

\* A value that may be missing is a set of at most one figure.
Maybe == {{}} \cup {{f}: f \in Figures}
Snapshots == [pend: Maybe, base: Maybe]
Stacks == UNION {[1..n -> Snapshots]: n \in 0..HistoryLimit}
Sheets == [rows: Figures, pend: Maybe, base: Maybe, past: Stacks, future: Stacks]

Unedited(figure) ==
    [rows |-> figure, pend |-> {}, base |-> {}, past |-> <<>>, future |-> <<>>]

Snapshot(s) == [pend |-> s.pend, base |-> s.base]
Restored(s, snapshot) == [s EXCEPT !.pend = snapshot.pend, !.base = snapshot.base]

\* Mutant of Latest: the stack is never cut.
LatestUncut(stack) == stack

\* slice(-HISTORY_LIMIT) and slice(0, HISTORY_LIMIT)
Latest(stack) == IF Len(stack) <= HistoryLimit THEN stack ELSE Tail(stack)
Earliest(stack) == IF Len(stack) <= HistoryLimit THEN stack ELSE Front(stack)

\* Only the first edit of a figure records what it was made over.
Based(s) == IF s.base = {} THEN {s.rows} ELSE s.base

\* stage: typing the saved value back takes the edit away.
Stage(s, figure) ==
    LET staged == IF figure = s.rows THEN Restored(s, [pend |-> {}, base |-> {}])
                  ELSE Restored(s, [pend |-> {figure}, base |-> Based(s)])
    IN [staged EXCEPT !.past = Latest(Append(s.past, Snapshot(s))), !.future = <<>>]

Undo(s) ==
    [Restored(s, Last(s.past)) EXCEPT !.past = Front(s.past),
                                      !.future = Earliest(<<Snapshot(s)>> \o s.future)]

Redo(s) ==
    [Restored(s, Head(s.future)) EXCEPT !.future = Tail(s.future),
                                        !.past = Latest(Append(s.past, Snapshot(s)))]

\* clear, clearAll: the history that could stage the edit again goes with it.
Clear(s) == Unedited(s.rows)

\* dropNoOpChanges: an edit that equals what is saved is not a change.
Effective(s) == s.pend \ {s.rows}

\* detectConflicts: the saved value moved off the baseline and is not the edit.
Conflict(pend, base, saved) == pend # {} /\ saved \notin pend \cup base

\* resolveConflict
KeepMine(s) == [s EXCEPT !.base = {s.rows}]
KeepServer(s) == Restored(s, [pend |-> {}, base |-> {}])
=============================================================================
