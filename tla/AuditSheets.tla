------------------------------ MODULE AuditSheets ------------------------------
(***************************************************************************)
(* The audit page's staged counts and the import history behind it: one    *)
(* product at one location, on several sheets (dates).  Modelled from      *)
(* ManualCountPage.tsx, manualCountDrafts.ts, the import of CsvTools.tsx,  *)
(* importBatch.service.ts, saveManualCount and deleteManualCount with the  *)
(* change log they write, and changeLogArchive.service.ts.                 *)
(*                                                                         *)
(* A count saved from an import is tagged with it in the change log;       *)
(* deleting the import takes back what is still as it left it.  One revert *)
(* at a time; a switch of sheets loads the new one at once, and the page   *)
(* is not left while it saves.                                             *)
(***************************************************************************)
EXTENDS EntrySheet

CONSTANTS
    Dates,     \* the audit sheets
    Imports,   \* the ids of imports, in the order they are registered
    ByHand,    \* not an import
    Zero,      \* the figure 0
    Limits     \* what one behaviour may involve, see `budget`

Kinds == {"typed", "others", "turned", "archived"}

ASSUME AuditAssumption ==
    /\ Zero \in Figures /\ Imports \subseteq Nat \ {ByHand}
    /\ Limits \subseteq [Kinds -> Nat]

VARIABLES
    book,      \* the server's tables: counts, change log
    imports,   \* the registered imports
    page,      \* the audit page: open sheet, what it shows, attributions
    drafts,    \* drafts[d]: what is staged on a sheet, and its undo steps
    sending,   \* the count being saved
    revert,    \* the import being deleted: what its transaction read and wrote
    archived,  \* dates with entries that left the change log for the archive
    budget     \* steps left of each kind: typed, others' writes, page turns, archivings

auditVars == <<book, imports, page, drafts, sending, revert, archived, budget>>

Sources == Imports \cup {ByHand}

-----------------------------------------------------------------------------
(* The tables *)

\* A sheet has at most one count.  `by`: the import that left it as it is now.
\* `strayed`: its attribution had been carried from sheet to sheet.  `raced`: it
\* was saved while its import was being deleted.
Counts(n) == [rec: 1..n, figure: Figures, published: BOOLEAN, by: Sources,
              strayed: BOOLEAN, raced: BOOLEAN]

\* `prior` is the count before: there is none for a CREATE.
Entries(n, logged) ==
    [id: 1..logged, rec: 1..n, date: Dates, tag: Sources, prior: Maybe]

\* Ids, of counts ever made and of entries ever logged, are counted.
NoCounts == [counts |-> [d \in Dates |-> {}], log |-> {}, records |-> 0, logged |-> 0]

The(s) == CHOOSE x \in s: TRUE
CountFigures(counts) == {c.figure: c \in counts}
RecordsOf(counts) == {c.rec: c \in counts}

\* The log with one more entry, of record `rec` on sheet `d`.
Logged(b, rec, d, tag, prior) ==
    b.log \cup {[id |-> b.logged + 1, rec |-> rec, date |-> d, tag |-> tag, prior |-> prior]}

\* saveManualCount: unpublished again, and logged.
SaveCount(b, d, figure, tag, history) ==
    LET old == b.counts[d]
        rec == IF old = {} THEN b.records + 1 ELSE The(RecordsOf(old))
        new == [rec |-> rec, figure |-> figure, published |-> FALSE, by |-> history.by,
                strayed |-> history.strayed, raced |-> history.raced]
    IN [counts |-> [b.counts EXCEPT ![d] = {new}],
        log |-> Logged(b, rec, d, tag, CountFigures(old)),
        records |-> IF old = {} THEN rec ELSE b.records,
        logged |-> b.logged + 1]

\* An entry nobody's import is tagged in.
Note(b, d) ==
    LET c == The(b.counts[d])
    IN [b EXCEPT !.log = Logged(b, c.rec, d, ByHand, {c.figure}), !.logged = @ + 1]

\* deleteManualCount: nothing happens where nothing is counted.
DeleteCount(b, d) ==
    IF b.counts[d] = {} THEN b ELSE [Note(b, d) EXCEPT !.counts[d] = {}]

Plain == [by |-> ByHand, strayed |-> FALSE, raced |-> FALSE]

\* A count typed or removed: draftAction.
WriteText(b, d, text, tag, history) ==
    IF text = {} THEN DeleteCount(b, d)
    ELSE SaveCount(b, d, The(text), tag, history)

-----------------------------------------------------------------------------
(* The page *)

\* An attribution is the import a draft is tagged with when it is saved; the page
\* keeps one per product, whatever sheet is open.
Attributions == [tag: Imports, strayed: BOOLEAN]
Drafts == [text: Maybe, by: Sources]
AuditSnapshots ==
    {s \in [staged: SUBSET Drafts, source: SUBSET Attributions]:
        AtMostOne(s.staged) /\ AtMostOne(s.source)}

IsBook(b) ==
    /\ b \in [counts: [Dates -> SUBSET Counts(b.records)],
              log: SUBSET Entries(b.records, b.logged), records: Nat, logged: Nat]
    /\ \A d \in Dates: AtMostOne(b.counts[d])

IsSheet(draft) ==
    /\ draft \in [staged: SUBSET Drafts, past: Seq(AuditSnapshots), future: Seq(AuditSnapshots)]
    /\ AtMostOne(draft.staged)
    /\ Len(draft.past) <= HistoryLimit /\ Len(draft.future) <= HistoryLimit

IsPage(p) ==
    /\ p \in [open: Dates, shown: Maybe, source: SUBSET Attributions,
              undoable: SUBSET [figure: Figures, prior: Figures]]
    /\ AtMostOne(p.source) /\ AtMostOne(p.undoable)

AuditTypeOK ==
    /\ IsBook(book)
    /\ imports \in [Imports -> {"unused", "listed", "deleted"}]
    /\ IsPage(page)
    /\ DOMAIN drafts = Dates /\ \A d \in Dates: IsSheet(drafts[d])
    /\ sending \subseteq [text: Maybe, by: Sources, source: SUBSET Attributions, done: BOOLEAN]
    /\ AtMostOne(sending) /\ AtMostOne(revert)
    /\ \A r \in revert:
         /\ r \in [import: Imports, seen: {r.seen}, own: SUBSET book.log, at: 0..book.logged]
         /\ IsBook(r.seen)
    /\ archived \subseteq Dates
    /\ budget \in [Kinds -> Nat]

AuditInit ==
    /\ book = NoCounts
    /\ imports = [b \in Imports |-> "unused"]
    /\ \E d \in Dates: page = [open |-> d, shown |-> {}, source |-> {}, undoable |-> {}]
    /\ drafts = [d \in Dates |-> [staged |-> {}, past |-> <<>>, future |-> <<>>]]
    /\ sending = {}
    /\ revert = {}
    /\ archived = {}
    /\ budget \in Limits

Spend(kind) == budget[kind] > 0 /\ budget' = [budget EXCEPT ![kind] = @ - 1]

server == <<book, imports, revert, archived>>
Ready == sending = {}

\* blankPublished: a published count is shown as if nothing were counted.
Shown(d) == CountFigures({c \in book.counts[d]: ~c.published})

\* isRealChange: emptying a cell is no change where nothing or 0 is shown.
IsChange(text, shown) ==
    IF text = {} THEN shown \notin {{}, {Zero}} ELSE text # shown

Current == [staged |-> drafts[page.open].staged, source |-> page.source]

\* pushHistory
Pushed(draft) ==
    [draft EXCEPT !.past = Latest(Append(@, Current)), !.future = <<>>]

SetDraft(draft) == drafts' = [drafts EXCEPT ![page.open] = draft]

\* Mutant of Detached: the attribution outlives an edit by hand.
DetachedOnClear(source, text) == IF text = {} THEN {} ELSE source

\* setDraft without an import
Detached(source, text) == {}

\* A cell typed in, filled or pasted into and left: settleDraft drops what is no change.
TypeCount(text) ==
    /\ Ready
    /\ Spend("typed")
    /\ SetDraft([Pushed(drafts[page.open]) EXCEPT
                   !.staged = IF IsChange(text, page.shown)
                              THEN {[text |-> text, by |-> ByHand]} ELSE {}])
    /\ page' = [page EXCEPT !.source = Detached(@, text)]
    /\ UNCHANGED <<server, sending>>

\* clearDrafts
DiscardCounts ==
    /\ Ready
    /\ Current # [staged |-> {}, source |-> {}]
    /\ SetDraft([Pushed(drafts[page.open]) EXCEPT !.staged = {}])
    /\ page' = [page EXCEPT !.source = {}]
    /\ UNCHANGED <<server, sending, budget>>

\* What sameSnapshot compares.
Visible(snapshot) ==
    <<{x.text: x \in snapshot.staged}, {a.tag: a \in snapshot.source}>>

\* undo: steps that would change nothing are skipped.
UndoCount ==
    LET draft == drafts[page.open]
        steps == {i \in DOMAIN draft.past: Visible(draft.past[i]) # Visible(Current)}
    IN /\ Ready
       /\ draft.past # <<>>
       /\ Spend("typed")
       /\ IF steps = {}
          THEN SetDraft([draft EXCEPT !.past = <<>>]) /\ UNCHANGED page
          ELSE \E i \in steps:
               /\ \A j \in steps: j <= i
               /\ SetDraft([staged |-> draft.past[i].staged,
                            past |-> SubSeq(draft.past, 1, i - 1),
                            future |-> Earliest(<<Current>> \o draft.future)])
               /\ page' = [page EXCEPT !.source = draft.past[i].source]
       /\ UNCHANGED <<server, sending>>

RedoCount ==
    LET draft == drafts[page.open] IN
    /\ Ready
    /\ draft.future # <<>>
    /\ Spend("typed")
    /\ SetDraft([staged |-> Head(draft.future).staged,
                 past |-> Latest(Append(draft.past, Current)),
                 future |-> Tail(draft.future)])
    /\ page' = [page EXCEPT !.source = Head(draft.future).source]
    /\ UNCHANGED <<server, sending>>

\* createImportBatch: the next import, or none when it could not be registered.
Registered ==
    LET unused == {b \in Imports: imports[b] = "unused"}
    IN {{}} \cup {{b}: b \in {b \in unused: \A b2 \in unused: b <= b2}}

\* diffImportLine: only what differs from the count shown is imported.
Differs(figure) == {figure} # page.shown

\* handleConfirmImport: an import that could not be registered goes on untagged.
ImportCount(figure) ==
    /\ Ready
    /\ Differs(figure)
    /\ Spend("typed")
    /\ \E registered \in Registered:
         /\ imports' = [b \in Imports |-> IF b \in registered THEN "listed" ELSE imports[b]]
         /\ SetDraft([drafts[page.open] EXCEPT
              !.staged = {[text |-> {figure},
                           by |-> IF registered = {} THEN ByHand ELSE The(registered)]}])
         /\ page' = [page EXCEPT
              !.source = {[tag |-> b, strayed |-> FALSE]: b \in registered},
              !.undoable = {[figure |-> figure,
                             prior |-> IF page.shown = {} THEN Zero ELSE The(page.shown)]}]
    /\ UNCHANGED <<book, revert, archived, sending>>

\* handleUndoImport: stages the figure shown before, 0 for none, where the imported
\* one is still staged on the open sheet.
UndoImport ==
    /\ Ready
    /\ \E u \in page.undoable:
         IF {u.figure} \in {x.text: x \in drafts[page.open].staged}
         THEN /\ SetDraft([drafts[page.open] EXCEPT
                             !.staged = {[text |-> {u.prior}, by |-> ByHand]}])
              /\ page' = [page EXCEPT !.source = {}, !.undoable = {}]
         ELSE page' = [page EXCEPT !.undoable = {}] /\ UNCHANGED drafts
    /\ UNCHANGED <<server, sending, budget>>

\* The drafts stay with their sheet, the attribution with the page.
SwitchSheet(d) ==
    /\ Ready
    /\ d # page.open
    /\ Spend("turned")
    /\ page' = [page EXCEPT !.open = d, !.shown = Shown(d),
                            !.source = {[a EXCEPT !.strayed = TRUE]: a \in @}]
    /\ UNCHANGED <<server, drafts, sending>>

\* A reload, or another page and back: drafts and undo steps are in sessionStorage.
ReloadPage ==
    /\ Ready
    /\ Spend("turned")
    /\ page' = [page EXCEPT !.shown = Shown(page.open), !.source = {}, !.undoable = {}]
    /\ UNCHANGED <<server, drafts, sending>>

\* A data-changed message.
RefreshCount ==
    /\ page.shown # Shown(page.open)
    /\ page' = [page EXCEPT !.shown = Shown(page.open)]
    /\ UNCHANGED <<server, drafts, sending, budget>>

-----------------------------------------------------------------------------
(* handleSaveAll *)

ClickSaveCount ==
    /\ Ready
    /\ \E x \in drafts[page.open].staged:
         /\ IsChange(x.text, page.shown)
         /\ sending' = {[text |-> x.text, by |-> x.by, source |-> page.source, done |-> FALSE]}
    /\ UNCHANGED <<server, page, drafts, budget>>

\* The tag must name a registered import (a foreign key).
CommitCount ==
    \E s \in sending:
        LET tags == {a.tag: a \in s.source}
            tag == IF tags = {} THEN ByHand ELSE The(tags)
        IN /\ ~s.done
           /\ tag \in {ByHand} \cup {b \in Imports: imports[b] = "listed"}
           /\ book' = WriteText(book, page.open, s.text, tag,
                        [by |-> IF s.by = tag THEN tag ELSE ByHand,
                         strayed |-> \E a \in s.source: a.strayed,
                         raced |-> \E r \in revert: r.import = tag])
           /\ sending' = {[s EXCEPT !.done = TRUE]}
           /\ UNCHANGED <<imports, page, drafts, revert, archived, budget>>

\* Whatever the answer, the undo steps go.
Settled(staged) == [staged |-> staged, past |-> <<>>, future |-> <<>>]

AnswerCount ==
    \E s \in sending:
        /\ s.done
        /\ SetDraft(Settled({}))
        /\ page' = [page EXCEPT !.shown = s.text, !.source = {}]
        /\ sending' = {}
        /\ UNCHANGED <<server, budget>>

\* Refused (the import was deleted), failed or not answered in time: the draft stays.
FailCount ==
    \E s \in sending:
        /\ \/ \E a \in s.source: ~s.done /\ imports[a.tag] = "deleted" /\ UNCHANGED budget
           \/ Spend("others")
        /\ SetDraft(Settled(drafts[page.open].staged))
        /\ sending' = {}
        /\ UNCHANGED <<server, page>>

-----------------------------------------------------------------------------
(* Other people *)

\* A count saved or removed on another device.
CountElsewhere(d, text) ==
    /\ Spend("others")
    /\ book' = WriteText(book, d, text, ByHand, Plain)
    /\ UNCHANGED <<imports, page, drafts, sending, revert, archived>>

\* A change to a count that is not a save: it is logged all the same.
Changed(b, d, c) == [Note(b, d) EXCEPT !.counts[d] = {[c EXCEPT !.by = ByHand]}]

\* publishManualCounts: a product that was not counted is counted 0.
Publish(d) ==
    /\ Spend("others")
    /\ \/ \E c \in book.counts[d]:
            /\ ~c.published
            /\ book' = Changed(book, d, [c EXCEPT !.published = TRUE])
       \/ /\ book.counts[d] = {}
          /\ LET zeroed == SaveCount(book, d, Zero, ByHand, Plain) IN
             book' = [zeroed EXCEPT !.counts[d] = {[c EXCEPT !.published = TRUE]: c \in @}]
    /\ UNCHANGED <<imports, page, drafts, sending, revert, archived>>

\* revertAuditSnapshot
Unpublish(d) ==
    /\ Spend("others")
    /\ \E c \in book.counts[d]:
         c.published /\ book' = Changed(book, d, [c EXCEPT !.published = FALSE])
    /\ UNCHANGED <<imports, page, drafts, sending, revert, archived>>

\* setCountRemarks; a carry-forward that moves the count's variance is logged alike.
Remark(d) ==
    /\ Spend("others")
    /\ \E c \in book.counts[d]: book' = Changed(book, d, c)
    /\ UNCHANGED <<imports, page, drafts, sending, revert, archived>>

\* What is past the retention period leaves the change log, but for tagged entries.
\* A save or a revert does not last for months.
Archive(age) ==
    LET old == {e \in book.log: e.id <= age /\ e.tag = ByHand}
    IN /\ Ready /\ revert = {}
       /\ Spend("archived")
       /\ book' = [book EXCEPT !.log = @ \ old]
       /\ archived' = archived \cup {e.date: e \in old}
       /\ UNCHANGED <<imports, page, drafts, sending, revert>>

-----------------------------------------------------------------------------
(* revertImportBatch *)

\* The transaction reads at REPEATABLE READ: what it sees is as of its start, and
\* what it wrote itself.  `at`: the entry its loop has come to.
BeginRevert(b) ==
    /\ revert = {}
    /\ imports[b] = "listed"
    /\ revert' = {[import |-> b, seen |-> book, own |-> {}, at |-> 0]}
    /\ UNCHANGED <<book, imports, page, drafts, sending, archived, budget>>

SeesCount(r, d) ==
    IF \E e \in r.own: e.date = d THEN book.counts[d] # {} ELSE r.seen.counts[d] # {}

\* The import's own entry, still ahead of the loop, is the latest of its record.
IsLatest(r, e) ==
    /\ e.tag = r.import /\ e.id > r.at
    /\ \A x \in r.seen.log \cup r.own: x.rec = e.rec => x.id <= e.id

\* Mutant of Takes: a count the import created is left.
TakesUpdates(r, e) == IsLatest(r, e) /\ e.prior # {}

\* A CREATE is taken back where there is a count to delete.
Takes(r, e) == IsLatest(r, e) /\ (e.prior # {} \/ SeesCount(r, e.date))

\* A CREATE is deleted (by sheet), an UPDATE saved back.
TakeBack(b, e) == WriteText(b, e.date, e.prior, ByHand, Plain)

\* A record that was deleted or made since the transaction began fails it.
Clashes(r) ==
    \E e \in r.seen.log: Takes(r, e) /\ LET d == e.date IN
        RecordsOf(book.counts[d]) # RecordsOf(r.seen.counts[d])

\* The next entry of the loop that is taken back.  Nobody sees the transaction
\* half done: from its first write to its end it runs alone.
WriteBack ==
    \E r \in revert: \E e \in r.seen.log:
        /\ Takes(r, e) /\ \A x \in r.seen.log: Takes(r, x) => e.id <= x.id
        /\ r.own = {} => ~Clashes(r)
        /\ book' = TakeBack(book, e)
        /\ revert' = {[r EXCEPT !.at = e.id, !.own = @ \cup (book'.log \ book.log)]}
        /\ UNCHANGED <<imports, page, drafts, sending, archived, budget>>

\* onDelete: SetNull
Untagged(log, b) == {IF e.tag = b THEN [e EXCEPT !.tag = ByHand] ELSE e: e \in log}

FinishRevert ==
    \E r \in revert:
        /\ \A e \in r.seen.log: ~Takes(r, e)
        /\ book' = [book EXCEPT !.log = Untagged(@, r.import)]
        /\ imports' = [imports EXCEPT ![r.import] = "deleted"]
        /\ revert' = {}
        /\ UNCHANGED <<page, drafts, sending, archived, budget>>

\* Refused (a closed month), failed or cut: all of it is rolled back.
FailRevert ==
    /\ revert # {}
    /\ revert' = {}
    /\ UNCHANGED <<book, imports, page, drafts, sending, archived, budget>>

\* The revert has written and not ended.
Writing == \E r \in revert: r.own # {}

-----------------------------------------------------------------------------
AuditNext ==
    \/ WriteBack \/ FinishRevert
    \/ /\ ~Writing
       /\ \/ \E text \in Maybe: TypeCount(text)
          \/ DiscardCounts \/ UndoCount \/ RedoCount
          \/ \E figure \in Figures: ImportCount(figure)
          \/ UndoImport
          \/ \E d \in Dates: SwitchSheet(d)
          \/ ReloadPage \/ RefreshCount
          \/ ClickSaveCount \/ CommitCount \/ AnswerCount \/ FailCount
          \/ \E d \in Dates, text \in Maybe: CountElsewhere(d, text)
          \/ \E d \in Dates: Publish(d) \/ Unpublish(d) \/ Remark(d)
          \/ \E e \in book.log: Archive(e.id)
          \/ \E b \in Imports: BeginRevert(b)
          \/ FailRevert

AuditSpec == AuditInit /\ [][AuditNext]_auditVars

-----------------------------------------------------------------------------
(* Properties *)

Moved(d) == CountFigures(book.counts[d]) # CountFigures(book.counts[d])'
TakesBack(b) == WriteBack /\ \E r \in revert: r.import = b

\* The figure is the import's, or the page had tagged it on another sheet, or
\* somebody wrote it after the revert began.
ImportsOwn(b, d) ==
    \/ \E c \in book.counts[d]: c.by = b \/ c.strayed
    \/ \E r \in revert: \E e \in book.log \ (r.seen.log \cup r.own): e.date = d

\* Deleting an import moves no count that was typed, saved again, published or
\* remarked on since (revertImportBatch: a row someone touched again is left), as
\* long as what was logged of it since is still in the change log.
RevertTakesImportOnly ==
    [][\A b \in Imports, d \in Dates:
         TakesBack(b) /\ Moved(d) => ImportsOwn(b, d) \/ d \in archived]_auditVars

\* A count that stands as its import left it is taken back with it, unless it was
\* saved while the import was being deleted.
RevertLeavesNothing ==
    \A d \in Dates, b \in Imports: \A c \in book.counts[d]:
        c.by = b /\ ~c.raced => imports[b] = "listed"
=============================================================================
