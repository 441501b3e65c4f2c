--------------------------- MODULE AuditSheetsProofs ---------------------------
(***************************************************************************)
(* Theorems about AuditSheets, for any dates, imports, figures and budgets *)
(* of steps: its types, that deleting an import takes back its own counts  *)
(* and no other, and that it leaves none of them behind.                   *)
(*                                                                         *)
(* The argument is about the change log: it names, for each count, the     *)
(* import that left it, and for each import's entry still the latest of    *)
(* its record, the count it left.  Every write to the book is one entry    *)
(* and at most one count of the same sheet (Rewrites).                     *)
(***************************************************************************)
EXTENDS ClientPages, EntryTabsProofs

-----------------------------------------------------------------------------
(* Sets of at most one element *)

LEMMA TheIsOne ==
    ASSUME NEW s, s # {}
    PROVE  The(s) \in s
BY DEF The

LEMMA OneIsThe ==
    ASSUME NEW s, AtMostOne(s), NEW x \in s
    PROVE  s = {x} /\ The(s) = x
BY DEF The, AtMostOne

LEMMA SetOfOne ==
    ASSUME NEW x
    PROVE  AtMostOne({}) /\ AtMostOne({x})
BY DEF AtMostOne

-----------------------------------------------------------------------------
(* Writing the book *)

\* One entry of `d` is logged with `tag`; only the count of `d` may change, to
\* none or to one of the record of the entry.
Rewrites(b, b2, d, tag) ==
    \E e:
      /\ e.id = b.logged + 1 /\ e.date = d /\ e.tag = tag
      /\ b2.log = b.log \cup {e} /\ b2.logged = b.logged + 1
      /\ \A d2 \in Dates: d2 # d => b2.counts[d2] = b.counts[d2]
      /\ \A c \in b2.counts[d]: c.rec = e.rec
      /\ \/ b.counts[d] = {} /\ e.rec = b.records + 1
         \/ \E c \in b.counts[d]: c.rec = e.rec
      /\ \A c \in b2.counts[d]: c.by \in Imports => c.by = tag
      /\ tag \in Imports => \E c \in b2.counts[d]: c.by = tag \/ c.strayed

LEMMA BookTypes ==
    ASSUME NEW b, IsBook(b)
    PROVE  /\ b.records \in Nat /\ b.logged \in Nat
           /\ \A d \in Dates: b.counts[d] \subseteq Counts(b.records) /\ AtMostOne(b.counts[d])
           /\ b.log \subseteq Entries(b.records, b.logged)
BY DEF IsBook

LEMMA GrowingTypes ==
    ASSUME NEW n \in Nat, NEW logged \in Nat
    PROVE  /\ Counts(n) \subseteq Counts(n + 1)
           /\ Entries(n, logged) \subseteq Entries(n, logged + 1)
           /\ Entries(n, logged) \subseteq Entries(n + 1, logged + 1)
<1>1. 1..n \subseteq 1..(n + 1) /\ 1..logged \subseteq 1..(logged + 1)
  OBVIOUS
<1> QED BY <1>1 DEF Counts, Entries

Histories == [by: Sources, strayed: BOOLEAN, raced: BOOLEAN]

\* A book is rebuilt from its parts.
LEMMA BookFromParts ==
    ASSUME NEW b, IsBook(b), NEW d \in Dates, NEW entry, NEW count,
           NEW n \in {b.records, b.records + 1},
           entry \in Entries(n, b.logged + 1),
           count \in SUBSET Counts(n), AtMostOne(count)
    PROVE  IsBook([counts |-> [b.counts EXCEPT ![d] = count], log |-> b.log \cup {entry},
                   records |-> n, logged |-> b.logged + 1])
<1>1. /\ n \in Nat /\ b.logged + 1 \in Nat
      /\ \A d2 \in Dates: b.counts[d2] \subseteq Counts(n) /\ AtMostOne(b.counts[d2])
      /\ b.log \subseteq Entries(n, b.logged + 1)
  BY BookTypes, GrowingTypes
<1>2. DOMAIN b.counts = Dates /\ b.counts \in [Dates -> SUBSET Counts(b.records)]
  BY DEF IsBook
<1>3. [b.counts EXCEPT ![d] = count] \in [Dates -> SUBSET Counts(n)]
  BY <1>1, <1>2
<1>4. \A d2 \in Dates: AtMostOne([b.counts EXCEPT ![d] = count][d2])
  BY <1>1, <1>2
<1> QED BY <1>1, <1>3, <1>4 DEF IsBook

LEMMA SaveCountWrites ==
    ASSUME NEW b, IsBook(b), NEW d \in Dates, NEW figure \in Figures, NEW tag \in Sources,
           NEW history \in Histories, history.by \in {tag, ByHand},
           tag \in Imports => history.by = tag \/ history.strayed
    PROVE  LET b2 == SaveCount(b, d, figure, tag, history) IN
           /\ IsBook(b2) /\ Rewrites(b, b2, d, tag)
           /\ \E c \in b2.counts[d]: /\ b2.counts[d] = {c} /\ c.figure = figure /\ ~c.published
                                     /\ c.by = history.by /\ c.raced = history.raced
<1> DEFINE old == b.counts[d]
           rec == IF old = {} THEN b.records + 1 ELSE The(RecordsOf(old))
           n == IF old = {} THEN rec ELSE b.records
           new == [rec |-> rec, figure |-> figure, published |-> FALSE, by |-> history.by,
                   strayed |-> history.strayed, raced |-> history.raced]
           entry == [id |-> b.logged + 1, rec |-> rec, date |-> d, tag |-> tag,
                     prior |-> CountFigures(old)]
           b2 == [counts |-> [b.counts EXCEPT ![d] = {new}], log |-> b.log \cup {entry},
                  records |-> n, logged |-> b.logged + 1]
<1>1. /\ b.records \in Nat /\ b.logged \in Nat
      /\ old \subseteq Counts(b.records) /\ AtMostOne(old)
  BY BookTypes
<1>2. old # {} => \E c \in old: old = {c} /\ rec = c.rec /\ CountFigures(old) = {c.figure}
  <2> SUFFICES ASSUME NEW c \in old
               PROVE  old = {c} /\ rec = c.rec /\ CountFigures(old) = {c.figure}
    OBVIOUS
  <2>1. old = {c}
    BY <1>1, OneIsThe
  <2>2. RecordsOf(old) = {c.rec} /\ CountFigures(old) = {c.figure}
    BY <2>1 DEF RecordsOf, CountFigures
  <2>3. The(RecordsOf(old)) = c.rec
    BY <2>2, TheIsOne
  <2> QED BY <2>1, <2>2, <2>3
<1>3. n \in {b.records, b.records + 1} /\ rec \in 1..n
  <2>1. CASE old = {}
    BY <1>1, <2>1
  <2>2. CASE old # {}
    BY <1>1, <1>2, <2>2 DEF Counts
  <2> QED BY <2>1, <2>2
<1>4. CountFigures(old) \in Maybe
  <2>1. CASE old = {}
    BY <2>1, NoneAndOne DEF CountFigures
  <2>2. CASE old # {}
    BY <1>1, <1>2, <2>2, NoneAndOne DEF Counts
  <2> QED BY <2>1, <2>2
<1>5. entry \in Entries(n, b.logged + 1)
  BY <1>1, <1>3, <1>4 DEF Entries
<1>6. new \in Counts(n) /\ AtMostOne({new})
  BY <1>3, SetOfOne DEF Counts, Histories
<1>7. IsBook(b2)
  <2> HIDE DEF n, rec, new, entry
  <2> QED BY <1>3, <1>5, <1>6, BookFromParts
<1>8. b2 = SaveCount(b, d, figure, tag, history)
  BY DEF SaveCount, Logged
<1>9. b2.counts[d] = {new} /\ \A d2 \in Dates: d2 # d => b2.counts[d2] = b.counts[d2]
  BY DEF IsBook
<1>10. Rewrites(b, b2, d, tag)
  <2>1. /\ entry.id = b.logged + 1 /\ entry.date = d /\ entry.tag = tag /\ entry.rec = rec
        /\ b2.log = b.log \cup {entry} /\ b2.logged = b.logged + 1
    OBVIOUS
  <2>2. \/ b.counts[d] = {} /\ entry.rec = b.records + 1
        \/ \E c \in b.counts[d]: c.rec = entry.rec
    BY <1>2
  <2>3. new.rec = entry.rec /\ new.by = history.by /\ new.strayed = history.strayed
    OBVIOUS
  <2>4. new.by \in Imports => new.by = tag
    BY <2>3, AuditAssumption
  <2> HIDE DEF b2, entry, new
  <2> QED BY <1>9, <2>1, <2>2, <2>3, <2>4 DEF Rewrites
<1>11. \E c \in b2.counts[d]: /\ b2.counts[d] = {c} /\ c.figure = figure /\ ~c.published
                             /\ c.by = history.by /\ c.raced = history.raced
  <2>1. /\ new.figure = figure /\ ~new.published
        /\ new.by = history.by /\ new.raced = history.raced
    OBVIOUS
  <2> HIDE DEF b2, new
  <2> QED BY <1>9, <2>1
<1> QED BY <1>7, <1>8, <1>10, <1>11

\* What is logged of the count of a sheet, and the sheet left with `count`.
LEMMA NoteWrites ==
    ASSUME NEW b, IsBook(b), NEW d \in Dates, NEW c \in b.counts[d],
           NEW count \in SUBSET Counts(b.records), AtMostOne(count),
           \A x \in count: x.rec = c.rec /\ x.by = ByHand
    PROVE  LET b2 == [Note(b, d) EXCEPT !.counts[d] = count] IN
           IsBook(b2) /\ Rewrites(b, b2, d, ByHand) /\ b2.counts[d] = count
<1> DEFINE entry == [id |-> b.logged + 1, rec |-> c.rec, date |-> d, tag |-> ByHand,
                     prior |-> {c.figure}]
           b2 == [counts |-> [b.counts EXCEPT ![d] = count], log |-> b.log \cup {entry},
                  records |-> b.records, logged |-> b.logged + 1]
<1>1. /\ b.records \in Nat /\ b.logged \in Nat /\ c \in Counts(b.records)
      /\ The(b.counts[d]) = c
  BY BookTypes, OneIsThe
<1>2. entry \in Entries(b.records, b.logged + 1)
  BY <1>1, NoneAndOne DEF Entries, Counts, Sources
<1>3. IsBook(b2)
  <2> HIDE DEF entry
  <2> QED BY <1>1, <1>2, BookFromParts
<1>4. b2 = [Note(b, d) EXCEPT !.counts[d] = count]
  <2>1. Note(b, d) = [b EXCEPT !.log = b.log \cup {entry}, !.logged = @ + 1]
    BY <1>1 DEF Note, Logged
  <2> HIDE DEF entry
  <2>2. b = [counts |-> b.counts, log |-> b.log, records |-> b.records, logged |-> b.logged]
    BY DEF IsBook
  <2>3. Note(b, d) = [counts |-> b.counts, log |-> b.log \cup {entry}, records |-> b.records,
                      logged |-> b.logged + 1]
    BY <2>1, <2>2
  <2>4. \A counts, log, records, logged:
          LET n == [counts |-> counts, log |-> log, records |-> records, logged |-> logged]
          IN [n EXCEPT !.counts[d] = count]
               = [counts |-> [counts EXCEPT ![d] = count], log |-> log, records |-> records,
                  logged |-> logged]
    OBVIOUS
  <2> QED BY <2>3, <2>4
<1>5. b2.counts[d] = count /\ \A d2 \in Dates: d2 # d => b2.counts[d2] = b.counts[d2]
  BY DEF IsBook
<1>6. /\ entry.id = b.logged + 1 /\ entry.date = d /\ entry.tag = ByHand /\ entry.rec = c.rec
      /\ b2.log = b.log \cup {entry} /\ b2.logged = b.logged + 1
  OBVIOUS
<1>7. Rewrites(b, b2, d, ByHand)
  <2> HIDE DEF entry, b2
  <2> QED BY <1>5, <1>6, AuditAssumption DEF Rewrites
<1> QED BY <1>3, <1>4, <1>5, <1>7

LEMMA ChangedWrites ==
    ASSUME NEW b, IsBook(b), NEW d \in Dates, NEW c \in b.counts[d],
           NEW new \in Counts(b.records), new.rec = c.rec
    PROVE  LET b2 == Changed(b, d, new) IN
           /\ IsBook(b2) /\ Rewrites(b, b2, d, ByHand)
           /\ \A x \in b2.counts[d]: x.by = ByHand
<1> DEFINE count == {[new EXCEPT !.by = ByHand]}
<1>1. /\ count \in SUBSET Counts(b.records) /\ AtMostOne(count)
      /\ \A x \in count: x.rec = c.rec /\ x.by = ByHand
  BY SetOfOne DEF Counts, Sources
<1> HIDE DEF count
<1>2. LET b2 == [Note(b, d) EXCEPT !.counts[d] = count] IN
      IsBook(b2) /\ Rewrites(b, b2, d, ByHand) /\ b2.counts[d] = count
  BY <1>1, NoteWrites
<1> QED BY <1>1, <1>2 DEF Changed, count

LEMMA DeleteWrites ==
    ASSUME NEW b, IsBook(b), NEW d \in Dates, b.counts[d] # {}
    PROVE  LET b2 == DeleteCount(b, d) IN
           IsBook(b2) /\ Rewrites(b, b2, d, ByHand) /\ b2.counts[d] = {}
<1>1. PICK c \in b.counts[d]: TRUE
  OBVIOUS
<1>2. LET b2 == [Note(b, d) EXCEPT !.counts[d] = {}] IN
      IsBook(b2) /\ Rewrites(b, b2, d, ByHand) /\ b2.counts[d] = {}
  BY <1>1, NoteWrites, SetOfOne
<1> QED BY <1>2 DEF DeleteCount

\* publishManualCounts: a 0, and published.
LEMMA ZeroedWrites ==
    ASSUME NEW b, IsBook(b), NEW d \in Dates
    PROVE  LET zeroed == SaveCount(b, d, Zero, ByHand, Plain)
               b2 == [zeroed EXCEPT !.counts[d] = {[c EXCEPT !.published = TRUE]: c \in @}] IN
           IsBook(b2) /\ Rewrites(b, b2, d, ByHand) /\ \A c \in b2.counts[d]: c.by = ByHand
<1> DEFINE zeroed == SaveCount(b, d, Zero, ByHand, Plain)
           count == {[c EXCEPT !.published = TRUE]: c \in zeroed.counts[d]}
           b2 == [zeroed EXCEPT !.counts[d] = {[c EXCEPT !.published = TRUE]: c \in @}]
<1>1. /\ Zero \in Figures /\ ByHand \in Sources /\ ByHand \notin Imports
      /\ Plain \in Histories /\ Plain.by = ByHand
  BY AuditAssumption DEF Sources, Plain, Histories
<1>2. /\ IsBook(zeroed) /\ Rewrites(b, zeroed, d, ByHand)
      /\ \E c \in zeroed.counts[d]: zeroed.counts[d] = {c} /\ c.by = ByHand
  <2>1. /\ IsBook(zeroed) /\ Rewrites(b, zeroed, d, ByHand)
        /\ \E c \in zeroed.counts[d]: /\ zeroed.counts[d] = {c} /\ c.figure = Zero
                                      /\ ~c.published
                                      /\ c.by = Plain.by /\ c.raced = Plain.raced
    BY <1>1, SaveCountWrites
  <2> QED BY <1>1, <2>1
<1> HIDE DEF zeroed
<1>3. PICK c \in zeroed.counts[d]: zeroed.counts[d] = {c} /\ c.by = ByHand
  BY <1>2
<1>4. c \in Counts(zeroed.records)
  BY <1>2, BookTypes
<1>5. /\ count = {[c EXCEPT !.published = TRUE]}
      /\ count \in SUBSET Counts(zeroed.records) /\ AtMostOne(count)
      /\ \A x \in count: x.rec = c.rec /\ x.by = ByHand
  <2>1. count = {[c EXCEPT !.published = TRUE]}
    BY <1>3
  <2>2. [c EXCEPT !.published = TRUE] \in Counts(zeroed.records)
    BY <1>4 DEF Counts
  <2>3. [c EXCEPT !.published = TRUE].rec = c.rec /\ [c EXCEPT !.published = TRUE].by = ByHand
    BY <1>3, <1>4 DEF Counts
  <2> HIDE DEF count
  <2> QED BY <2>1, <2>2, <2>3, SetOfOne
<1>6. /\ zeroed \in [counts: {zeroed.counts}, log: {zeroed.log}, records: {zeroed.records},
                     logged: {zeroed.logged}]
      /\ zeroed.counts \in [Dates -> SUBSET Counts(zeroed.records)]
      /\ zeroed.log \subseteq Entries(zeroed.records, zeroed.logged)
      /\ zeroed.records \in Nat /\ zeroed.logged \in Nat
      /\ \A d2 \in Dates: AtMostOne(zeroed.counts[d2])
  BY <1>2 DEF IsBook
<1>7. /\ b2 \in [counts: {[zeroed.counts EXCEPT ![d] = count]}, log: {zeroed.log},
                 records: {zeroed.records}, logged: {zeroed.logged}]
  BY <1>6
<1> HIDE DEF count
<1>8. /\ b2.log = zeroed.log /\ b2.logged = zeroed.logged /\ b2.records = zeroed.records
      /\ b2.counts[d] = count
      /\ \A d2 \in Dates: d2 # d => b2.counts[d2] = zeroed.counts[d2]
      /\ b2.counts \in [Dates -> SUBSET Counts(zeroed.records)]
  <2> HIDE DEF b2
  <2> QED BY <1>5, <1>6, <1>7
<1>9. IsBook(b2)
  <2>1. b2 \in [counts: [Dates -> SUBSET Counts(b2.records)],
                log: SUBSET Entries(b2.records, b2.logged), records: Nat, logged: Nat]
    <3> HIDE DEF b2
    <3> QED BY <1>6, <1>7, <1>8
  <2>2. \A d2 \in Dates: AtMostOne(b2.counts[d2])
    <3> HIDE DEF b2
    <3> QED BY <1>5, <1>6, <1>8
  <2> HIDE DEF b2
  <2> QED BY <2>1, <2>2 DEF IsBook
<1>10. Rewrites(b, b2, d, ByHand)
  <2> HIDE DEF b2
  <2> QED BY <1>1, <1>2, <1>3, <1>5, <1>8 DEF Rewrites
<1> HIDE DEF b2
<1>11. \A x \in b2.counts[d]: x.by = ByHand
  BY <1>5, <1>8
<1> QED BY <1>9, <1>10, <1>11 DEF b2, zeroed

\* A count typed or removed, by a save or by a revert.
LEMMA TextWrites ==
    ASSUME NEW b, IsBook(b), NEW d \in Dates, NEW text \in Maybe, NEW tag \in Sources,
           NEW history \in Histories, history.by \in {tag, ByHand},
           tag \in Imports => history.by = tag \/ history.strayed
    PROVE  LET b2 == WriteText(b, d, text, tag, history) IN
           /\ IsBook(b2)
           /\ b2 = b \/ Rewrites(b, b2, d, tag) \/ Rewrites(b, b2, d, ByHand)
           /\ b2 # b => \A c \in b2.counts[d]: c.by = history.by /\ c.raced = history.raced
<1>1. CASE text # {}
  <2>1. The(text) \in Figures
    BY <1>1, TheIsOne DEF Maybe
  <2>2. WriteText(b, d, text, tag, history) = SaveCount(b, d, The(text), tag, history)
    BY <1>1 DEF WriteText
  <2>3. LET b2 == SaveCount(b, d, The(text), tag, history) IN
        /\ IsBook(b2) /\ Rewrites(b, b2, d, tag)
        /\ \A c \in b2.counts[d]: c.by = history.by /\ c.raced = history.raced
    <3>1. LET b2 == SaveCount(b, d, The(text), tag, history) IN
          /\ IsBook(b2) /\ Rewrites(b, b2, d, tag)
          /\ \E c \in b2.counts[d]: /\ b2.counts[d] = {c} /\ c.figure = The(text) /\ ~c.published
                                    /\ c.by = history.by /\ c.raced = history.raced
      BY <2>1, SaveCountWrites
    <3> QED BY <3>1
  <2> QED BY <1>1, <2>2, <2>3
<1>2. CASE text = {} /\ b.counts[d] = {}
  BY <1>2 DEF WriteText, DeleteCount
<1>3. CASE text = {} /\ b.counts[d] # {}
  <2>1. WriteText(b, d, text, tag, history) = DeleteCount(b, d)
    BY <1>3 DEF WriteText
  <2>2. LET b2 == DeleteCount(b, d) IN
        IsBook(b2) /\ Rewrites(b, b2, d, ByHand) /\ b2.counts[d] = {}
    BY <1>3, DeleteWrites
  <2>3. DeleteCount(b, d) # b
    BY <1>3, <2>2
  <2> QED BY <2>1, <2>2, <2>3
<1> QED BY <1>1, <1>2, <1>3

-----------------------------------------------------------------------------
(* The page: its types, and that a draft is its attribution's *)

\* Unless the page carried the attribution from another sheet, what is staged
\* was staged by the import it is attributed to.
PairMatches(s) == \A a \in s.source, x \in s.staged: ~a.strayed => x.by = a.tag
Matched == {s \in AuditSnapshots: PairMatches(s)}

SheetInv(draft) ==
    IsSheet(draft) /\ draft.past \in Seq(Matched) /\ draft.future \in Seq(Matched)

SendingTyped ==
    /\ sending \subseteq [text: Maybe, by: Sources, source: SUBSET Attributions, done: BOOLEAN]
    /\ AtMostOne(sending)
    /\ \A s \in sending: \A a \in s.source: ~a.strayed => s.by = a.tag

PageInv ==
    /\ IsPage(page)
    /\ DOMAIN drafts = Dates /\ \A d \in Dates: SheetInv(drafts[d])
    /\ PairMatches(Current)
    /\ SendingTyped
    /\ imports \in [Imports -> {"unused", "listed", "deleted"}]
    /\ budget \in [Kinds -> Nat]

LEMMA MatchedAreSnapshots ==
    ASSUME NEW stack \in Seq(Matched)
    PROVE  stack \in Seq(AuditSnapshots)
BY DEF Matched

LEMMA SheetFromParts ==
    ASSUME NEW staged \in SUBSET Drafts, AtMostOne(staged),
           NEW past \in Seq(Matched), NEW future \in Seq(Matched),
           Len(past) <= HistoryLimit, Len(future) <= HistoryLimit,
           NEW draft \in [staged: {staged}, past: {past}, future: {future}]
    PROVE  SheetInv(draft)
BY MatchedAreSnapshots DEF SheetInv, IsSheet

LEMMA SheetParts ==
    ASSUME NEW draft, SheetInv(draft)
    PROVE  /\ draft = [staged |-> draft.staged, past |-> draft.past, future |-> draft.future]
           /\ draft.staged \in SUBSET Drafts /\ AtMostOne(draft.staged)
           /\ draft.past \in Seq(Matched) /\ Len(draft.past) \in Nat
           /\ Len(draft.past) <= HistoryLimit
           /\ draft.future \in Seq(Matched) /\ Len(draft.future) \in Nat
           /\ Len(draft.future) <= HistoryLimit
BY DEF SheetInv, IsSheet

LEMMA CurrentIsMatched ==
    ASSUME PageInv
    PROVE  Current \in Matched /\ SheetInv(drafts[page.open]) /\ page.open \in Dates
<1>1. page.open \in Dates /\ page.source \in SUBSET Attributions /\ AtMostOne(page.source)
  BY DEF PageInv, IsPage
<1>2. SheetInv(drafts[page.open])
  BY <1>1 DEF PageInv
<1> QED BY <1>1, <1>2, SheetParts DEF PageInv, Current, AuditSnapshots, Matched

LEMMA NoHistory == <<>> \in Seq(Matched) /\ Len(<<>>) <= HistoryLimit
BY HistoryAssumption

\* The stack of undo steps with one more, cut to the limit.
LEMMA LongerStacks ==
    ASSUME NEW stack \in Seq(Matched), Len(stack) <= HistoryLimit, NEW s \in Matched
    PROVE  /\ Latest(Append(stack, s)) \in Seq(Matched)
           /\ Len(Latest(Append(stack, s))) <= HistoryLimit
           /\ Earliest(<<s>> \o stack) \in Seq(Matched)
           /\ Len(Earliest(<<s>> \o stack)) <= HistoryLimit
<1>1. Append(stack, s) \in Seq(Matched) /\ Len(Append(stack, s)) = Len(stack) + 1
  OBVIOUS
<1>2. <<s>> \in Seq(Matched) /\ Len(<<s>>) = 1
  OBVIOUS
<1>3. <<s>> \o stack \in Seq(Matched) /\ Len(<<s>> \o stack) = Len(stack) + 1
  BY <1>2
<1>4. Len(stack) + 1 <= HistoryLimit + 1
  BY HistoryAssumption
<1> QED BY <1>1, <1>3, <1>4, CutsAreShort

LEMMA PushedSheet ==
    ASSUME PageInv, NEW staged \in SUBSET Drafts, AtMostOne(staged)
    PROVE  SheetInv([Pushed(drafts[page.open]) EXCEPT !.staged = staged])
<1> DEFINE draft == drafts[page.open]
           past == Latest(Append(draft.past, Current))
<1>1. SheetInv(draft) /\ Current \in Matched
  BY CurrentIsMatched
<1>2. past \in Seq(Matched) /\ Len(past) <= HistoryLimit
  BY <1>1, SheetParts, LongerStacks
<1>3. [Pushed(draft) EXCEPT !.staged = staged] \in [staged: {staged}, past: {past}, future: {<<>>}]
  <2>1. draft \in [staged: SUBSET Drafts, past: Seq(AuditSnapshots), future: Seq(AuditSnapshots)]
    BY <1>1 DEF SheetInv, IsSheet
  <2>2. Pushed(draft) = [draft EXCEPT !.past = past, !.future = <<>>]
    BY DEF Pushed
  <2> HIDE DEF draft, past
  <2>3. Pushed(draft) \in [staged: {draft.staged}, past: {past}, future: {<<>>}]
    BY <2>1, <2>2
  <2> QED BY <2>3
<1> QED BY <1>2, <1>3, NoHistory, SheetFromParts

LEMMA RestagedSheet ==
    ASSUME NEW draft, SheetInv(draft), NEW staged \in SUBSET Drafts, AtMostOne(staged)
    PROVE  SheetInv([draft EXCEPT !.staged = staged])
<1>1. [draft EXCEPT !.staged = staged]
        \in [staged: {staged}, past: {draft.past}, future: {draft.future}]
  BY DEF SheetInv, IsSheet
<1> QED BY <1>1, SheetParts, SheetFromParts

LEMMA SettledSheet ==
    ASSUME NEW staged \in SUBSET Drafts, AtMostOne(staged)
    PROVE  SheetInv(Settled(staged))
BY NoHistory, SheetFromParts DEF Settled

\* A step of the page that sets the draft of the open sheet and its attribution.
LEMMA PageBecomes ==
    ASSUME PageInv, NEW draft, SheetInv(draft), SetDraft(draft),
           IsPage(page'), page'.open = page.open,
           \A a \in page'.source, x \in draft.staged: ~a.strayed => x.by = a.tag
    PROVE  /\ DOMAIN drafts' = Dates /\ \A d \in Dates: SheetInv(drafts[d])'
           /\ PairMatches(Current)'
<1>1. page.open \in Dates
  BY DEF PageInv, IsPage
<1>2. /\ DOMAIN drafts' = Dates
      /\ \A d \in Dates: drafts'[d] = IF d = page.open THEN draft ELSE drafts[d]
  BY DEF PageInv, SetDraft
<1>3. \A d \in Dates: SheetInv(drafts[d])'
  BY <1>2 DEF PageInv, SheetInv, IsSheet
<1>4. PairMatches(Current)'
  BY <1>1, <1>2 DEF PairMatches, Current
<1> QED BY <1>2, <1>3, <1>4

LEMMA SpendTypes ==
    ASSUME PageInv, NEW kind \in Kinds, Spend(kind)
    PROVE  budget' \in [Kinds -> Nat]
BY DEF PageInv, Spend

LEMMA ShownTypes ==
    ASSUME IsBook(book), NEW d \in Dates
    PROVE  Shown(d) \in Maybe
<1>1. book.counts[d] \subseteq Counts(book.records) /\ AtMostOne(book.counts[d])
  BY BookTypes
<1>2. CASE Shown(d) = {}
  BY <1>2, NoneAndOne
<1>3. ASSUME NEW c \in book.counts[d], ~c.published
      PROVE  Shown(d) = {c.figure}
  <2>1. book.counts[d] = {c}
    BY <1>1, OneIsThe
  <2> QED BY <1>3, <2>1 DEF Shown, CountFigures
<1> QED BY <1>1, <1>2, <1>3, NoneAndOne DEF Shown, CountFigures, Counts

LEMMA TypingKeepsPage ==
    ASSUME PageInv, (\E text \in Maybe: TypeCount(text)) \/ DiscardCounts
    PROVE  PageInv'
<1>1. IsPage(page) /\ Current \in Matched
  BY CurrentIsMatched DEF PageInv
<1>2. ASSUME NEW text \in Maybe, TypeCount(text)
      PROVE  PageInv'
  <2> DEFINE staged == IF IsChange(text, page.shown) THEN {[text |-> text, by |-> ByHand]} ELSE {}
             draft == [Pushed(drafts[page.open]) EXCEPT !.staged = staged]
  <2>1. staged \in SUBSET Drafts /\ AtMostOne(staged)
    <3>1. [text |-> text, by |-> ByHand] \in Drafts
      BY DEF Drafts, Sources
    <3> QED BY <3>1, SetOfOne
  <2>2. SheetInv(draft)
    <3> HIDE DEF staged
    <3> QED BY <2>1, PushedSheet
  <2>3. page' = [page EXCEPT !.source = {}] /\ SetDraft(draft)
    BY <1>2 DEF TypeCount, Detached
  <2>4. IsPage(page') /\ page'.open = page.open /\ page'.source = {}
    BY <1>1, <2>3, SetOfOne DEF IsPage
  <2>5. /\ DOMAIN drafts' = Dates /\ \A d \in Dates: SheetInv(drafts[d])'
        /\ PairMatches(Current)'
    <3> HIDE DEF draft
    <3> QED BY <2>2, <2>3, <2>4, PageBecomes
  <2>6. budget' \in [Kinds -> Nat]
    BY <1>2, SpendTypes DEF TypeCount, Kinds
  <2> QED BY <1>2, <2>4, <2>5, <2>6 DEF PageInv, TypeCount, SendingTyped, server
<1>3. CASE DiscardCounts
  <2> DEFINE draft == [Pushed(drafts[page.open]) EXCEPT !.staged = {}]
  <2>1. SheetInv(draft)
    BY SetOfOne, PushedSheet
  <2>2. page' = [page EXCEPT !.source = {}] /\ SetDraft(draft)
    BY <1>3 DEF DiscardCounts
  <2>3. IsPage(page') /\ page'.open = page.open /\ page'.source = {}
    BY <1>1, <2>2, SetOfOne DEF IsPage
  <2>4. /\ DOMAIN drafts' = Dates /\ \A d \in Dates: SheetInv(drafts[d])'
        /\ PairMatches(Current)'
    <3> HIDE DEF draft
    <3> QED BY <2>1, <2>2, <2>3, PageBecomes
  <2> QED BY <1>3, <2>3, <2>4 DEF PageInv, DiscardCounts, SendingTyped, server
<1> QED BY <1>2, <1>3

\* A step back or forward shows a pair the page had before.
LEMMA StepKeepsPage ==
    ASSUME PageInv, NEW s \in Matched, NEW draft, SheetInv(draft), draft.staged = s.staged,
           SetDraft(draft), page' = [page EXCEPT !.source = s.source]
    PROVE  /\ IsPage(page') /\ DOMAIN drafts' = Dates /\ \A d \in Dates: SheetInv(drafts[d])'
           /\ PairMatches(Current)'
<1>1. IsPage(page') /\ page'.open = page.open /\ page'.source = s.source
  BY DEF PageInv, IsPage, Matched, AuditSnapshots
<1>2. \A a \in page'.source, x \in draft.staged: ~a.strayed => x.by = a.tag
  BY <1>1 DEF Matched, PairMatches
<1> QED BY <1>1, <1>2, PageBecomes

LEMMA UndoKeepsPage ==
    ASSUME PageInv, UndoCount \/ RedoCount
    PROVE  PageInv'
<1> DEFINE draft == drafts[page.open]
<1>1. SheetInv(draft) /\ Current \in Matched /\ IsPage(page)
  BY CurrentIsMatched DEF PageInv
<1>2. budget' \in [Kinds -> Nat] /\ UNCHANGED <<sending, imports>>
  BY SpendTypes DEF UndoCount, RedoCount, Kinds, server
<1>3. SendingTyped' /\ imports' \in [Imports -> {"unused", "listed", "deleted"}]
  BY <1>2 DEF PageInv, SendingTyped
<1>4. SUFFICES /\ IsPage(page') /\ DOMAIN drafts' = Dates /\ \A d \in Dates: SheetInv(drafts[d])'
               /\ PairMatches(Current)'
  BY <1>2, <1>3 DEF PageInv
<1>5. CASE UndoCount
  <2>1. \/ SetDraft([draft EXCEPT !.past = <<>>]) /\ UNCHANGED page
        \/ \E i \in DOMAIN draft.past:
             /\ SetDraft([staged |-> draft.past[i].staged,
                          past |-> SubSeq(draft.past, 1, i - 1),
                          future |-> Earliest(<<Current>> \o draft.future)])
             /\ page' = [page EXCEPT !.source = draft.past[i].source]
    BY <1>5 DEF UndoCount
  <2>2. CASE SetDraft([draft EXCEPT !.past = <<>>]) /\ UNCHANGED page
    <3> DEFINE cleared == [draft EXCEPT !.past = <<>>]
    <3>1. cleared \in [staged: {draft.staged}, past: {<<>>}, future: {draft.future}]
      BY <1>1 DEF SheetInv, IsSheet
    <3>2. SheetInv(cleared)
      <4> HIDE DEF cleared, draft
      <4> QED BY <1>1, <3>1, NoHistory, SheetParts, SheetFromParts
    <3>3. Current.source = page.source /\ Current.staged = draft.staged
      BY DEF Current
    <3>4. \A a \in page'.source, x \in cleared.staged: ~a.strayed => x.by = a.tag
      BY <2>2, <3>1, <3>3 DEF PageInv, PairMatches
    <3> HIDE DEF cleared
    <3> QED BY <1>1, <2>2, <3>2, <3>4, PageBecomes DEF cleared
  <2>3. ASSUME NEW i \in DOMAIN draft.past,
               SetDraft([staged |-> draft.past[i].staged,
                         past |-> SubSeq(draft.past, 1, i - 1),
                         future |-> Earliest(<<Current>> \o draft.future)]),
               page' = [page EXCEPT !.source = draft.past[i].source]
        PROVE  /\ IsPage(page') /\ DOMAIN drafts' = Dates /\ \A d \in Dates: SheetInv(drafts[d])'
               /\ PairMatches(Current)'
    <3> DEFINE s == draft.past[i]
               past == SubSeq(draft.past, 1, i - 1)
               future == Earliest(<<Current>> \o draft.future)
               new == [staged |-> s.staged, past |-> past, future |-> future]
    <3>1. i \in 1..Len(draft.past) /\ s \in Matched
      BY <1>1, SheetParts
    <3>2. past \in Seq(Matched) /\ Len(past) = i - 1
      BY <1>1, <3>1, SheetParts
    <3>3. Len(past) <= HistoryLimit
      BY <1>1, <3>1, <3>2, SheetParts, HistoryAssumption
    <3>4. future \in Seq(Matched) /\ Len(future) <= HistoryLimit
      BY <1>1, SheetParts, LongerStacks
    <3>5. s.staged \in SUBSET Drafts /\ AtMostOne(s.staged)
      BY <3>1 DEF Matched, AuditSnapshots
    <3>6. SheetInv(new) /\ new.staged = s.staged
      <4> HIDE DEF s, past, future
      <4>1. new \in [staged: {s.staged}, past: {past}, future: {future}]
        OBVIOUS
      <4> HIDE DEF new
      <4> QED BY <3>2, <3>3, <3>4, <3>5, <4>1, SheetFromParts
    <3> HIDE DEF new, s
    <3> QED BY <2>3, <3>1, <3>6, StepKeepsPage DEF new, s
  <2> QED BY <2>1, <2>2, <2>3
<1>6. CASE RedoCount
  <2> DEFINE s == Head(draft.future)
             past == Latest(Append(draft.past, Current))
             future == Tail(draft.future)
             new == [staged |-> s.staged, past |-> past, future |-> future]
  <2>1. SetDraft(new) /\ page' = [page EXCEPT !.source = s.source] /\ draft.future # <<>>
    BY <1>6 DEF RedoCount
  <2>2. s \in Matched /\ future \in Seq(Matched) /\ Len(future) = Len(draft.future) - 1
    BY <1>1, <2>1, SheetParts
  <2>3. Len(future) <= HistoryLimit
    BY <1>1, <2>2, SheetParts, HistoryAssumption
  <2>4. past \in Seq(Matched) /\ Len(past) <= HistoryLimit
    BY <1>1, SheetParts, LongerStacks
  <2>5. s.staged \in SUBSET Drafts /\ AtMostOne(s.staged)
    BY <2>2 DEF Matched, AuditSnapshots
  <2>6. SheetInv(new) /\ new.staged = s.staged
    <3> HIDE DEF s, past, future
    <3>1. new \in [staged: {s.staged}, past: {past}, future: {future}]
      OBVIOUS
    <3> HIDE DEF new
    <3> QED BY <2>2, <2>3, <2>4, <2>5, <3>1, SheetFromParts
  <2> HIDE DEF new, s
  <2> QED BY <2>1, <2>2, <2>6, StepKeepsPage
<1> QED BY <1>5, <1>6

LEMMA ImportingKeepsPage ==
    ASSUME PageInv, NEW figure \in Figures, ImportCount(figure)
    PROVE  /\ PageInv'
           /\ \A b \in Imports: imports[b] = "listed" => imports'[b] = "listed"
<1>1. PICK registered \in Registered:
        /\ imports' = [b \in Imports |-> IF b \in registered THEN "listed" ELSE imports[b]]
        /\ SetDraft([drafts[page.open] EXCEPT
             !.staged = {[text |-> {figure},
                          by |-> IF registered = {} THEN ByHand ELSE The(registered)]}])
        /\ page' = [page EXCEPT
             !.source = {[tag |-> b, strayed |-> FALSE]: b \in registered},
             !.undoable = {[figure |-> figure,
                            prior |-> IF page.shown = {} THEN Zero ELSE The(page.shown)]}]
  BY DEF ImportCount
<1>2. registered = {} \/ \E b \in Imports: registered = {b}
  BY DEF Registered
<1> DEFINE by == IF registered = {} THEN ByHand ELSE The(registered)
           draft == [drafts[page.open] EXCEPT !.staged = {[text |-> {figure}, by |-> by]}]
           source == {[tag |-> b, strayed |-> FALSE]: b \in registered}
           undo == [figure |-> figure,
                    prior |-> IF page.shown = {} THEN Zero ELSE The(page.shown)]
<1>3. by \in Sources /\ \A b \in registered: b \in Imports /\ b = by
  <2>1. CASE registered = {}
    BY <2>1 DEF Sources
  <2>2. ASSUME NEW b \in Imports, registered = {b}
        PROVE  The(registered) = b
    BY <2>2, TheIsOne
  <2> QED BY <1>2, <2>1, <2>2 DEF Sources
<1> HIDE DEF by
<1>4. {[text |-> {figure}, by |-> by]} \in SUBSET Drafts
      /\ AtMostOne({[text |-> {figure}, by |-> by]})
  <2>1. [text |-> {figure}, by |-> by] \in Drafts
    BY <1>3, NoneAndOne DEF Drafts
  <2> QED BY <2>1, SetOfOne
<1>5. SheetInv(draft)
  BY <1>4, CurrentIsMatched, RestagedSheet
<1>6. source \in SUBSET Attributions /\ AtMostOne(source)
  <2>1. ASSUME NEW b \in registered
        PROVE  /\ [tag |-> b, strayed |-> FALSE] \in Attributions
               /\ [tag |-> b, strayed |-> FALSE] = [tag |-> by, strayed |-> FALSE]
    BY <1>3 DEF Attributions
  <2>2. \A a \in source: a \in Attributions /\ a = [tag |-> by, strayed |-> FALSE]
    BY <2>1
  <2> HIDE DEF source
  <2> QED BY <2>2 DEF AtMostOne
<1>7. undo \in [figure: Figures, prior: Figures]
  <2>1. page.shown # {} => The(page.shown) \in Figures
    BY TheIsOne DEF PageInv, IsPage, Maybe
  <2> QED BY <2>1, AuditAssumption
<1>8. IsPage(page') /\ page'.open = page.open /\ page'.source = source
  <2> HIDE DEF source, undo
  <2>1. page' = [page EXCEPT !.source = source, !.undoable = {undo}]
    BY <1>1 DEF source, undo
  <2> QED BY <1>6, <1>7, <2>1, SetOfOne DEF PageInv, IsPage
<1>9. draft.staged = {[text |-> {figure}, by |-> by]}
  BY CurrentIsMatched DEF SheetInv, IsSheet
<1>10. \A a \in source, x \in draft.staged: ~a.strayed => x.by = a.tag
  <2> HIDE DEF draft
  <2> QED BY <1>3, <1>9
<1>11. SetDraft(draft)
  BY <1>1 DEF by
<1>12. /\ DOMAIN drafts' = Dates /\ \A d \in Dates: SheetInv(drafts[d])'
       /\ PairMatches(Current)'
  <2> HIDE DEF draft, source
  <2> QED BY <1>5, <1>8, <1>10, <1>11, PageBecomes
<1>13. imports' \in [Imports -> {"unused", "listed", "deleted"}]
       /\ \A b \in Imports: imports[b] = "listed" => imports'[b] = "listed"
  BY <1>1 DEF PageInv
<1>14. budget' \in [Kinds -> Nat] /\ SendingTyped'
  BY SpendTypes DEF ImportCount, Kinds, PageInv, SendingTyped
<1> QED BY <1>8, <1>12, <1>13, <1>14 DEF PageInv

LEMMA UndoImportKeepsPage ==
    ASSUME PageInv, UndoImport
    PROVE  PageInv'
<1>1. PICK u \in page.undoable:
        \/ /\ SetDraft([drafts[page.open] EXCEPT
                          !.staged = {[text |-> {u.prior}, by |-> ByHand]}])
           /\ page' = [page EXCEPT !.source = {}, !.undoable = {}]
        \/ page' = [page EXCEPT !.undoable = {}] /\ UNCHANGED drafts
  BY DEF UndoImport
<1>2. UNCHANGED <<imports, sending, budget>>
  BY DEF UndoImport, server
<1>3. SendingTyped' /\ imports' \in [Imports -> {"unused", "listed", "deleted"}]
      /\ budget' \in [Kinds -> Nat]
  BY <1>2 DEF PageInv, SendingTyped
<1>4. CASE page' = [page EXCEPT !.undoable = {}] /\ UNCHANGED drafts
  <2>1. IsPage(page') /\ page'.open = page.open /\ page'.source = page.source
    BY <1>4, SetOfOne DEF PageInv, IsPage
  <2>2. Current' = Current
    BY <1>4, <2>1 DEF Current
  <2> QED BY <1>3, <1>4, <2>1, <2>2 DEF PageInv, PairMatches, SheetInv, IsSheet
<1>5. CASE /\ SetDraft([drafts[page.open] EXCEPT
                          !.staged = {[text |-> {u.prior}, by |-> ByHand]}])
           /\ page' = [page EXCEPT !.source = {}, !.undoable = {}]
  <2> DEFINE staged == {[text |-> {u.prior}, by |-> ByHand]}
             draft == [drafts[page.open] EXCEPT !.staged = staged]
  <2>1. u.prior \in Figures
    BY DEF PageInv, IsPage
  <2>2. staged \in SUBSET Drafts /\ AtMostOne(staged)
    <3>1. [text |-> {u.prior}, by |-> ByHand] \in Drafts
      BY <2>1, NoneAndOne DEF Drafts, Sources
    <3> QED BY <3>1, SetOfOne
  <2>3. SheetInv(draft)
    <3> HIDE DEF staged
    <3> QED BY <2>2, CurrentIsMatched, RestagedSheet
  <2>4. IsPage(page') /\ page'.open = page.open /\ page'.source = {}
    BY <1>5, SetOfOne DEF PageInv, IsPage
  <2>5. /\ DOMAIN drafts' = Dates /\ \A d \in Dates: SheetInv(drafts[d])'
        /\ PairMatches(Current)'
    <3> HIDE DEF draft
    <3>1. SetDraft(draft)
      BY <1>5 DEF draft
    <3> QED BY <2>3, <2>4, <3>1, PageBecomes
  <2> QED BY <1>3, <2>4, <2>5 DEF PageInv
<1> QED BY <1>1, <1>4, <1>5

\* Another sheet, a reload, a refresh: the page shows what is counted, and what
\* it carries to another sheet is marked as strayed.
LEMMA ViewKeepsPage ==
    ASSUME PageInv, IsBook(book),
           (\E d \in Dates: SwitchSheet(d)) \/ ReloadPage \/ RefreshCount
    PROVE  PageInv'
<1>1. UNCHANGED <<drafts, sending, imports>>
  BY DEF SwitchSheet, ReloadPage, RefreshCount, server
<1>2. budget' \in [Kinds -> Nat]
  BY SpendTypes DEF SwitchSheet, ReloadPage, RefreshCount, Kinds, PageInv
<1>3. IsPage(page') /\ PairMatches(Current)'
  <2>1. ASSUME NEW d \in Dates, SwitchSheet(d)
        PROVE  IsPage(page') /\ PairMatches(Current)'
    <3> DEFINE source == {[a EXCEPT !.strayed = TRUE]: a \in page.source}
    <3>1. page' = [page EXCEPT !.open = d, !.shown = Shown(d), !.source = source]
      BY <2>1 DEF SwitchSheet
    <3>2. /\ source \in SUBSET Attributions /\ AtMostOne(source)
          /\ \A a \in source: a.strayed
      BY DEF PageInv, IsPage, Attributions, AtMostOne
    <3> HIDE DEF source
    <3>3. IsPage(page') /\ page'.source = source
      BY <3>1, <3>2, ShownTypes DEF PageInv, IsPage
    <3> QED BY <3>2, <3>3 DEF PairMatches, Current
  <2>2. CASE ReloadPage
    <3>1. /\ page' = [page EXCEPT !.shown = Shown(page.open), !.source = {}, !.undoable = {}]
          /\ Shown(page.open) \in Maybe
      BY <2>2, ShownTypes DEF ReloadPage, PageInv, IsPage
    <3>2. IsPage(page') /\ page'.source = {}
      BY <3>1, SetOfOne DEF PageInv, IsPage
    <3> QED BY <3>2 DEF PairMatches, Current
  <2>3. CASE RefreshCount
    <3>1. /\ page' = [page EXCEPT !.shown = Shown(page.open)]
          /\ Shown(page.open) \in Maybe
      BY <2>3, ShownTypes DEF RefreshCount, PageInv, IsPage
    <3>2. IsPage(page') /\ page'.source = page.source /\ page'.open = page.open
      BY <3>1 DEF PageInv, IsPage
    <3>3. Current' = Current
      BY <1>1, <3>2 DEF Current
    <3> QED BY <3>2, <3>3 DEF PageInv, PairMatches
  <2> QED BY <2>1, <2>2, <2>3
<1> QED BY <1>1, <1>2, <1>3 DEF PageInv, SendingTyped, SheetInv, IsSheet

LEMMA SavingKeepsPage ==
    ASSUME PageInv, ClickSaveCount \/ AnswerCount \/ FailCount
    PROVE  PageInv'
<1>1. SheetInv(drafts[page.open]) /\ IsPage(page) /\ Current \in Matched
  BY CurrentIsMatched DEF PageInv
<1>2. UNCHANGED imports
  BY DEF ClickSaveCount, AnswerCount, FailCount, server
<1>3. CASE ClickSaveCount
  <2>1. PICK x \in drafts[page.open].staged:
           sending' = {[text |-> x.text, by |-> x.by, source |-> page.source, done |-> FALSE]}
    BY <1>3 DEF ClickSaveCount
  <2>2. x \in Drafts /\ \A a \in page.source: ~a.strayed => x.by = a.tag
    BY <1>1, SheetParts DEF PageInv, PairMatches, Current
  <2>3. SendingTyped'
    <3> DEFINE new == [text |-> x.text, by |-> x.by, source |-> page.source, done |-> FALSE]
    <3>1. new \in [text: Maybe, by: Sources, source: SUBSET Attributions, done: BOOLEAN]
      BY <1>1, <2>2 DEF Drafts, IsPage
    <3>2. \A a \in new.source: ~a.strayed => new.by = a.tag
      BY <2>2
    <3> HIDE DEF new
    <3> QED BY <2>1, <3>1, <3>2, SetOfOne DEF SendingTyped, new
  <2>4. UNCHANGED <<page, drafts, budget>>
    BY <1>3 DEF ClickSaveCount
  <2> QED BY <1>2, <2>3, <2>4 DEF PageInv, PairMatches, Current, SheetInv, IsSheet
<1>4. CASE AnswerCount
  <2>1. PICK s \in sending: /\ page' = [page EXCEPT !.shown = s.text, !.source = {}]
                            /\ SetDraft(Settled({})) /\ sending' = {}
    BY <1>4 DEF AnswerCount
  <2>2. s.text \in Maybe
    BY DEF PageInv, SendingTyped
  <2>3. IsPage(page') /\ page'.open = page.open /\ page'.source = {}
    BY <1>1, <2>1, <2>2, SetOfOne DEF IsPage
  <2>4. SheetInv(Settled({}))
    BY SetOfOne, SettledSheet
  <2>5. /\ DOMAIN drafts' = Dates /\ \A d \in Dates: SheetInv(drafts[d])'
        /\ PairMatches(Current)'
    BY <2>1, <2>3, <2>4, PageBecomes
  <2>6. SendingTyped' /\ UNCHANGED budget
    BY <1>4, <2>1, SetOfOne DEF SendingTyped, AnswerCount
  <2> QED BY <1>2, <2>3, <2>5, <2>6 DEF PageInv
<1>5. CASE FailCount
  <2> DEFINE draft == Settled(drafts[page.open].staged)
  <2>1. SheetInv(draft) /\ draft.staged = drafts[page.open].staged
    BY <1>1, SheetParts, SettledSheet DEF Settled
  <2>2. SetDraft(draft) /\ UNCHANGED page /\ sending' = {}
    BY <1>5 DEF FailCount
  <2>3. \A a \in page'.source, x \in draft.staged: ~a.strayed => x.by = a.tag
    BY <2>1, <2>2 DEF PageInv, PairMatches, Current
  <2>4. /\ DOMAIN drafts' = Dates /\ \A d \in Dates: SheetInv(drafts[d])'
        /\ PairMatches(Current)'
    <3> HIDE DEF draft
    <3> QED BY <1>1, <2>1, <2>2, <2>3, PageBecomes
  <2>5. SendingTyped' /\ budget' \in [Kinds -> Nat]
    BY <1>5, <2>2, SetOfOne, SpendTypes DEF SendingTyped, FailCount, PageInv, Kinds
  <2> QED BY <1>1, <1>2, <2>2, <2>4, <2>5 DEF PageInv
<1> QED BY <1>3, <1>4, <1>5

-----------------------------------------------------------------------------
(* The change log and the counts it tells of *)

IsLast(b, e) == \A x \in b.log: x.rec = e.rec => x.id <= e.id

IdsAreUnique(b) == \A e1, e2 \in b.log: e1.id = e2.id => e1 = e2

\* A record stays on the sheet it was made on.
RecordsKeepSheets(b) ==
    /\ \A e1, e2 \in b.log: e1.rec = e2.rec => e1.date = e2.date
    /\ \A d \in Dates: \A c \in b.counts[d]: \A e \in b.log: e.rec = c.rec => e.date = d
    /\ \A d1, d2 \in Dates: \A c1 \in b.counts[d1], c2 \in b.counts[d2]:
         c1.rec = c2.rec => d1 = d2

\* Where an import's entry is the last of its record, its count stands, unless
\* what was logged later has left the log.
TagsTell(b, gone) ==
    \A e \in b.log: IsLast(b, e) /\ e.tag \in Imports /\ e.date \notin gone =>
        \E c \in b.counts[e.date]: c.rec = e.rec /\ (c.by = e.tag \/ c.strayed)

\* A count an import left has the import's entry last.
OriginsAreLogged(b) ==
    \A d \in Dates: \A c \in b.counts[d]: c.by \in Imports /\ ~c.raced =>
        \E e \in b.log: IsLast(b, e) /\ e.rec = c.rec /\ e.tag = c.by

BookInv(b, gone) ==
    /\ IsBook(b) /\ IdsAreUnique(b) /\ RecordsKeepSheets(b)
    /\ TagsTell(b, gone) /\ OriginsAreLogged(b)

LEMMA EntryTypes ==
    ASSUME NEW b, IsBook(b), NEW e \in b.log
    PROVE  /\ e.id \in Nat /\ e.id >= 1 /\ e.id <= b.logged
           /\ e.rec \in Nat /\ e.rec <= b.records
           /\ e.date \in Dates /\ e.tag \in Sources /\ e.prior \in Maybe
BY BookTypes DEF Entries

LEMMA CountTypes ==
    ASSUME NEW b, IsBook(b), NEW d \in Dates, NEW c \in b.counts[d]
    PROVE  /\ c.rec \in Nat /\ c.rec <= b.records /\ c.by \in Sources
           /\ b.counts[d] = {c}
BY BookTypes, OneIsThe DEF Counts

LEMMA RewritesKeepBook ==
    ASSUME NEW b, NEW gone, BookInv(b, gone), NEW b2, IsBook(b2),
           NEW d \in Dates, NEW tag \in Sources, Rewrites(b, b2, d, tag)
    PROVE  BookInv(b2, gone)
<1>1. PICK e:
      /\ e.id = b.logged + 1 /\ e.date = d /\ e.tag = tag
      /\ b2.log = b.log \cup {e} /\ b2.logged = b.logged + 1
      /\ \A d2 \in Dates: d2 # d => b2.counts[d2] = b.counts[d2]
      /\ \A c \in b2.counts[d]: c.rec = e.rec
      /\ \/ b.counts[d] = {} /\ e.rec = b.records + 1
         \/ \E c \in b.counts[d]: c.rec = e.rec
      /\ \A c \in b2.counts[d]: c.by \in Imports => c.by = tag
      /\ tag \in Imports => \E c \in b2.counts[d]: c.by = tag \/ c.strayed
  BY DEF Rewrites
<1>2. IsBook(b) /\ b.logged \in Nat /\ b.records \in Nat
  BY BookTypes DEF BookInv
<1>3. \A x \in b.log: x.id < e.id
  BY <1>1, <1>2, EntryTypes
<1>4. IdsAreUnique(b2)
  <2> SUFFICES ASSUME NEW e1 \in b2.log, NEW e2 \in b2.log, e1.id = e2.id
               PROVE  e1 = e2
    BY DEF IdsAreUnique
  <2>1. \A x \in b.log: x.id \in Nat
    BY <1>2, EntryTypes
  <2> QED BY <1>1, <1>2, <1>3, <2>1 DEF BookInv, IdsAreUnique
\* The record of the entry was on no other sheet.
<1>5. \A x \in b.log: x.rec = e.rec => x.date = d
  BY <1>1, <1>2, EntryTypes DEF BookInv, RecordsKeepSheets
<1>6. \A d2 \in Dates: \A c \in b2.counts[d2]: c.rec = e.rec => d2 = d
  <2> SUFFICES ASSUME NEW d2 \in Dates, d2 # d, NEW c \in b2.counts[d2], c.rec = e.rec
               PROVE  FALSE
    OBVIOUS
  <2>1. c \in b.counts[d2] /\ c.rec <= b.records /\ c.rec \in Nat
    BY <1>1, <1>2, CountTypes
  <2> QED BY <1>1, <1>2, <2>1 DEF BookInv, RecordsKeepSheets
<1>7. RecordsKeepSheets(b2)
  <2>1. \A e1, e2 \in b2.log: e1.rec = e2.rec => e1.date = e2.date
    BY <1>1, <1>5 DEF BookInv, RecordsKeepSheets
  <2>2. ASSUME NEW d2 \in Dates, NEW c \in b2.counts[d2], NEW x \in b2.log, x.rec = c.rec
        PROVE  x.date = d2
    <3>1. CASE d2 = d
      BY <1>1, <1>5, <2>2, <3>1
    <3>2. CASE d2 # d
      BY <1>1, <1>6, <2>2, <3>2 DEF BookInv, RecordsKeepSheets
    <3> QED BY <3>1, <3>2
  <2>3. ASSUME NEW d1 \in Dates, NEW d2 \in Dates,
               NEW c1 \in b2.counts[d1], NEW c2 \in b2.counts[d2], c1.rec = c2.rec
        PROVE  d1 = d2
    <3>1. CASE d1 = d \/ d2 = d
      BY <1>1, <1>6, <2>3, <3>1
    <3>2. CASE d1 # d /\ d2 # d
      BY <1>1, <2>3, <3>2 DEF BookInv, RecordsKeepSheets
    <3> QED BY <3>1, <3>2
  <2> QED BY <2>1, <2>2, <2>3 DEF RecordsKeepSheets
<1>8. TagsTell(b2, gone)
  <2> SUFFICES ASSUME NEW x \in b2.log, IsLast(b2, x), x.tag \in Imports, x.date \notin gone
               PROVE  \E c \in b2.counts[x.date]: c.rec = x.rec /\ (c.by = x.tag \/ c.strayed)
    BY DEF TagsTell
  <2>1. CASE x = e
    BY <1>1, <2>1
  <2>2. CASE x \in b.log
    <3>1. PICK c \in b.counts[x.date]: c.rec = x.rec /\ (c.by = x.tag \/ c.strayed)
      BY <1>1, <2>2 DEF BookInv, TagsTell, IsLast
    <3>2. x.date \in Dates
      BY <1>2, <2>2, EntryTypes
    <3>3. x.date # d
      <4> SUFFICES ASSUME x.date = d
                   PROVE  FALSE
        OBVIOUS
      <4>1. b.counts[d] = {c}
        BY <1>2, <3>1, CountTypes
      <4>2. e.rec = x.rec
        BY <1>1, <3>1, <4>1
      <4>3. e.id <= x.id /\ x.id < e.id /\ x.id \in Nat /\ e.id \in Nat
        BY <1>1, <1>2, <1>3, <2>2, <4>2, EntryTypes DEF IsLast
      <4> QED BY <4>3
    <3> QED BY <1>1, <3>1, <3>2, <3>3
  <2> QED BY <1>1, <2>1, <2>2
<1>9. OriginsAreLogged(b2)
  <2> SUFFICES ASSUME NEW d2 \in Dates, NEW c \in b2.counts[d2], c.by \in Imports, ~c.raced
               PROVE  \E x \in b2.log: IsLast(b2, x) /\ x.rec = c.rec /\ x.tag = c.by
    BY DEF OriginsAreLogged
  <2>1. CASE d2 = d
    <3>1. e \in b2.log /\ e.rec = c.rec /\ e.tag = c.by
      BY <1>1, <2>1
    <3>2. IsLast(b2, e)
      <4>1. \A x \in b.log: x.id \in Nat
        BY <1>2, EntryTypes
      <4> QED BY <1>1, <1>2, <1>3, <4>1 DEF IsLast
    <3> QED BY <3>1, <3>2
  <2>2. CASE d2 # d
    <3>1. PICK x \in b.log: IsLast(b, x) /\ x.rec = c.rec /\ x.tag = c.by
      BY <1>1, <2>2 DEF BookInv, OriginsAreLogged
    <3>2. IsLast(b2, x)
      BY <1>1, <1>6, <2>2, <3>1 DEF IsLast
    <3> QED BY <1>1, <3>1, <3>2
  <2> QED BY <2>1, <2>2
<1> QED BY <1>4, <1>7, <1>8, <1>9 DEF BookInv

\* What a write to one sheet leaves of an entry of a count on another.
LEMMA RewritesLeaveOthers ==
    ASSUME NEW b, NEW gone, BookInv(b, gone), NEW b2, IsBook(b2),
           NEW d \in Dates, NEW tag \in Sources, Rewrites(b, b2, d, tag),
           NEW d2 \in Dates, d2 # d, NEW c \in b2.counts[d2],
           NEW x \in b.log, x.rec = c.rec, IsLast(b, x)
    PROVE  c \in b.counts[d2] /\ x \in b2.log /\ IsLast(b2, x)
<1>1. PICK e: /\ e.date = d /\ b2.log = b.log \cup {e}
              /\ \A d3 \in Dates: d3 # d => b2.counts[d3] = b.counts[d3]
  BY DEF Rewrites
<1>2. RecordsKeepSheets(b2)
  BY RewritesKeepBook DEF BookInv
<1>3. e.rec # c.rec
  BY <1>1, <1>2 DEF RecordsKeepSheets
<1> QED BY <1>1, <1>3 DEF IsLast

-----------------------------------------------------------------------------
(* The server: what a transaction that deletes an import knows *)

RevertTyped ==
    /\ AtMostOne(revert)
    /\ \A r \in revert:
         /\ r \in [import: Imports, seen: {r.seen}, own: SUBSET book.log, at: 0..book.logged]
         /\ IsBook(r.seen)

\* What it saw is still logged; a count that stands as its import left it was there
\* when it began, and its entry is still ahead.
RevertKnows ==
    \A r \in revert:
      /\ r.seen.log \subseteq book.log
      /\ \A d \in Dates: \A c \in book.counts[d]: c.by = r.import /\ ~c.raced =>
           /\ c \in r.seen.counts[d]
           /\ \E e \in r.seen.log:
                IsLast(book, e) /\ e.rec = c.rec /\ e.tag = c.by /\ e.id > r.at

ServerInv ==
    /\ BookInv(book, archived) /\ archived \subseteq Dates
    /\ RevertTyped /\ RevertKnows /\ RevertLeavesNothing

AuditInv == PageInv /\ ServerInv

\* A write to a sheet: by hand, or by a save tagged with a listed import, which is
\* marked when that import is being deleted.
Writes ==
    \/ UNCHANGED book
    \/ \E d \in Dates, tag \in Sources:
         /\ Rewrites(book, book', d, tag)
         /\ \A c \in book'.counts[d]: c.by \in Imports /\ ~c.raced =>
              imports[c.by] = "listed" /\ \A r \in revert: r.import # c.by

LEMMA WritesKeepServer ==
    ASSUME ServerInv, IsBook(book'), Writes, UNCHANGED <<imports, revert, archived>>
    PROVE  ServerInv'
<1>1. CASE UNCHANGED book
  BY <1>1 DEF ServerInv, BookInv, IsBook, IdsAreUnique, RecordsKeepSheets, TagsTell, IsLast,
              OriginsAreLogged, RevertTyped, RevertKnows, RevertLeavesNothing
<1>2. ASSUME NEW d \in Dates, NEW tag \in Sources, Rewrites(book, book', d, tag),
             \A c \in book'.counts[d]: c.by \in Imports /\ ~c.raced =>
               imports[c.by] = "listed" /\ \A r \in revert: r.import # c.by
      PROVE  ServerInv'
  <2>1. BookInv(book, archived) /\ BookInv(book', archived)
    BY <1>2, RewritesKeepBook DEF ServerInv
  <2>2. BookInv(book, archived)'
    BY <2>1 DEF BookInv, IsBook, IdsAreUnique, RecordsKeepSheets, TagsTell, IsLast,
                OriginsAreLogged
  <2>3. book.log \subseteq book'.log /\ book'.logged = book.logged + 1 /\ book.logged \in Nat
        /\ \A d2 \in Dates: d2 # d => book'.counts[d2] = book.counts[d2]
    BY <1>2, <2>1, BookTypes DEF Rewrites, BookInv
  <2>4. RevertTyped'
    BY <2>3 DEF ServerInv, RevertTyped, IsBook
  <2>5. RevertLeavesNothing'
    BY <1>2, <2>3 DEF ServerInv, RevertLeavesNothing
  <2>6. RevertKnows'
    <3> SUFFICES ASSUME NEW r \in revert
                 PROVE  /\ r.seen.log \subseteq book'.log
                        /\ \A d2 \in Dates: \A c \in book'.counts[d2]:
                             c.by = r.import /\ ~c.raced =>
                               /\ c \in r.seen.counts[d2]
                               /\ \E e \in r.seen.log: IsLast(book', e) /\ e.rec = c.rec
                                    /\ e.tag = c.by /\ e.id > r.at
      BY DEF RevertKnows, IsLast
    <3>1. r.seen.log \subseteq book.log /\ r.import \in Imports
      BY DEF ServerInv, RevertKnows, RevertTyped
    <3>2. ASSUME NEW d2 \in Dates, NEW c \in book'.counts[d2], c.by = r.import, ~c.raced
          PROVE  /\ c \in r.seen.counts[d2]
                 /\ \E e \in r.seen.log: IsLast(book', e) /\ e.rec = c.rec
                      /\ e.tag = c.by /\ e.id > r.at
      <4>1. d2 # d
        BY <1>2, <3>1, <3>2
      <4>2. /\ c \in book.counts[d2] /\ c \in r.seen.counts[d2]
            /\ \E e \in r.seen.log: IsLast(book, e) /\ e.rec = c.rec
                 /\ e.tag = c.by /\ e.id > r.at
        BY <2>3, <3>2, <4>1 DEF ServerInv, RevertKnows
      <4>3. PICK e \in r.seen.log: IsLast(book, e) /\ e.rec = c.rec
                                   /\ e.tag = c.by /\ e.id > r.at
        BY <4>2
      <4>4. IsLast(book', e)
        BY <1>2, <2>1, <3>1, <4>1, <4>3, RewritesLeaveOthers
      <4> QED BY <4>2, <4>3, <4>4
    <3> QED BY <2>3, <3>1, <3>2
  <2> QED BY <2>2, <2>4, <2>5, <2>6 DEF ServerInv
<1> QED BY <1>1, <1>2 DEF Writes

\* A step of the page alone: imports may be listed.
LEMMA PageStepsKeepServer ==
    ASSUME ServerInv, UNCHANGED <<book, revert, archived>>,
           \A b \in Imports: imports[b] = "listed" => imports'[b] = "listed"
    PROVE  ServerInv'
BY DEF ServerInv, BookInv, IsBook, IdsAreUnique, RecordsKeepSheets, TagsTell, IsLast,
       OriginsAreLogged, RevertTyped, RevertKnows, RevertLeavesNothing

\* A step of the server alone.
LEMMA ServerStepsKeepPage ==
    ASSUME PageInv, UNCHANGED <<page, drafts, sending>>,
           imports' \in [Imports -> {"unused", "listed", "deleted"}],
           budget' \in [Kinds -> Nat]
    PROVE  PageInv'
BY DEF PageInv, PairMatches, Current, SendingTyped, SheetInv, IsSheet

LEMMA PlainTypes == Plain \in Histories /\ Plain.by = ByHand /\ ~Plain.raced
BY DEF Plain, Histories, Sources

LEMMA ByHandWrites ==
    ASSUME NEW b, IsBook(b), NEW d \in Dates, NEW text \in Maybe
    PROVE  LET b2 == WriteText(b, d, text, ByHand, Plain) IN
           /\ IsBook(b2)
           /\ b2 = b \/ (Rewrites(b, b2, d, ByHand) /\ \A c \in b2.counts[d]: c.by = ByHand)
<1>1. ByHand \in Sources /\ ByHand \notin Imports
  BY AuditAssumption DEF Sources
<1> DEFINE b2 == WriteText(b, d, text, ByHand, Plain)
<1>2. /\ IsBook(b2)
      /\ b2 = b \/ Rewrites(b, b2, d, ByHand) \/ Rewrites(b, b2, d, ByHand)
      /\ b2 # b => \A c \in b2.counts[d]: c.by = Plain.by /\ c.raced = Plain.raced
  BY <1>1, PlainTypes, TextWrites
<1> HIDE DEF b2
<1>3. /\ IsBook(b2)
      /\ b2 = b \/ (Rewrites(b, b2, d, ByHand) /\ \A c \in b2.counts[d]: c.by = ByHand)
  BY <1>2, PlainTypes
<1> QED BY <1>3 DEF b2

LEMMA OthersKeepInv ==
    ASSUME AuditInv, NEW d \in Dates,
           \/ \E text \in Maybe: CountElsewhere(d, text)
           \/ Publish(d) \/ Unpublish(d) \/ Remark(d)
    PROVE  AuditInv'
<1>1. UNCHANGED <<imports, page, drafts, sending, revert, archived>>
  BY DEF CountElsewhere, Publish, Unpublish, Remark
<1>2. budget' \in [Kinds -> Nat]
  BY SpendTypes DEF CountElsewhere, Publish, Unpublish, Remark, Kinds, AuditInv
<1>3. PageInv'
  BY <1>1, <1>2, ServerStepsKeepPage DEF AuditInv, PageInv
<1>4. IsBook(book) /\ ByHand \in Sources /\ ByHand \notin Imports /\ Zero \in Figures
  BY AuditAssumption DEF AuditInv, ServerInv, BookInv, Sources
<1>5. IsBook(book') /\ Writes
  <2>1. ASSUME NEW b2, IsBook(b2), Rewrites(book, b2, d, ByHand),
               \A c \in b2.counts[d]: c.by = ByHand, book' = b2
        PROVE  IsBook(book') /\ Writes
    BY <1>4, <2>1 DEF Writes
  <2>2. ASSUME NEW text \in Maybe, CountElsewhere(d, text)
        PROVE  IsBook(book') /\ Writes
    <3> DEFINE b2 == WriteText(book, d, text, ByHand, Plain)
    <3>1. book' = b2
      BY <2>2 DEF CountElsewhere
    <3>2. /\ IsBook(b2)
          /\ \/ b2 = book
             \/ Rewrites(book, b2, d, ByHand) /\ \A c \in b2.counts[d]: c.by = ByHand
      BY <1>4, ByHandWrites
    <3> HIDE DEF b2
    <3> QED BY <2>1, <3>1, <3>2 DEF Writes
  <2>3. ASSUME NEW c \in book.counts[d], NEW new \in Counts(book.records), new.rec = c.rec,
               book' = Changed(book, d, new)
        PROVE  IsBook(book') /\ Writes
    <3>1. /\ IsBook(Changed(book, d, new)) /\ Rewrites(book, Changed(book, d, new), d, ByHand)
          /\ \A x \in Changed(book, d, new).counts[d]: x.by = ByHand
      BY <1>4, <2>3, ChangedWrites
    <3> QED BY <2>1, <2>3, <3>1
  <2>4. ASSUME NEW c \in book.counts[d], NEW v \in BOOLEAN
        PROVE  /\ c \in Counts(book.records)
               /\ [c EXCEPT !.published = v] \in Counts(book.records)
               /\ [c EXCEPT !.published = v].rec = c.rec
    <3>1. c \in Counts(book.records)
      BY <1>4, BookTypes
    <3> QED BY <3>1 DEF Counts
  <2>5. CASE Publish(d)
    <3>1. ASSUME book.counts[d] = {},
                 book' = LET zeroed == SaveCount(book, d, Zero, ByHand, Plain) IN
                         [zeroed EXCEPT !.counts[d] = {[c EXCEPT !.published = TRUE]: c \in @}]
          PROVE  IsBook(book') /\ Writes
      <4> DEFINE zeroed == SaveCount(book, d, Zero, ByHand, Plain)
                 b2 == [zeroed EXCEPT !.counts[d] = {[c EXCEPT !.published = TRUE]: c \in @}]
      <4>1. IsBook(b2) /\ Rewrites(book, b2, d, ByHand) /\ \A c \in b2.counts[d]: c.by = ByHand
        BY <1>4, ZeroedWrites
      <4>2. book' = b2
        BY <3>1
      <4> HIDE DEF b2
      <4> QED BY <2>1, <4>1, <4>2
    <3>2. ASSUME NEW c \in book.counts[d],
                 book' = Changed(book, d, [c EXCEPT !.published = TRUE])
          PROVE  IsBook(book') /\ Writes
      BY <2>3, <2>4, <3>2
    <3> QED BY <2>5, <3>1, <3>2 DEF Publish
  <2>6. CASE Unpublish(d)
    BY <2>3, <2>4, <2>6 DEF Unpublish
  <2>7. CASE Remark(d)
    BY <2>3, <2>4, <2>7 DEF Remark
  <2> QED BY <2>2, <2>5, <2>6, <2>7
<1> QED BY <1>1, <1>3, <1>5, WritesKeepServer DEF AuditInv

LEMMA CommitKeepsInv ==
    ASSUME AuditInv, CommitCount
    PROVE  AuditInv'
<1>1. PICK s \in sending:
        LET tags == {a.tag: a \in s.source}
            tag == IF tags = {} THEN ByHand ELSE The(tags)
        IN /\ tag \in {ByHand} \cup {b \in Imports: imports[b] = "listed"}
           /\ book' = WriteText(book, page.open, s.text, tag,
                        [by |-> IF s.by = tag THEN tag ELSE ByHand,
                         strayed |-> \E a \in s.source: a.strayed,
                         raced |-> \E r \in revert: r.import = tag])
           /\ sending' = {[s EXCEPT !.done = TRUE]}
  BY DEF CommitCount
<1> DEFINE d == page.open
           tags == {a.tag: a \in s.source}
           tag == IF tags = {} THEN ByHand ELSE The(tags)
           history == [by |-> IF s.by = tag THEN tag ELSE ByHand,
                       strayed |-> \E a \in s.source: a.strayed,
                       raced |-> \E r \in revert: r.import = tag]
           b2 == WriteText(book, d, s.text, tag, history)
<1>2. book' = b2 /\ sending' = {[s EXCEPT !.done = TRUE]}
      /\ tag \in {ByHand} \cup {b \in Imports: imports[b] = "listed"}
  BY <1>1
<1>3. UNCHANGED <<imports, page, drafts, revert, archived, budget>>
  BY DEF CommitCount
<1>4. d \in Dates /\ IsBook(book) /\ ByHand \notin Imports
  BY AuditAssumption DEF AuditInv, PageInv, IsPage, ServerInv, BookInv
<1>5. /\ s \in [text: Maybe, by: Sources, source: SUBSET Attributions, done: BOOLEAN]
      /\ \A a \in s.source: ~a.strayed => s.by = a.tag
  BY DEF AuditInv, PageInv, SendingTyped
<1>6. tag \in Imports => \E a \in s.source: a.tag = tag
  <2>1. tags # {} => The(tags) \in tags
    BY TheIsOne
  <2> QED BY <1>4, <2>1
<1>7. tag \in Sources
  BY <1>2 DEF Sources
<1>8. /\ history.by = (IF s.by = tag THEN tag ELSE ByHand)
      /\ history.strayed = (\E a \in s.source: a.strayed)
      /\ history.raced = (\E r \in revert: r.import = tag)
  OBVIOUS
<1>9. history \in Histories
  <2> HIDE DEF tag
  <2> QED BY <1>7 DEF Histories, Sources
<1> HIDE DEF history, tag
<1>10. history.by \in {tag, ByHand} /\ (tag \in Imports => history.by = tag \/ history.strayed)
  BY <1>5, <1>6, <1>8
<1>11. /\ IsBook(b2)
       /\ b2 = book \/ Rewrites(book, b2, d, tag) \/ Rewrites(book, b2, d, ByHand)
       /\ b2 # book => \A c \in b2.counts[d]: c.by = history.by /\ c.raced = history.raced
  BY <1>4, <1>5, <1>7, <1>9, <1>10, TextWrites
<1> HIDE DEF b2, d
<1>12. Writes
  <2>1. CASE b2 = book
    BY <1>2, <2>1 DEF Writes
  <2>2. CASE b2 # book
    <3>1. ASSUME NEW c \in b2.counts[d], c.by \in Imports, ~c.raced
          PROVE  imports[c.by] = "listed" /\ \A r \in revert: r.import # c.by
      <4>1. c.by = tag /\ c.by # ByHand
        BY <1>4, <1>10, <1>11, <2>2, <3>1
      <4> QED BY <1>2, <1>8, <1>11, <2>2, <3>1, <4>1
    <3>2. ByHand \in Sources
      BY DEF Sources
    <3> QED BY <1>2, <1>4, <1>7, <1>11, <2>2, <3>1, <3>2 DEF Writes
  <2> QED BY <2>1, <2>2
<1>13. ServerInv'
  BY <1>2, <1>3, <1>11, <1>12, WritesKeepServer DEF AuditInv
<1>14. SendingTyped'
  <2>1. [s EXCEPT !.done = TRUE]
          \in [text: {s.text}, by: {s.by}, source: {s.source}, done: BOOLEAN]
    BY <1>5
  <2> DEFINE s2 == [s EXCEPT !.done = TRUE]
  <2>2. /\ s2 \in [text: Maybe, by: Sources, source: SUBSET Attributions, done: BOOLEAN]
        /\ \A a \in s2.source: ~a.strayed => s2.by = a.tag
    <3> HIDE DEF s2
    <3>1. s2 \in [text: {s.text}, by: {s.by}, source: {s.source}, done: BOOLEAN]
      BY <2>1 DEF s2
    <3> QED BY <1>5, <3>1
  <2> HIDE DEF s2
  <2> QED BY <1>2, <2>2, SetOfOne DEF SendingTyped, s2
<1>15. PageInv'
  BY <1>3, <1>14 DEF AuditInv, PageInv, PairMatches, Current, SheetInv, IsSheet
<1> QED BY <1>13, <1>15 DEF AuditInv

LEMMA ArchiveKeepsInv ==
    ASSUME AuditInv, NEW age, Archive(age)
    PROVE  AuditInv'
<1> DEFINE old == {e \in book.log: e.id <= age /\ e.tag = ByHand}
<1>1. /\ book' = [book EXCEPT !.log = @ \ old]
      /\ archived' = archived \cup {e.date: e \in old}
      /\ revert = {} /\ UNCHANGED <<imports, page, drafts, sending, revert>>
  BY DEF Archive
<1>2. budget' \in [Kinds -> Nat]
  BY SpendTypes DEF Archive, Kinds, AuditInv
<1>3. PageInv'
  BY <1>1, <1>2, ServerStepsKeepPage DEF AuditInv, PageInv
<1>4. BookInv(book, archived) /\ IsBook(book) /\ ByHand \notin Imports
  BY AuditAssumption DEF AuditInv, ServerInv, BookInv
<1>5. \A e \in old: e \in book.log /\ e.tag = ByHand /\ e.date \in Dates
  BY <1>4, EntryTypes
<1> HIDE DEF old
<1>6. /\ book' \in [counts: {book.counts}, log: {book.log \ old}, records: {book.records},
                    logged: {book.logged}]
  BY <1>1, <1>4 DEF IsBook
<1>7. /\ book'.counts = book.counts /\ book'.log = book.log \ old
      /\ book'.records = book.records /\ book'.logged = book.logged
  BY <1>6
<1>8. IsBook(book')
  <2>1. /\ book.counts \in [Dates -> SUBSET Counts(book.records)]
        /\ book.log \in SUBSET Entries(book.records, book.logged)
        /\ book.records \in Nat /\ book.logged \in Nat
        /\ \A d \in Dates: AtMostOne(book.counts[d])
    BY <1>4 DEF IsBook
  <2>2. book.log \ old \in SUBSET Entries(book.records, book.logged)
    BY <2>1
  <2>3. book' \in [counts: [Dates -> SUBSET Counts(book.records)],
                   log: SUBSET Entries(book.records, book.logged), records: Nat, logged: Nat]
    BY <1>6, <2>1, <2>2
  <2> QED BY <1>7, <2>1, <2>3 DEF IsBook
<1>9. IdsAreUnique(book)' /\ RecordsKeepSheets(book)'
  BY <1>4, <1>7 DEF BookInv, IdsAreUnique, RecordsKeepSheets
\* Of a sheet whose later entries have left the log nothing is claimed.
<1>10. TagsTell(book, archived)'
  <2> SUFFICES ASSUME NEW x \in book'.log, IsLast(book', x), x.tag \in Imports,
                      x.date \notin archived'
               PROVE  \E c \in book'.counts[x.date]: c.rec = x.rec /\ (c.by = x.tag \/ c.strayed)
    BY DEF TagsTell, IsLast
  <2>1. x \in book.log /\ x.date \notin archived
    BY <1>1, <1>7
  <2>2. ASSUME NEW y \in book.log, y.rec = x.rec
        PROVE  y.id <= x.id
    <3>1. y.date = x.date
      BY <1>4, <2>1, <2>2 DEF BookInv, RecordsKeepSheets
    <3>2. y \notin old
      BY <1>1, <3>1
    <3> QED BY <1>7, <2>2, <3>2 DEF IsLast
  <2>3. IsLast(book, x)
    BY <2>2 DEF IsLast
  <2> QED BY <1>4, <1>7, <2>1, <2>3 DEF BookInv, TagsTell
<1>11. OriginsAreLogged(book)'
  <2> SUFFICES ASSUME NEW d \in Dates, NEW c \in book'.counts[d], c.by \in Imports, ~c.raced
               PROVE  \E x \in book'.log: IsLast(book', x) /\ x.rec = c.rec /\ x.tag = c.by
    BY DEF OriginsAreLogged, IsLast
  <2>1. PICK x \in book.log: IsLast(book, x) /\ x.rec = c.rec /\ x.tag = c.by
    BY <1>4, <1>7 DEF BookInv, OriginsAreLogged
  <2>2. x \in book'.log
    BY <1>4, <1>5, <1>7, <2>1
  <2> QED BY <1>7, <2>1, <2>2 DEF IsLast
<1>12. archived' \subseteq Dates
  BY <1>1, <1>5 DEF AuditInv, ServerInv
<1>13. RevertTyped' /\ RevertKnows'
  BY <1>1, SetOfOne DEF RevertTyped, RevertKnows
<1>14. RevertLeavesNothing'
  BY <1>1, <1>7 DEF AuditInv, ServerInv, RevertLeavesNothing
<1>15. BookInv(book, archived)'
  BY <1>8, <1>9, <1>10, <1>11 DEF BookInv, IsBook
<1> QED BY <1>3, <1>12, <1>13, <1>14, <1>15 DEF AuditInv, ServerInv

-----------------------------------------------------------------------------
(* Deleting an import *)

LEMMA BeginKeepsInv ==
    ASSUME AuditInv, NEW b \in Imports, BeginRevert(b)
    PROVE  AuditInv'
<1>1. /\ revert' = {[import |-> b, seen |-> book, own |-> {}, at |-> 0]}
      /\ UNCHANGED <<book, imports, page, drafts, sending, archived, budget>>
  BY DEF BeginRevert
<1>2. IsBook(book) /\ book.logged \in Nat
  BY BookTypes DEF AuditInv, ServerInv, BookInv
<1>3. RevertTyped'
  <2> DEFINE r == [import |-> b, seen |-> book, own |-> {}, at |-> 0]
  <2>1. r \in [import: Imports, seen: {r.seen}, own: SUBSET book.log, at: 0..book.logged]
        /\ r.seen = book
    BY <1>2
  <2>2. IsBook(r.seen)
    BY <1>2, <2>1
  <2> HIDE DEF r
  <2>3. revert' = {r} /\ book' = book
    BY <1>1 DEF r
  <2> QED BY <2>1, <2>2, <2>3, SetOfOne DEF RevertTyped
<1>4. RevertKnows'
  <2> SUFFICES ASSUME NEW d \in Dates, NEW c \in book.counts[d], c.by = b, ~c.raced
               PROVE  \E e \in book.log: IsLast(book, e) /\ e.rec = c.rec
                        /\ e.tag = c.by /\ e.id > 0
    BY <1>1 DEF RevertKnows, IsLast
  <2>1. PICK e \in book.log: IsLast(book, e) /\ e.rec = c.rec /\ e.tag = c.by
    BY DEF AuditInv, ServerInv, BookInv, OriginsAreLogged
  <2>2. e.id > 0
    BY <1>2, EntryTypes
  <2> QED BY <2>1, <2>2
<1>5. PageInv'
  BY <1>1 DEF AuditInv, PageInv, PairMatches, Current, SendingTyped, SheetInv, IsSheet
<1> QED BY <1>1, <1>3, <1>4, <1>5
        DEF AuditInv, ServerInv, BookInv, IsBook, IdsAreUnique, RecordsKeepSheets, TagsTell,
            IsLast, OriginsAreLogged, RevertLeavesNothing

\* A count that stands as its import left it: the transaction will come to it.
LEMMA StandingIsTaken ==
    ASSUME ServerInv, NEW r \in revert, NEW d \in Dates, NEW c \in book.counts[d],
           c.by = r.import, ~c.raced
    PROVE  \E e \in r.seen.log: /\ Takes(r, e) /\ e.date = d
                                /\ IsLast(book, e) /\ e.rec = c.rec /\ e.tag = c.by
<1>1. PICK e \in r.seen.log: IsLast(book, e) /\ e.rec = c.rec /\ e.tag = c.by /\ e.id > r.at
  BY DEF ServerInv, RevertKnows
<1>2. r.seen.log \subseteq book.log /\ c \in r.seen.counts[d] /\ r.own \subseteq book.log
  BY DEF ServerInv, RevertKnows, RevertTyped
<1>3. e.date = d
  BY <1>1, <1>2 DEF ServerInv, BookInv, RecordsKeepSheets
<1>4. IsLatest(r, e)
  BY <1>1, <1>2 DEF IsLatest, IsLast
<1>5. SeesCount(r, e.date)
  BY <1>2, <1>3 DEF SeesCount
<1> QED BY <1>1, <1>3, <1>4, <1>5 DEF Takes

\* What the transaction takes back is the last entry of its record, unless
\* somebody wrote to the sheet since it began.
LEMMA TakenIsLast ==
    ASSUME ServerInv, NEW r \in revert, NEW e \in r.seen.log, Takes(r, e),
           \A x \in book.log \ (r.seen.log \cup r.own): x.date # e.date
    PROVE  IsLast(book, e)
<1> SUFFICES ASSUME NEW x \in book.log, x.rec = e.rec
             PROVE  x.id <= e.id
  BY DEF IsLast
<1>1. e \in book.log
  BY DEF ServerInv, RevertKnows
<1>2. x.date = e.date
  BY <1>1 DEF ServerInv, BookInv, RecordsKeepSheets
<1>3. x \in r.seen.log \cup r.own
  BY <1>2
<1> QED BY <1>3 DEF Takes, IsLatest

LEMMA TakeBackWrites ==
    ASSUME AuditInv, NEW r \in revert, NEW e \in r.seen.log, book' = TakeBack(book, e)
    PROVE  /\ e.date \in Dates /\ e.id \in Nat /\ e \in book.log /\ e.id <= book.logged
           /\ IsBook(book')
           /\ \/ book' = book
              \/ /\ Rewrites(book, book', e.date, ByHand)
                 /\ \A c \in book'.counts[e.date]: c.by = ByHand
           /\ \A d \in Dates: d # e.date => book'.counts[d] = book.counts[d]
<1>1. IsBook(r.seen) /\ IsBook(book) /\ e \in book.log
  BY DEF AuditInv, ServerInv, BookInv, RevertTyped, RevertKnows
<1>2. e.date \in Dates /\ e.prior \in Maybe /\ e.id \in Nat /\ e.id <= book.logged
  BY <1>1, EntryTypes
<1> DEFINE b2 == WriteText(book, e.date, e.prior, ByHand, Plain)
<1>3. /\ IsBook(b2)
      /\ b2 = book \/ ( /\ Rewrites(book, b2, e.date, ByHand)
                        /\ \A c \in b2.counts[e.date]: c.by = ByHand)
  BY <1>1, <1>2, ByHandWrites
<1>4. book' = b2
  BY DEF TakeBack
<1> HIDE DEF b2
<1>5. \A d \in Dates: d # e.date => b2.counts[d] = book.counts[d]
  BY <1>3 DEF Rewrites
<1> QED BY <1>1, <1>2, <1>3, <1>4, <1>5

\* Where something is counted, taking back is logged.
LEMMA TakeBackMoves ==
    ASSUME NEW b, IsBook(b), NEW e, e.date \in Dates, e.prior \in Maybe,
           b.counts[e.date] # {}
    PROVE  TakeBack(b, e) # b
<1> DEFINE d == e.date
<1>1. ByHand \in Sources /\ ByHand \notin Imports
  BY AuditAssumption DEF Sources
<1>2. ASSUME NEW b2, Rewrites(b, b2, d, ByHand)
      PROVE  b2 # b
  BY <1>2, BookTypes DEF Rewrites
<1>3. CASE e.prior # {}
  <2>1. The(e.prior) \in Figures
    BY <1>3, TheIsOne DEF Maybe
  <2>2. TakeBack(b, e) = SaveCount(b, d, The(e.prior), ByHand, Plain)
    BY <1>3 DEF TakeBack, WriteText
  <2>3. Rewrites(b, SaveCount(b, d, The(e.prior), ByHand, Plain), d, ByHand)
    BY <1>1, <2>1, PlainTypes, SaveCountWrites
  <2> QED BY <1>2, <2>2, <2>3
<1>4. CASE e.prior = {}
  <2>1. TakeBack(b, e) = DeleteCount(b, d)
    BY <1>4 DEF TakeBack, WriteText
  <2> QED BY <1>2, <2>1, DeleteWrites
<1> QED BY <1>3, <1>4

LEMMA WriteBackKeepsInv ==
    ASSUME AuditInv, WriteBack
    PROVE  AuditInv'
<1>0. PICK r \in revert: \E e \in r.seen.log:
        /\ Takes(r, e) /\ \A x \in r.seen.log: Takes(r, x) => e.id <= x.id
        /\ book' = TakeBack(book, e)
        /\ revert' = {[r EXCEPT !.at = e.id, !.own = @ \cup (book'.log \ book.log)]}
        /\ UNCHANGED <<imports, page, drafts, sending, archived, budget>>
  BY DEF WriteBack
<1>1. PICK e \in r.seen.log:
        /\ Takes(r, e) /\ \A x \in r.seen.log: Takes(r, x) => e.id <= x.id
        /\ book' = TakeBack(book, e)
        /\ revert' = {[r EXCEPT !.at = e.id, !.own = @ \cup (book'.log \ book.log)]}
        /\ UNCHANGED <<imports, page, drafts, sending, archived, budget>>
  BY <1>0
<1>2. /\ e.date \in Dates /\ e.id \in Nat /\ e \in book.log /\ e.id <= book.logged
      /\ IsBook(book')
      /\ \/ book' = book
         \/ /\ Rewrites(book, book', e.date, ByHand)
            /\ \A c \in book'.counts[e.date]: c.by = ByHand
      /\ \A d \in Dates: d # e.date => book'.counts[d] = book.counts[d]
  BY <1>1, TakeBackWrites
<1>3. ByHand \in Sources /\ ByHand \notin Imports /\ revert = {r}
  BY AuditAssumption, OneIsThe DEF Sources, AuditInv, ServerInv, RevertTyped
<1>4. BookInv(book, archived) /\ BookInv(book', archived) /\ IsBook(book)
  BY <1>2, <1>3, RewritesKeepBook DEF AuditInv, ServerInv, BookInv
<1>5. BookInv(book, archived)'
  BY <1>1, <1>4 DEF BookInv, IsBook, IdsAreUnique, RecordsKeepSheets, TagsTell, IsLast,
                    OriginsAreLogged
<1>6. /\ book.log \subseteq book'.log /\ book.logged \in Nat /\ book'.logged \in Nat
      /\ book.logged <= book'.logged
  BY <1>2, <1>4, BookTypes DEF Rewrites
<1> DEFINE r2 == [r EXCEPT !.at = e.id, !.own = @ \cup (book'.log \ book.log)]
<1>7. r \in [import: Imports, seen: {r.seen}, own: SUBSET book.log, at: 0..book.logged]
      /\ IsBook(r.seen)
  BY DEF AuditInv, ServerInv, RevertTyped
<1>8. r2 \in [import: {r.import}, seen: {r.seen}, own: {r.own \cup (book'.log \ book.log)},
              at: {e.id}]
  BY <1>7
<1> HIDE DEF r2
<1>9. /\ r2.import = r.import /\ r2.seen = r.seen /\ r2.at = e.id
      /\ r2.own = r.own \cup (book'.log \ book.log) /\ revert' = {r2}
  BY <1>1, <1>8 DEF r2
<1>10. RevertTyped'
  <2>1. r.own \cup (book'.log \ book.log) \in SUBSET book'.log
    BY <1>6, <1>7
  <2>2. e.id \in 0..book'.logged
    BY <1>2, <1>6
  <2>3. r2 \in [import: Imports, seen: {r2.seen}, own: SUBSET book'.log, at: 0..book'.logged]
    BY <1>7, <1>8, <2>1, <2>2
  <2> QED BY <1>7, <1>9, <2>3, SetOfOne DEF RevertTyped
<1>11. RevertKnows'
  <2> SUFFICES ASSUME NEW d \in Dates, NEW c \in book'.counts[d], c.by = r.import, ~c.raced
               PROVE  /\ c \in r.seen.counts[d]
                      /\ \E x \in r.seen.log: IsLast(book', x) /\ x.rec = c.rec
                           /\ x.tag = c.by /\ x.id > e.id
    <3>1. r.seen.log \subseteq book'.log
      BY <1>6 DEF AuditInv, ServerInv, RevertKnows
    <3> QED BY <1>9, <3>1 DEF RevertKnows, IsLast
  <2>2. d # e.date \/ book' = book
    BY <1>2, <1>3, <1>7
  <2>3. c \in book.counts[d]
    BY <1>2, <2>2
  <2>4. PICK x \in r.seen.log: /\ Takes(r, x) /\ x.date = d
                               /\ IsLast(book, x) /\ x.rec = c.rec /\ x.tag = c.by
    BY <2>3, StandingIsTaken DEF AuditInv
  <2>5. c \in r.seen.counts[d] /\ x \in book.log
    BY <2>3 DEF AuditInv, ServerInv, RevertKnows
  \* A step that writes nothing finds no count on its sheet.
  <2>6. d # e.date
    <3> SUFFICES ASSUME d = e.date
                 PROVE  FALSE
      OBVIOUS
    <3>1. book' = book
      BY <2>2
    <3>2. book.counts[e.date] # {}
      BY <2>3
    <3>3. TakeBack(book, e) # book
      BY <1>4, <1>2, <1>7, <3>2, TakeBackMoves, EntryTypes
    <3> QED BY <1>1, <3>1, <3>3
  <2>7. x.id > e.id
    <3>1. x.id # e.id
      BY <1>2, <1>4, <2>4, <2>5, <2>6 DEF BookInv, IdsAreUnique
    <3>2. x.id \in Nat /\ e.id <= x.id
      BY <1>1, <1>4, <2>4, <2>5, EntryTypes
    <3> QED BY <1>2, <3>1, <3>2
  <2>8. IsLast(book', x)
    BY <1>2, <1>3, <1>4, <2>4, <2>5, <2>6, RewritesLeaveOthers
  <2> QED BY <2>4, <2>5, <2>7, <2>8
<1>12. RevertLeavesNothing'
  <2> SUFFICES ASSUME NEW d \in Dates, NEW b \in Imports, NEW c \in book'.counts[d],
                      c.by = b, ~c.raced
               PROVE  imports[b] = "listed"
    BY <1>1 DEF RevertLeavesNothing
  <2>1. c \in book.counts[d]
    BY <1>2, <1>3
  <2> QED BY <2>1 DEF AuditInv, ServerInv, RevertLeavesNothing
<1>13. PageInv'
  BY <1>1, ServerStepsKeepPage DEF AuditInv, PageInv
<1> QED BY <1>1, <1>5, <1>10, <1>11, <1>12, <1>13 DEF AuditInv, ServerInv

LEMMA FinishKeepsInv ==
    ASSUME AuditInv, FinishRevert
    PROVE  AuditInv'
<1>1. PICK r \in revert:
        /\ \A e \in r.seen.log: ~Takes(r, e)
        /\ book' = [book EXCEPT !.log = Untagged(@, r.import)]
        /\ imports' = [imports EXCEPT ![r.import] = "deleted"]
        /\ revert' = {} /\ UNCHANGED <<page, drafts, sending, archived, budget>>
  BY DEF FinishRevert
<1> DEFINE log == Untagged(book.log, r.import)
           Plainly(e) == IF e.tag = r.import THEN [e EXCEPT !.tag = ByHand] ELSE e
<1>2. BookInv(book, archived) /\ IsBook(book) /\ ByHand \notin Imports /\ r.import \in Imports
  BY AuditAssumption DEF AuditInv, ServerInv, BookInv, RevertTyped
<1>3. \A e \in book.log:
        /\ Plainly(e) \in Entries(book.records, book.logged)
        /\ Plainly(e).id = e.id /\ Plainly(e).rec = e.rec /\ Plainly(e).date = e.date
        /\ Plainly(e).tag \in Imports => Plainly(e) = e
        /\ e.tag # r.import => Plainly(e) = e
  <2> TAKE e \in book.log
  <2>1. e \in Entries(book.records, book.logged)
    BY <1>2, BookTypes
  <2>2. CASE e.tag = r.import
    <3>1. Plainly(e) = [e EXCEPT !.tag = ByHand]
      BY <2>2
    <3>2. Plainly(e) \in [id: {e.id}, rec: {e.rec}, date: {e.date}, tag: {ByHand},
                          prior: {e.prior}]
      BY <2>1, <3>1 DEF Entries
    <3> HIDE DEF Plainly
    <3> QED BY <1>2, <2>1, <2>2, <3>2 DEF Entries, Sources
  <2>3. CASE e.tag # r.import
    BY <2>1, <2>3
  <2> QED BY <2>2, <2>3
<1>4. log = {Plainly(e): e \in book.log}
  BY DEF Untagged
<1>5. book' \in [counts: {book.counts}, log: {log}, records: {book.records},
                 logged: {book.logged}]
  BY <1>1, <1>2 DEF IsBook
<1> HIDE DEF log, Plainly
<1>6. /\ book'.counts = book.counts /\ book'.log = log
      /\ book'.records = book.records /\ book'.logged = book.logged
  BY <1>5
<1>7. IsBook(book')
  <2>1. /\ book.counts \in [Dates -> SUBSET Counts(book.records)]
        /\ book.records \in Nat /\ book.logged \in Nat
        /\ \A d \in Dates: AtMostOne(book.counts[d])
    BY <1>2 DEF IsBook
  <2>2. log \in SUBSET Entries(book.records, book.logged)
    BY <1>3, <1>4
  <2>3. book' \in [counts: [Dates -> SUBSET Counts(book.records)],
                   log: SUBSET Entries(book.records, book.logged), records: Nat, logged: Nat]
    BY <1>5, <2>1, <2>2
  <2> QED BY <1>6, <2>1, <2>3 DEF IsBook
<1>8. IdsAreUnique(book') /\ RecordsKeepSheets(book')
  <2>1. IdsAreUnique(book) /\ RecordsKeepSheets(book)
    BY <1>2 DEF BookInv
  <2>2. IdsAreUnique(book')
    BY <1>3, <1>4, <1>6, <2>1 DEF IdsAreUnique
  <2>3. RecordsKeepSheets(book')
    BY <1>3, <1>4, <1>6, <2>1 DEF RecordsKeepSheets
  <2> QED BY <2>2, <2>3
<1>9. \A e \in book.log: IsLast(book, e) <=> IsLast(book', Plainly(e))
  BY <1>3, <1>4, <1>6 DEF IsLast
<1>10. TagsTell(book', archived)
  BY <1>2, <1>3, <1>4, <1>6, <1>9 DEF BookInv, TagsTell
\* No count of the import is left: the loop would not have ended.
<1>11. \A d \in Dates: \A c \in book.counts[d]: c.by = r.import => c.raced
  BY <1>1, StandingIsTaken DEF AuditInv
<1>12. OriginsAreLogged(book')
  <2> SUFFICES ASSUME NEW d \in Dates, NEW c \in book.counts[d], c.by \in Imports, ~c.raced
               PROVE  \E x \in book'.log: IsLast(book', x) /\ x.rec = c.rec /\ x.tag = c.by
    BY <1>6 DEF OriginsAreLogged
  <2>1. PICK x \in book.log: IsLast(book, x) /\ x.rec = c.rec /\ x.tag = c.by
    BY <1>2 DEF BookInv, OriginsAreLogged
  <2>2. Plainly(x) = x
    BY <1>3, <1>11, <2>1
  <2> QED BY <1>4, <1>6, <1>9, <2>1, <2>2
<1>13. BookInv(book, archived)'
  BY <1>1, <1>7, <1>8, <1>10, <1>12
     DEF BookInv, IsBook, IdsAreUnique, RecordsKeepSheets, TagsTell, IsLast, OriginsAreLogged
<1>14. RevertLeavesNothing'
  BY <1>1, <1>6, <1>11 DEF AuditInv, ServerInv, PageInv, RevertLeavesNothing
<1>15. RevertTyped' /\ RevertKnows'
  BY <1>1, SetOfOne DEF RevertTyped, RevertKnows
<1>16. PageInv'
  <2>1. imports' \in [Imports -> {"unused", "listed", "deleted"}]
    BY <1>1 DEF AuditInv, PageInv
  <2> QED BY <1>1, <2>1, ServerStepsKeepPage DEF AuditInv, PageInv
<1> QED BY <1>1, <1>13, <1>14, <1>15, <1>16 DEF AuditInv, ServerInv

LEMMA FailKeepsInv ==
    ASSUME AuditInv, FailRevert
    PROVE  AuditInv'
<1>1. revert' = {} /\ UNCHANGED <<book, imports, page, drafts, sending, archived, budget>>
  BY DEF FailRevert
<1>2. RevertTyped' /\ RevertKnows'
  BY <1>1, SetOfOne DEF RevertTyped, RevertKnows
<1>3. PageInv'
  BY <1>1, ServerStepsKeepPage DEF AuditInv, PageInv
<1> QED BY <1>1, <1>2, <1>3
        DEF AuditInv, ServerInv, BookInv, IsBook, IdsAreUnique, RecordsKeepSheets, TagsTell,
            IsLast, OriginsAreLogged, RevertLeavesNothing

-----------------------------------------------------------------------------
(* The theorems *)

LEMMA InitAudit == AuditInit => AuditInv
<1> SUFFICES ASSUME AuditInit PROVE AuditInv
  OBVIOUS
<1>1. book = NoCounts /\ revert = {} /\ archived = {} /\ sending = {}
  BY DEF AuditInit
<1>2. IsBook(book)
  <2>1. /\ book.counts \in [Dates -> SUBSET Counts(0)] /\ \A d \in Dates: book.counts[d] = {}
        /\ book.log = {} /\ book.records = 0 /\ book.logged = 0
        /\ book = [counts |-> book.counts, log |-> book.log, records |-> 0, logged |-> 0]
    BY <1>1 DEF NoCounts
  <2>2. {} \in SUBSET Entries(0, 0)
    OBVIOUS
  <2>3. book \in [counts: [Dates -> SUBSET Counts(book.records)],
                  log: SUBSET Entries(book.records, book.logged), records: Nat, logged: Nat]
    <3>1. book \in [counts: {book.counts}, log: {{}}, records: {0}, logged: {0}]
      BY <2>1
    <3> QED BY <2>1, <2>2, <3>1
  <2> QED BY <2>1, <2>3, SetOfOne DEF IsBook
<1>3. book.log = {} /\ \A d \in Dates: book.counts[d] = {}
  BY <1>1 DEF NoCounts
<1>4. ServerInv
  BY <1>1, <1>2, <1>3, SetOfOne
     DEF ServerInv, BookInv, IdsAreUnique, RecordsKeepSheets, TagsTell, OriginsAreLogged,
         RevertTyped, RevertKnows, RevertLeavesNothing
<1>5. PICK d \in Dates: page = [open |-> d, shown |-> {}, source |-> {}, undoable |-> {}]
  BY DEF AuditInit
<1>6. IsPage(page) /\ page.source = {}
  BY <1>5, SetOfOne, NoneAndOne DEF IsPage
<1>7. DOMAIN drafts = Dates /\ \A x \in Dates: SheetInv(drafts[x])
  <2>1. \A x \in Dates: drafts[x] = Settled({})
    BY DEF AuditInit, Settled
  <2> QED BY <2>1, SetOfOne, SettledSheet DEF AuditInit
<1>8. PairMatches(Current) /\ SendingTyped
  BY <1>1, <1>6, SetOfOne DEF PairMatches, Current, SendingTyped
<1>9. imports \in [Imports -> {"unused", "listed", "deleted"}] /\ budget \in [Kinds -> Nat]
  BY AuditAssumption DEF AuditInit
<1> QED BY <1>4, <1>6, <1>7, <1>8, <1>9 DEF AuditInv, PageInv

LEMMA PageStepsKeepInv ==
    ASSUME AuditInv,
           \/ \E text \in Maybe: TypeCount(text)
           \/ DiscardCounts \/ UndoCount \/ RedoCount
           \/ \E figure \in Figures: ImportCount(figure)
           \/ UndoImport
           \/ \E d \in Dates: SwitchSheet(d)
           \/ ReloadPage \/ RefreshCount
           \/ ClickSaveCount \/ AnswerCount \/ FailCount
    PROVE  AuditInv'
<1>1. PageInv /\ IsBook(book)
  BY DEF AuditInv, ServerInv, BookInv
<1>2. UNCHANGED <<book, revert, archived>>
  BY DEF TypeCount, DiscardCounts, UndoCount, RedoCount, ImportCount, UndoImport, SwitchSheet,
         ReloadPage, RefreshCount, ClickSaveCount, AnswerCount, FailCount, server
<1>3. PageInv' /\ \A b \in Imports: imports[b] = "listed" => imports'[b] = "listed"
  <2>1. ASSUME NEW figure \in Figures, ImportCount(figure)
        PROVE  PageInv' /\ \A b \in Imports: imports[b] = "listed" => imports'[b] = "listed"
    BY <1>1, <2>1, ImportingKeepsPage
  <2>2. CASE \/ \E text \in Maybe: TypeCount(text)
             \/ DiscardCounts
    BY <1>1, <2>2, TypingKeepsPage DEF TypeCount, DiscardCounts, server
  <2>3. CASE UndoCount \/ RedoCount
    BY <1>1, <2>3, UndoKeepsPage DEF UndoCount, RedoCount, server
  <2>4. CASE UndoImport
    BY <1>1, <2>4, UndoImportKeepsPage DEF UndoImport, server
  <2>5. CASE (\E d \in Dates: SwitchSheet(d)) \/ ReloadPage \/ RefreshCount
    BY <1>1, <2>5, ViewKeepsPage DEF SwitchSheet, ReloadPage, RefreshCount, server
  <2>6. CASE ClickSaveCount \/ AnswerCount \/ FailCount
    BY <1>1, <2>6, SavingKeepsPage DEF ClickSaveCount, AnswerCount, FailCount, server
  <2> QED BY <2>1, <2>2, <2>3, <2>4, <2>5, <2>6
<1> QED BY <1>2, <1>3, PageStepsKeepServer DEF AuditInv

LEMMA NextKeepsAudit == AuditInv /\ [AuditNext]_auditVars => AuditInv'
<1> SUFFICES ASSUME AuditInv, [AuditNext]_auditVars PROVE AuditInv'
  OBVIOUS
<1>1. CASE UNCHANGED auditVars
  <2>1. PageInv'
    BY <1>1, ServerStepsKeepPage DEF auditVars, AuditInv, PageInv
  <2>2. ServerInv'
    BY <1>1, PageStepsKeepServer DEF auditVars, AuditInv
  <2> QED BY <2>1, <2>2 DEF AuditInv
<1>2. CASE WriteBack
  BY <1>2, WriteBackKeepsInv
<1>3. CASE FinishRevert
  BY <1>3, FinishKeepsInv
<1>4. CASE \/ \E text \in Maybe: TypeCount(text)
           \/ DiscardCounts \/ UndoCount \/ RedoCount
           \/ \E figure \in Figures: ImportCount(figure)
           \/ UndoImport
           \/ \E d \in Dates: SwitchSheet(d)
           \/ ReloadPage \/ RefreshCount
           \/ ClickSaveCount \/ AnswerCount \/ FailCount
  BY <1>4, PageStepsKeepInv
<1>5. CASE CommitCount
  BY <1>5, CommitKeepsInv
<1>6. CASE \/ \E d \in Dates, text \in Maybe: CountElsewhere(d, text)
           \/ \E d \in Dates: Publish(d) \/ Unpublish(d) \/ Remark(d)
  BY <1>6, OthersKeepInv
<1>7. CASE \E e \in book.log: Archive(e.id)
  BY <1>7, ArchiveKeepsInv
<1>8. CASE \E b \in Imports: BeginRevert(b)
  BY <1>8, BeginKeepsInv
<1>9. CASE FailRevert
  BY <1>9, FailKeepsInv
<1> QED BY <1>1, <1>2, <1>3, <1>4, <1>5, <1>6, <1>7, <1>8, <1>9 DEF AuditNext

LEMMA AuditInvariant == AuditSpec => []AuditInv
<1> QED BY InitAudit, NextKeepsAudit, PTL DEF AuditSpec

\* Type correctness: what the audit page stages, its undo steps, the counts and
\* their change log, and a revert under way.
THEOREM AuditTypeCorrect == AuditSpec => []AuditTypeOK
<1>1. AuditInv => AuditTypeOK
  BY DEF AuditInv, PageInv, ServerInv, BookInv, SheetInv, SendingTyped, RevertTyped, AuditTypeOK
<1> QED BY <1>1, AuditInvariant, PTL

\* revertImportBatch leaves no count that stands as the import left it, but for
\* one saved while the import was being deleted.
THEOREM RevertTakesAll == AuditSpec => []RevertLeavesNothing
<1>1. AuditInv => RevertLeavesNothing
  BY DEF AuditInv, ServerInv
<1> QED BY <1>1, AuditInvariant, PTL

\* revertImportBatch moves no count that somebody touched since the import, as
\* long as the change log still tells.
THEOREM RevertTakesNoOther == AuditSpec => RevertTakesImportOnly
<1>1. ASSUME AuditInv, NEW b \in Imports, NEW d \in Dates, TakesBack(b), Moved(d),
             d \notin archived
      PROVE  ImportsOwn(b, d)
  <2>0. PICK r \in revert: \E e \in r.seen.log: Takes(r, e) /\ book' = TakeBack(book, e)
    BY <1>1 DEF TakesBack, WriteBack
  <2>1. PICK e \in r.seen.log: Takes(r, e) /\ book' = TakeBack(book, e)
    BY <2>0
  <2>2. revert = {r} /\ r.import = b
    BY <1>1, OneIsThe DEF TakesBack, AuditInv, ServerInv, RevertTyped
  <2>3. d = e.date /\ e \in book.log
    BY <1>1, <2>1, TakeBackWrites DEF Moved
  <2> SUFFICES ASSUME \A x \in book.log \ (r.seen.log \cup r.own): x.date # d
               PROVE  \E c \in book.counts[d]: c.by = b \/ c.strayed
    BY DEF ImportsOwn
  <2>4. IsLast(book, e) /\ e.tag = b
    BY <1>1, <2>1, <2>2, <2>3, TakenIsLast DEF AuditInv, Takes, IsLatest
  <2> QED BY <1>1, <2>3, <2>4 DEF AuditInv, ServerInv, BookInv, TagsTell
<1>2. AuditInv => [\A b \in Imports, d \in Dates:
                     TakesBack(b) /\ Moved(d) => ImportsOwn(b, d) \/ d \in archived]_auditVars
  BY <1>1
<1> QED BY <1>2, AuditInvariant, PTL DEF RevertTakesImportOnly

\* What is proved of one kind of page holds where both are used.
THEOREM PagesKeepTheirSpecs == ClientSpec => Spec /\ AuditSpec
<1>1. ClientInit => Init /\ AuditInit
  BY DEF ClientInit
<1>2. [ClientNext]_<<vars, auditVars>> => [Next]_vars /\ [AuditNext]_auditVars
  BY DEF ClientNext
<1> QED BY <1>1, <1>2, PTL DEF ClientSpec, Spec, AuditSpec

===============================================================================
