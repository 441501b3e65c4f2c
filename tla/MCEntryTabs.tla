------------------------------ MODULE MCEntryTabs ------------------------------
(***************************************************************************)
(* Finite instances of ClientPages.                                        *)
(***************************************************************************)
EXTENDS ClientPages

CONSTANTS f0, f1, f2, u1

\* What the server starts with (the 0 of the audit page), and two figures to type.
SomeFigures == {f0, f1, f2}

\* A tab and its backup between two people, with two edits or with two faults; two
\* tabs of one person, with three edits (typed, undone, redone) or with one and a
\* fault; a tab each for two people.  `signIns` leaves one for a return to a session that ended.  The last is
\* the audit page's.
SomeScopes ==
    [tabs: {{t}: t \in Tabs}, users: {Users}, edits: {2}, faults: {1}, signIns: {3}]
    \cup [tabs: {{t}: t \in Tabs}, users: {Users}, edits: {1}, faults: {2}, signIns: {3}]
    \cup [tabs: {Tabs}, users: {{u1}}, edits: {3}, faults: {0}, signIns: {2}]
    \cup [tabs: {Tabs}, users: {{u1}}, edits: {1}, faults: {1}, signIns: {4}]
    \cup [tabs: {Tabs}, users: {Users}, edits: {1}, faults: {0}, signIns: {4}]
    \cup [tabs: {{}}, users: {{}}, edits: {0}, faults: {0}, signIns: {0}]

Budget(typed, others, turned, archivings) ==
    [typed |-> typed, others |-> others, turned |-> turned, archived |-> archivings]

\* Three edits of the audit page; two over two switches of sheets or reloads; two
\* with another person's write, one with such a write and the change log archived,
\* one with two writes.  None where the entry pages are.
SomeLimits ==
    {Budget(0, 0, 0, 0), Budget(3, 0, 0, 0), Budget(2, 0, 2, 0), Budget(2, 1, 0, 0),
     Budget(1, 1, 0, 1), Budget(1, 2, 1, 0)}

\* Only the first figure is named by the specification.
Symmetry ==
    Permutations(Tabs) \cup Permutations({f1, f2}) \cup Permutations(Dates)
=============================================================================
