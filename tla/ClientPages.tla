------------------------------ MODULE ClientPages ------------------------------
(***************************************************************************)
(* The pages of the client that keep unsaved work: the entry pages and the *)
(* audit page.  They share nothing but the server, and no figure of it, so *)
(* a behaviour shows one kind of page: where no tab opens an entry page,   *)
(* the audit page is used.                                                 *)
(***************************************************************************)
EXTENDS EntryTabs, AuditSheets

OnAuditPage == scope.tabs = {}

ClientInit ==
    /\ Init
    /\ AuditInit
    /\ OnAuditPage <=> \E kind \in Kinds: budget[kind] > 0

ClientNext ==
    \/ Next /\ UNCHANGED auditVars
    \/ OnAuditPage /\ AuditNext /\ UNCHANGED vars

ClientSpec == ClientInit /\ [][ClientNext]_<<vars, auditVars>>
=============================================================================
