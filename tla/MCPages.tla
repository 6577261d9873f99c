------------------------------ MODULE MCPages ------------------------------
EXTENDS Pages, TLC

MCDomainOf == [p \in Proposals |-> IF p = "p1" THEN "d1" ELSE "d2"]

\* German labels: work is shown as Arbeit, invoice as Rechnung.
MCPlaceLabel == [p \in Places |-> "Arbeit"]
MCPlaceOfLabel == [p \in Places |-> IF p = "Arbeit" THEN "work" ELSE p]
MCTopicLabel == [t \in Topics |-> "Rechnung"]

MCBoxOf == [m \in Matches |-> "b1"]

MCLower == [n \in Names |-> "arbeit"]
MCLabel == [id \in FolderIds |-> "Arbeit"]
MCFits == [id \in FolderIds |-> {"Arbeit"}]
MCNear == [id \in FolderIds |-> {"arbeit"}]
MailboxesAlike == Permutations(Managed)
=============================================================================
