-------------------------- MODULE MCMailWorkspace --------------------------
(***************************************************************************)
(* The instance of MailWorkspace for TLC: two messages of one account.     *)
(***************************************************************************)
EXTENDS MailWorkspace, TLC

MCInbox == [x \in Accounts |-> "INBOX"]
MCArrived == [m \in 1..2 |-> "INBOX"]

OneOwner == <<"a", "a">>
OneHas == "a" :> {"INBOX", "Archive"}
OneArchive == "a" :> "Archive"
=============================================================================
