---------------------------- MODULE MCLiveCycle ----------------------------
(***************************************************************************)
(* Small instances of LiveCycle: a second account has the last message.    *)
(***************************************************************************)
EXTENDS LiveCycle

TwoOwners == [m \in Mail |-> IF m = NumMail THEN "b" ELSE "a"]
OneOwner == [m \in Mail |-> "a"]
=============================================================================
