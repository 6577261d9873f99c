------------------------------ MODULE Custody ------------------------------
(***************************************************************************)
(* What a mailbox promises its owner whatever moves messages in it: every  *)
(* message is kept in some folder.  A message may for a while be kept in   *)
(* two folders, and it leaves a folder only for another one.               *)
(***************************************************************************)
CONSTANTS Messages, Folders

VARIABLE kept  \* the folders that keep each message

Init == kept \in [Messages -> (SUBSET Folders) \ {{}}]

Arrive(m, f) ==
  /\ f \notin kept[m]
  /\ kept' = [kept EXCEPT ![m] = @ \cup {f}]

Leave(m, f) ==
  /\ f \in kept[m]
  /\ kept[m] # {f}
  /\ kept' = [kept EXCEPT ![m] = @ \ {f}]

Next == \E m \in Messages, f \in Folders : Arrive(m, f) \/ Leave(m, f)

Spec == Init /\ [][Next]_kept
=============================================================================
