---------------------------- MODULE MCWorkload ----------------------------
(***************************************************************************)
(* A small instance of Workload: two accounts, live and background         *)
(* requests for two model roles.                                           *)
(***************************************************************************)
EXTENDS Workload, TLC

CONSTANTS r1, r2, r3

\* A live request and two of the background: one of the same account for another
\* model role, one of another account for the same.
MCAccountOf == (r1 :> "a") @@ (r2 :> "b") @@ (r3 :> "a")
MCRoleOf == (r1 :> "fast") @@ (r2 :> "fast") @@ (r3 :> "deep")
MCPriorityOf == (r1 :> 1) @@ (r2 :> 4) @@ (r3 :> 5)

OnePerRole == [role \in Roles |-> 1]

\* One request a minute for one role, a pause after each for the other.
MCPerMinute == ("fast" :> 1) @@ ("deep" :> 0)
MCMinDelay == ("fast" :> 0) @@ ("deep" :> 1)
=============================================================================
