------------------------------ MODULE MCSetup ------------------------------
(***************************************************************************)
(* Small instances of Setup: a wizard and a sign-up page, each in its own  *)
(* browser.                                                                *)
(***************************************************************************)
EXTENDS Setup, TLC

CONSTANTS wizard, signup, desktop, phone

MCBrowserOf == wizard :> desktop @@ signup :> phone
MCSymmetry == Permutations(Orgs) \cup Permutations(Users)
=============================================================================
