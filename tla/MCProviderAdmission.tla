------------------------- MODULE MCProviderAdmission -------------------------
(***************************************************************************)
(* Small instances of ProviderAdmission: two worker processes.             *)
(***************************************************************************)
EXTENDS ProviderAdmission, TLC

CONSTANTS c1, c2, c3, pA, pB

TwoAndOne == c1 :> pA @@ c2 :> pA @@ c3 :> pB

=============================================================================
