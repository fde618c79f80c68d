---------------------------- MODULE MCReviewRun -----------------------------
(***************************************************************************)
(* Small instances of ReviewRun: two slots in one worker process and one   *)
(* in another.                                                             *)
(***************************************************************************)
EXTENDS ReviewRun, TLC

CONSTANTS s1, s2, s3, wA, wB

TwoAndOne == s1 :> wA @@ s2 :> wA @@ s3 :> wB
OneAndOne == s1 :> wA @@ s3 :> wB

RunSymmetry == Permutations(Run)

=============================================================================
