---- MODULE MCFindings ----
(* Findings on one high finding with a recorded fix and one low one without,  *)
(* of an audit rule or not.                                                   *)
EXTENDS Findings, TLC

CONSTANTS critical, minor, s1, s2

MCSite == {critical, minor}
MCHigh == {critical}
MCLow == {minor}
Symmetry == Permutations({s1, s2})

====
