---- MODULE MCReviewPasses ----
(* ReviewPasses on lineups of at most four calls.                           *)
EXTENDS ReviewPasses

A(mode, bucket) ==
  [kind |-> "pass", tag |-> "lens", mode |-> mode, bestEffort |-> FALSE, bucket |-> bucket]
Extra(tag, mode, bucket) ==
  [kind |-> "pass", tag |-> tag, mode |-> mode, bestEffort |-> TRUE, bucket |-> bucket]
Sweep(bucket) ==
  [kind |-> "sweep", tag |-> "lens", mode |-> "api", bestEffort |-> FALSE, bucket |-> bucket]

(* The agentic pass and a lens cut in two chunks. *)
Hybrid ==
  [passes |-> <<A("agentic", "luna"), A("api", "deepseek")>>,
   chunks |-> 2, runs |-> 1, maxCalls |-> 4]

(* A lens whose chunks alone exceed the budget: the risk probe goes. *)
Crowded ==
  [passes |-> <<Extra("risk", "api", "luna"), A("api", "deepseek")>>,
   chunks |-> 2, runs |-> 1, maxCalls |-> 1]

(* A lens, a sweep that shares its lane, and an investigation.              *)
Wide ==
  [passes |-> <<A("api", "luna"), Sweep("luna"), Extra("investigate", "investigate", "deepseek")>>,
   chunks |-> 1, runs |-> 1, maxCalls |-> 3]

(* Two samples of one lens, and a sweep that leaves room for them: with     *)
(* its answer the retry buys both samples again.                            *)
Sampled ==
  [passes |-> <<A("api", "deepseek"), Sweep("luna")>>,
   chunks |-> 1, runs |-> 2, maxCalls |-> 3]

(* Nothing reviewable in the diff. *)
Quiet == [passes |-> <<>>, chunks |-> 1, runs |-> 1, maxCalls |-> 1]

MCPlans == {Hybrid, Crowded, Wide, Sampled, Quiet}
MCLoads == {[active |-> 3, limit |-> 4]}

====
