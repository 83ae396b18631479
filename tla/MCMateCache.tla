---------------------------- MODULE MCMateCache ----------------------------
(***************************************************************************)
(* Two callers, two pushers, and a row that changes or is deleted between  *)
(* and during their steps.  One key: keys only meet in the order of a push.*)
(***************************************************************************)
EXTENDS MateCache

MCKey == {"k"}
MCCaller == {"c1", "c2"}
MCPusher == {"p1", "p2"}
=============================================================================
