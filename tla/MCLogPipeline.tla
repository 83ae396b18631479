--------------------------- MODULE MCLogPipeline ---------------------------
(***************************************************************************)
(* Three lines, one of them too long to be counted, in batches of two over *)
(* three hours.                                                            *)
(***************************************************************************)
EXTENDS LogPipeline

MCLine == {"l1", "l2", "l3"}
MCLong == {"l3"}
=============================================================================
