---------------------------- MODULE MCExportFile ----------------------------
(***************************************************************************)
(* Three requests for one file, removed or kept after it is served, at the *)
(* same time or one after the other; the third one may also be alone on    *)
(* another file.  Files do not interact, so more of them add nothing.      *)
(***************************************************************************)
EXTENDS ExportFile

MCRequest == {"r1", "r2", "r3"}

MCAsks == [r \in MCRequest |->
    CASE r = "r1" -> {"order"}
      [] r = "r2" -> {"order", "jdBonus"}
      [] r = "r3" -> {"order", "income", "user", "jdBonus", "jdOrder"}]
=============================================================================
