----------------------------- MODULE MC_FsMgmt -----------------------------
(***************************************************************************)
(* Small instances of FsMgmt for TLC: two paths, two chunk contents and    *)
(* requests within two bytes (MaxSize), so that a second upload of a path  *)
(* can be shorter than the first and a continuation can name the other     *)
(* path.                                                                   *)
(***************************************************************************)
EXTENDS FsMgmt

MCFaultsNoStat == AllFaults \ {"stat"}
MCFaultsStat == {"stat"}
MCFaultsWrite == {"seek", "write", "short"}
MCFaultsRead == {"read"}
=============================================================================
