---------------------------- MODULE MCExportJobs ----------------------------
(***************************************************************************)
(* Small instances of ExportJobs: the exports j1 and j2 of one tenant.     *)
(***************************************************************************)
EXTENDS ExportJobs

CONSTANTS j1, j2, t1

OneTenant == [j \in Jobs |-> t1]
=============================================================================
