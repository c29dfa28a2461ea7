---------------------------- MODULE MCOfficialUsage ----------------------------
(* Small instances of OfficialUsage. *)
EXTENDS OfficialUsage
================================================================================
