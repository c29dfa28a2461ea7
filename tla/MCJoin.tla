-------------------------------- MODULE MCJoin ---------------------------------
(* Small instances of Join. *)
EXTENDS Join
================================================================================
