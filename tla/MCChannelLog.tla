----------------------------- MODULE MCChannelLog ------------------------------
(* Small instances of ChannelLog. *)
EXTENDS ChannelLog

Either == BOOLEAN
=================================================================================
