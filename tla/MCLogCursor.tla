---------------------------- MODULE MCLogCursor -----------------------------
(* An instance of LogCursor for TLC; MCCycleParts has another.        *)
EXTENDS LogCursor
=============================================================================
