--------------------------- MODULE MCNotifyQueue ----------------------------
(* Instances of NotifyQueue for TLC. *)
EXTENDS NotifyQueue

CONSTANTS Mail, Hook

Every    == {{Mail, Hook}}
Changing == {{Mail, Hook}, {Hook}}
=============================================================================
