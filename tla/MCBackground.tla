---------------------------- MODULE MCBackground ----------------------------
(* An instance of Background for TLC: the daily schedule and an operator    *)
(* as updaters, two channels of the queue.                                 *)
EXTENDS Background

CONSTANTS Daily, Operator, Mail, Hook

Every == {{Mail, Hook}}
=============================================================================
