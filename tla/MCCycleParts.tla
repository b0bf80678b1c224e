---------------------------- MODULE MCCycleParts ----------------------------
(* An instance of CycleParts for TLC.                                      *)
EXTENDS CycleParts, TLC

\* Records of one unit, of a buffer and of more; two files, one truncation.
MCSizes == {1, 2, 4}

\* One address of each family, two ports that may be configured.
MCFamily    == "a" :> "v4" @@ "b" :> "v6"
MCPortLists == {{}, {22}, {22, 2222}}
=============================================================================
