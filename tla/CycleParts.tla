----------------------------- MODULE CycleParts -----------------------------
(* Three models that share no variable, next to one another: the cursor    *)
(* of a log, the nft chain, and the alerts of a cycle.  A behaviour is one *)
(* of one of them, while the others stay as they are at first: what is     *)
(* true of a part depends on nothing the others do.                        *)
EXTENDS CycleAlerts

\* The constants of the parts; those of the alerts are CycleAlerts's own.
CONSTANTS
    L_StartAtEnd, L_Buf, L_Limit, L_Sizes, L_LateRotation, L_Legacy,
    L_MaxFiles, L_MaxRecords, L_MaxTruncations,
    N_IPs, N_Family, N_Ports, N_Default, N_PortLists, N_NoIP, N_MaxLegacy, N_MaxFaults

VARIABLES
    part,  \* the part this behaviour is one of
    l_files, l_path, l_open, l_sizes, l_truncations, l_id, l_offset, l_pc, l_start, l_reads,
    n_objs, n_chain, n_blocked, n_ports, n_pc, n_target, n_step, n_del, n_missing, n_need, n_faults

L == INSTANCE LogCursor WITH
    StartAtEnd <- L_StartAtEnd, Buf <- L_Buf, Limit <- L_Limit, Sizes <- L_Sizes,
    LateRotation <- L_LateRotation, Legacy <- L_Legacy, MaxFiles <- L_MaxFiles, MaxRecords <- L_MaxRecords,
    MaxTruncations <- L_MaxTruncations,
    files <- l_files, path <- l_path, open <- l_open, sizes <- l_sizes, truncations <- l_truncations,
    id <- l_id, offset <- l_offset, pc <- l_pc, start <- l_start, reads <- l_reads

N == INSTANCE NftChain WITH
    IPs <- N_IPs, Family <- N_Family, Ports <- N_Ports, Default <- N_Default, PortLists <- N_PortLists,
    NoIP <- N_NoIP, MaxLegacy <- N_MaxLegacy, MaxFaults <- N_MaxFaults,
    objs <- n_objs, chain <- n_chain, blocked <- n_blocked, ports <- n_ports, pc <- n_pc,
    target <- n_target, step <- n_step, del <- n_del, missing <- n_missing, need <- n_need,
    faults <- n_faults

ASSUME LogAssumption   == L!CursorAssumption
ASSUME ChainAssumption == N!NftAssumption

l_vars == <<l_files, l_path, l_open, l_sizes, l_truncations, l_id, l_offset, l_pc, l_start, l_reads>>
n_vars == <<n_objs, n_chain, n_blocked, n_ports, n_pc, n_target, n_step, n_del, n_missing, n_need, n_faults>>
all    == <<part, vars, l_vars, n_vars>>

PartsInit ==
    /\ part \in {"log", "chain", "alerts"}
    /\ Init /\ L!Init /\ (part # "log" => l_offset = L!Unseen)
    /\ N!Init /\ (part # "chain" => n_objs = {} /\ n_ports = (CHOOSE p \in N_PortLists : TRUE))

InLog    == part = "log" /\ UNCHANGED <<part, vars, n_vars>>
InChain  == part = "chain" /\ UNCHANGED <<part, vars, l_vars>>
InAlerts == part = "alerts" /\ UNCHANGED <<part, l_vars, n_vars>>

\* The log may stop growing and the clock of the alerts ends; the chain is never stuck.
Rest == part # "chain" /\ UNCHANGED all

PartsNext == (InLog /\ L!Next) \/ (InChain /\ N!Next) \/ (InAlerts /\ Next) \/ Rest

\* The fairness of each part, for the behaviours that are of it.
PartsSpec ==
    /\ PartsInit /\ [][PartsNext]_all
    /\ WF_all(InLog /\ L!Scan)
    /\ WF_all(InChain /\ N!Start) /\ WF_all(InChain /\ N!Daemon)
    /\ WF_all(InAlerts /\ Cycle) /\ WF_all(InAlerts /\ Worker) /\ WF_all(InAlerts /\ Start)

-----------------------------------------------------------------------------
\* The properties of the parts; what each says of the code is told in its module.

\* Every part is of its type.
PartsTypeOK == TypeOK /\ L!TypeOK /\ N!TypeOK

\* scanRule and readNewLines hand on no line twice, and pass over none of the file they read last, but
\* for oversized records, what was there at first sight or up to the offset of an older version, and
\* what a truncated log has regrown before a poll saw it shorter.
ReadOnce == L!OnceEach /\ L!NothingSkipped

\* A log that is left alone is read to its last newline.
ReadToEnd == L!ReadToEnd

\* ApplyPorts blocks an address only when the chain drops it on the SSH ports and no other.
Enforced == N!Enforced

\* ensureNFTPorts takes its rule from no family that has one, and opens an SSH port that an old rule
\* closes only in a run that is to add the rule in its place.
ProtectedStays == N!ProtectedStays

\* In the end the chain is as the configuration says, whatever failed halfway.
Settles == N!Settles
=============================================================================
