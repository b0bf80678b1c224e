------------------------------ MODULE NftChain ------------------------------
(***************************************************************************)
(* The nft table of banhack233 (internal/ban/action.go).  One set per      *)
(* address family holds the blocked addresses, one chain holds the rules   *)
(* that drop them, and ensureNFTPorts brings the chain to one rule per     *)
(* family for exactly the configured SSH ports: at startup, when a table   *)
(* is there already, and before every ban.  Each nft command is a step; it *)
(* may fail, the process may be killed between any two, somebody may flush *)
(* the ruleset or unban an address.  lock.Acquire lets one process run     *)
(* ensureNFTPorts at a time.  The configuration has an auto rule and      *)
(* dry_run off: otherwise none of this runs.                              *)
(***************************************************************************)
EXTENDS Integers, Sequences, SequencesExt, FiniteSets

CONSTANTS
    IPs, Family,      \* the addresses and [IPs -> Families]
    Ports, Default,   \* every port there is, and the one meant by an empty ssh_ports (22)
    PortLists,        \* the sets of ports ssh_ports may hold
    NoIP,             \* the target of the startup pass, which bans nobody
    MaxLegacy, MaxFaults  \* bounds: rules of old versions, injected faults

VARIABLES
    objs, chain, blocked,  \* nft: the objects that exist, the rules, the elements of the sets
    ports,                 \* ssh_ports of the configuration the process is started with
    pc, target,            \* the process: its next command, the address it bans
    step, del, missing, need,  \* ensureNFTPorts: its script, the plan
    faults                 \* injected faults so far

nft  == <<objs, chain, blocked>>
plan == <<step, del, missing, need>>
vars == <<nft, ports, pc, target, plan, faults>>

Families == {"v4", "v6"}

Scope(p) == IF p = {} THEN {Default} ELSE p
Script   == <<"table", "v4", "v6", "input">>
RuleType == [family : Families, ports : (SUBSET Ports) \ {{}}, handle : Nat]

NftAssumption ==
    /\ Family \in [IPs -> Families] /\ NoIP \notin IPs
    /\ Default \in Ports /\ PortLists \subseteq SUBSET Ports /\ PortLists # {}
    /\ Ports \notin PortLists \cup {{Default}}
    /\ MaxLegacy \in Nat /\ MaxFaults \in Nat

Handles(ch) == {ch[i].handle : i \in DOMAIN ch}
Fresh       == 1 + CHOOSE n \in Handles(chain) \cup {0} : \A h \in Handles(chain) : h <= n

-----------------------------------------------------------------------------
\* planChainRulesPorts.

\* Mutants: any rule with ports will do; one rule is kept, not one per family.
ScopedAnyhow(rl, p) == rl.ports # Ports
KeptOnce(ch, p) ==
    {i \in DOMAIN ch : ch[i].ports = Scope(p) /\ \A j \in 1..(i - 1) : ch[j].ports # Scope(p)}

Scoped(rl, p) == rl.ports = Scope(p)

\* The first rule of each family for the configured ports stays; every other one goes.
Kept(ch, p) ==
    {i \in DOMAIN ch : /\ Scoped(ch[i], p)
                       /\ \A j \in 1..(i - 1) : ch[j].family = ch[i].family => ~Scoped(ch[j], p)}
Unwanted(ch, p) == Handles(ch) \ {ch[i].handle : i \in Kept(ch, p)}
NeededFor(ch, p) == Families \ {ch[i].family : i \in Kept(ch, p)}

-----------------------------------------------------------------------------
\* What earlier versions left: rules that drop every port, duplicates of the rule for port 22.
LegacyChains ==
    UNION {{ch \in [1..n -> [family : Families, ports : {Ports, {Default}}, handle : 1..n]] :
              \A i \in 1..n : ch[i].handle = i} : n \in 0..MaxLegacy}

NoPlan == step = 1 /\ del = {} /\ missing = FALSE /\ need = {}

Init ==
    /\ \/ objs = {} /\ chain = <<>> /\ blocked = {}
       \/ objs = ToSet(Script) /\ chain \in LegacyChains /\ blocked \in SUBSET IPs
    /\ ports \in PortLists
    /\ pc = "down" /\ target = NoIP /\ NoPlan /\ faults = 0

Fault  == faults < MaxFaults /\ faults' = faults + 1
Forget == step' = 1 /\ del' = {} /\ missing' = FALSE /\ need' = {}

\* Run takes the lock and reconciles the scope first.
Start ==
    /\ pc = "down" /\ pc' = "check"
    /\ UNCHANGED <<nft, ports, target, plan, faults>>

\* Mutant: the rules of an old version wait for the next ban.
CheckNothing ==
    /\ pc = "check" /\ pc' = "idle"
    /\ UNCHANGED <<nft, ports, target, plan, faults>>

\* ReconcileExistingPorts: without a table there is nothing to narrow.
Check ==
    /\ pc = "check"
    /\ pc' = IF "table" \in objs THEN "make" ELSE "idle"
    /\ UNCHANGED <<nft, ports, target, plan, faults>>

\* applyAuto for an address of a ban.
Ban(ip) ==
    /\ pc = "idle" /\ pc' = "make" /\ target' = ip
    /\ UNCHANGED <<nft, ports, plan, faults>>

-----------------------------------------------------------------------------
\* ensureNFTPorts, one command at a time.

\* A command that names an object which is not there.
Dangling ==
    \/ pc = "make" /\ Script[step] # "table" /\ "table" \notin objs
    \/ pc = "list" /\ "input" \notin objs
    \/ pc = "delete" /\ ~(del \subseteq Handles(chain))
    \/ pc \in need /\ {"input", pc} \ objs # {}
    \/ pc = "element" /\ Family[target] \notin objs

\* Adding what exists is no error: runOK ignores `File exists'.
MakeObject ==
    /\ pc = "make" /\ ~Dangling
    /\ objs' = objs \cup {Script[step]}
    /\ IF step = Len(Script) THEN pc' = "list" /\ step' = 1 ELSE step' = step + 1 /\ UNCHANGED pc
    /\ UNCHANGED <<chain, blocked, ports, target, del, missing, need, faults>>

\* A listing that shows no handles leaves the rules to remove in place.
List(shown) ==
    /\ pc = "list" /\ ~Dangling /\ pc' = "delete"
    /\ IF shown THEN UNCHANGED faults ELSE Fault
    /\ del' = IF shown THEN Unwanted(chain, ports) ELSE {}
    /\ missing' = (~shown /\ Unwanted(chain, ports) # {})
    /\ need' = NeededFor(chain, ports)
    /\ UNCHANGED <<nft, ports, target, step>>

\* The rules to remove, in the order of the listing; it goes stale only when all rules go.
DeleteRule(i) ==
    /\ pc = "delete" /\ ~Dangling
    /\ chain[i].handle \in del /\ \A j \in 1..(i - 1) : chain[j].handle \notin del
    /\ chain' = RemoveAt(chain, i)
    /\ del' = del \ {chain[i].handle}
    /\ UNCHANGED <<objs, blocked, ports, pc, target, step, missing, need, faults>>

Deleted ==
    /\ pc = "delete" /\ del = {} /\ ~missing /\ pc' = "v4"
    /\ UNCHANGED <<nft, ports, target, plan, faults>>

AddRule(f) ==
    /\ pc = f /\ ~Dangling
    /\ chain' = IF f \in need
                THEN Append(chain, [family |-> f, ports |-> Scope(ports), handle |-> Fresh])
                ELSE chain
    /\ pc' = IF f = "v4" THEN "v6" ELSE IF target = NoIP THEN "idle" ELSE "element"
    /\ IF f = "v6" THEN Forget ELSE UNCHANGED plan
    /\ UNCHANGED <<objs, blocked, ports, target, faults>>

AddElement ==
    /\ pc = "element" /\ ~Dangling /\ pc' = "idle"
    /\ blocked' = blocked \cup {target}
    /\ target' = NoIP
    /\ UNCHANGED <<objs, chain, ports, plan, faults>>

\* An error ends the startup of the process, or the scan that wanted the ban.
Fails ==
    /\ pc \in {"check", "make", "list", "delete", "v4", "v6", "element"}
    /\ IF Dangling \/ (pc = "delete" /\ del = {} /\ missing) THEN UNCHANGED faults ELSE Fault
    /\ pc' = IF target = NoIP THEN "down" ELSE "idle"
    /\ target' = NoIP /\ Forget
    /\ UNCHANGED <<nft, ports>>

-----------------------------------------------------------------------------
\* The environment.

\* Removal of a ban by the daemon, or by `banhack233 unban' at any moment.
Unban(ip) ==
    /\ ip \in blocked /\ blocked' = blocked \ {ip}
    /\ UNCHANGED <<objs, chain, ports, pc, target, plan, faults>>

Reconfigure ==
    /\ pc = "down" /\ Fault
    /\ ports' \in PortLists \ {ports}
    /\ UNCHANGED <<nft, pc, target, plan>>

Kill ==
    /\ pc' = "down" /\ pc # "down" /\ Fault
    /\ target' = NoIP /\ Forget
    /\ UNCHANGED <<nft, ports>>

\* `nft flush ruleset' by somebody else; a reboot is this and a Kill.
Flush ==
    /\ objs' = {} /\ chain' = <<>> /\ blocked' = {} /\ Fault
    /\ UNCHANGED <<ports, pc, target, plan>>

-----------------------------------------------------------------------------
Ensure == \/ MakeObject \/ (\E shown \in BOOLEAN : List(shown))
          \/ (\E i \in DOMAIN chain : DeleteRule(i)) \/ Deleted
          \/ (\E f \in Families : AddRule(f)) \/ AddElement \/ Fails
Daemon == Check \/ Ensure
Environment == (\E ip \in IPs : Unban(ip)) \/ Reconfigure \/ Kill \/ Flush
Next == Start \/ Daemon \/ (\E ip \in IPs : Ban(ip)) \/ Environment

Spec     == Init /\ [][Next]_vars
FairSpec == Spec /\ WF_vars(Start) /\ WF_vars(Daemon)

-----------------------------------------------------------------------------
\* Properties.

\* The fields keep their types; no rule is for no port.
TypeOK ==
    /\ objs \subseteq ToSet(Script) /\ chain \in Seq(RuleType) /\ blocked \subseteq IPs
    /\ ports \in PortLists
    /\ pc \in {"down", "check", "idle", "make", "list", "delete", "v4", "v6", "element"}
    /\ target \in IPs \cup {NoIP}
    /\ step \in DOMAIN Script /\ del \subseteq Nat /\ missing \in BOOLEAN /\ need \subseteq Families
    /\ faults \in Nat

\* One rule per family, for the configured ports, and no other rule.
Exact ==
    /\ Len(chain) = Cardinality(Families)
    /\ \A f \in Families : \E i \in DOMAIN chain : chain[i].family = f /\ chain[i].ports = Scope(ports)

\* ApplyPorts reports a ban only once the chain drops the address on the SSH ports and nothing
\* on any other port (action.go: a rule for all ports would hit HTTPS behind a shared exit).
Enforced == [][blocked' \subseteq blocked \/ Exact]_vars

\* The families that have their rule, and what is dropped of each: an SSH port or another one.
Protected(ch) == {ch[i].family : i \in {j \in DOMAIN ch : Scoped(ch[j], ports)}}
Dropped(ch)   == UNION {{ch[i].family} \X ch[i].ports : i \in DOMAIN ch}

\* Bringing the chain up to date never takes its rule from a family that has it, nor lets a blocked
\* address of such a family in on an SSH port.  What protected a family otherwise (a rule of an old
\* version, a rule for other ports) is deleted before the rule that takes its place is added, so
\* that the family is open on these ports in between, and until the next run if a command fails
\* or the process is killed just then; but it goes only in a run that is to add that rule, and a
\* run that ends without an error has added it, unless somebody flushed the ruleset under it.
ProtectedStays ==
    [][Daemon => /\ Protected(chain) \subseteq Protected(chain')
                 /\ \A f \in Families \ need', p \in Scope(ports) :
                       <<f, p>> \in Dropped(chain) => <<f, p>> \in Dropped(chain')
                 /\ AddRule("v6") /\ objs # {} => Exact']_vars

\* Whatever failed or was killed halfway, in the end the blocked addresses are dropped on the
\* configured ports and on no other: rules of an old version or of other ports are gone.
Settles == <>[](blocked = {} \/ Exact)
=============================================================================
