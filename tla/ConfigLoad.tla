----------------------------- MODULE ConfigLoad -----------------------------
(***************************************************************************)
(* Loading a configuration (internal/config/config.go: Load, Normalize,    *)
(* MatchRegion).  The file is decoded over the defaults, then blanks are   *)
(* filled in and the rest is checked, rule by rule; the regions of a rule  *)
(* are a map, which the code changes while it ranges over it in an order   *)
(* of the runtime's choice.  Only the fields that are overlaid, filled in  *)
(* or compared are kept; what is checked on its own is one bit, `sound'.   *)
(***************************************************************************)
EXTENDS Integers, Sequences, FiniteSets

CONSTANTS
    Absent,     \* a field that is not in the file
    Files,      \* the documents a file may hold, see FileOK
    Spelled,    \* Spelled[p]: the clean form of a path p that is not written cleanly
    Alike,      \* the places whose normalized names contain one another, as pairs
    Locations   \* the sets of places (city, region, country) an address may have

Blank == ""  \* a name, place or path that is empty

\* A key of region_rules: a place, and how it is padded with blanks.
Trim(key) == [key EXCEPT !.pad = "none"]

\* Rules and files as they are written.
Field(S) == S \cup {Absent}
RegionsOK(m) ==
    /\ IsFiniteSet(DOMAIN m) /\ m = [k \in DOMAIN m |-> m[k]]
    /\ \A k \in DOMAIN m : k \in [place : STRING, pad : {"none", "left", "right", "both"}] /\ m[k] \in Int
EntryOK(e) ==
    /\ e = [name |-> e.name, attempts |-> e.attempts, reset |-> e.reset, regions |-> e.regions]
    /\ e.name \in Field(STRING) /\ e.attempts \in Field(Int) /\ e.reset \in Field(BOOLEAN)
    /\ e.regions = Absent \/ RegionsOK(e.regions)
FileOK(f) ==
    /\ f = [state |-> f.state, queue |-> f.queue, key |-> f.key, rules |-> f.rules, sound |-> f.sound]
    /\ f.state \in Field(STRING) /\ f.queue \in Field(STRING)
    /\ f.key \in {Absent, "rules", "Rules"} /\ f.sound \in BOOLEAN
    /\ DOMAIN f.rules = 1..Len(f.rules) /\ Len(f.rules) \in Nat
    /\ \A i \in DOMAIN f.rules : EntryOK(f.rules[i])

\* filepath.Clean, and the queue file a state file gets.
Clean(path)     == IF path \in DOMAIN Spelled THEN Spelled[path] ELSE path
OwnQueue(state) == state \o ".notifications.json"
DefaultState    == "state.json"
StatePaths      == {DefaultState} \cup ({f.state : f \in Files} \ {Absent})

ConfigAssumption ==
    /\ \A f \in Files : FileOK(f)
    /\ Blank \notin DOMAIN Spelled
    /\ \A s \in StatePaths : OwnQueue(s) # Blank /\ Clean(OwnQueue(s)) # Clean(s)

VARIABLES
    file,     \* the document
    pc,       \* "read", "head", "rule", "regions", then "accepted" or "rejected"
    cfg,      \* the configuration so far
    i, left   \* the rule at hand, and its region keys still to visit

vars == <<file, pc, cfg, i, left>>

-----------------------------------------------------------------------------
\* Decoding over the defaults.

NoRegions   == <<>>
HomeRegion  == [place |-> "home", pad |-> "none"]
DefaultRule == [name |-> "ssh-auth-failure", attempts |-> 5, reset |-> TRUE,
                regions |-> [k \in {HomeRegion} |-> 100]]
ZeroRule    == [name |-> Blank, attempts |-> 0, reset |-> FALSE, regions |-> NoRegions]
Defaults    == [state |-> DefaultState, queue |-> Blank, rules |-> <<DefaultRule>>]

Over(value, old) == IF value = Absent THEN old ELSE value

\* encoding/json fills the fields that are there, and adds to a map that is there already.
DecodeRule(e, old) ==
    [name |-> Over(e.name, old.name), attempts |-> Over(e.attempts, old.attempts),
     reset |-> Over(e.reset, old.reset),
     regions |-> IF e.regions = Absent THEN old.regions
                 ELSE [k \in DOMAIN e.regions \cup DOMAIN old.regions |->
                         IF k \in DOMAIN e.regions THEN e.regions[k] ELSE old.regions[k]]]

\* Mutant: the default rules are not dropped.
TemplateAlways(f) == Defaults.rules
\* The elements the decoder finds in place: none, when the file names its rules.
Template(f) == IF f.key = "rules" THEN <<>> ELSE Defaults.rules

\* Field names match whatever their case.
DecodeRules(f) ==
    IF f.key = Absent THEN Defaults.rules
    ELSE [n \in DOMAIN f.rules |->
            DecodeRule(f.rules[n], IF n <= Len(Template(f)) THEN Template(f)[n] ELSE ZeroRule)]

Decode ==
    /\ pc = "read" /\ pc' = "head"
    /\ cfg' = [state |-> Over(file.state, Defaults.state), queue |-> Over(file.queue, Defaults.queue),
               rules |-> DecodeRules(file)]
    /\ UNCHANGED <<file, i, left>>

-----------------------------------------------------------------------------
\* Normalize: the paths, and what is checked on its own (ports, addresses, URLs, patterns).

StateOf(c) == IF c.state = Blank THEN Defaults.state ELSE c.state
Clash(c) == Clean(c.queue) = Clean(StateOf(c))

Paths ==
    /\ pc = "head"
    /\ IF Clash(cfg) \/ ~file.sound THEN pc' = "rejected" /\ UNCHANGED cfg
       ELSE /\ pc' = "rule"
            /\ cfg' = [cfg EXCEPT !.state = StateOf(cfg),
                                  !.queue = IF @ = Blank THEN OwnQueue(StateOf(cfg)) ELSE @]
    /\ UNCHANGED <<file, i, left>>

Rule        == cfg.rules[i]
Named(name) == IF name = Blank THEN "rule" ELSE name
Taken(r)        == \E n \in 1..i - 1 : cfg.rules[n].name = Named(r.name)

Attempts(n) == IF n <= 0 THEN 5 ELSE n

\* A rule gets its name and thresholds, then its regions are visited.
RuleFields ==
    /\ pc = "rule" /\ i <= Len(cfg.rules)
    /\ IF Taken(Rule) THEN pc' = "rejected" /\ UNCHANGED <<cfg, left>>
       ELSE /\ cfg' = [cfg EXCEPT !.rules[i].name = Named(@), !.rules[i].attempts = Attempts(@)]
            /\ left' = DOMAIN Rule.regions
            /\ pc' = "regions"
    /\ UNCHANGED <<file, i>>

Drop(f, k)   == [x \in DOMAIN f \ {k} |-> f[x]]
Put(f, k, v) == [x \in DOMAIN f \cup {k} |-> IF x = k THEN v ELSE f[x]]

\* One round of the range: a key without place or threshold goes, a padded one is replaced.
\* A key that is added while ranging is trimmed, and nothing would happen to it.
Region(k) ==
    /\ pc = "regions" /\ k \in left /\ left' = left \ {k}
    /\ LET v == Rule.regions[k]
           without == Drop(Rule.regions, k)
       IN  cfg' = [cfg EXCEPT !.rules[i].regions =
                     IF k.place = Blank \/ v <= 0 THEN without
                     ELSE IF Trim(k) # k THEN Put(without, Trim(k), v)
                     ELSE @]
    /\ UNCHANGED <<file, pc, i>>

NextRule ==
    /\ pc = "regions" /\ left = {}
    /\ pc' = "rule" /\ i' = i + 1
    /\ UNCHANGED <<file, cfg, left>>

Accept ==
    /\ pc = "rule" /\ i > Len(cfg.rules)
    /\ pc' = "accepted"
    /\ UNCHANGED <<file, cfg, i, left>>

Init ==
    /\ file \in Files /\ pc = "read" /\ cfg = Defaults /\ i = 1 /\ left = {}

Keys == UNION {DOMAIN cfg.rules[n].regions : n \in DOMAIN cfg.rules}
Next == Decode \/ Paths \/ RuleFields \/ (\E k \in Keys : Region(k)) \/ NextRule \/ Accept

Spec == Init /\ [][Next]_vars

-----------------------------------------------------------------------------
\* MatchRegion, and the threshold scanLines takes from it.

Largest(S) == CHOOSE x \in S : \A y \in S : y <= x
Meets(key, location) == key.place # Blank /\ \E p \in location : p = key.place \/ <<key.place, p>> \in Alike

MatchRegion(regions, location) ==
    Largest({0} \cup {regions[k] : k \in {x \in DOMAIN regions : Meets(x, location)}})

Threshold(r, location) ==
    LET matched == MatchRegion(r.regions, location) IN IF matched > 0 THEN matched ELSE r.attempts

-----------------------------------------------------------------------------
\* Properties.

\* The walk stays among the rules and their regions.
TypeOK ==
    /\ file \in Files /\ pc \in {"read", "head", "rule", "regions", "accepted", "rejected"}
    /\ cfg = [state |-> cfg.state, queue |-> cfg.queue, rules |-> cfg.rules]
    /\ i \in 1..Len(cfg.rules) + 1
    /\ left # {} => left \subseteq DOMAIN Rule.regions

Accepted == pc = "accepted"

\* State and queue never share a file, also when one of the paths is a default or they are spelled
\* differently.
FilesApart == Accepted => cfg.state # Blank /\ cfg.queue # Blank /\ Clean(cfg.queue) # Clean(cfg.state)

\* The hits and bans of two rules are kept apart by the names of the rules, and no rule bans
\* at its first line for want of a threshold.
RulesApart ==
    Accepted => /\ \A m, n \in DOMAIN cfg.rules : cfg.rules[m].name = cfg.rules[n].name => m = n
                /\ \A n \in DOMAIN cfg.rules : cfg.rules[n].name # Blank /\ cfg.rules[n].attempts > 0

\* A rule of the file has what the file says: none of its fields comes from the default rule
\* (docs/configuration-en.md: "individual array entries do not inherit the default SSH template").
Said(e, r) ==
    /\ e.reset = Absent => ~r.reset
    /\ e.regions = Absent => r.regions = NoRegions
    /\ e.attempts = Absent => r.attempts = Attempts(0)
    /\ e.name = Absent => r.name = "rule"
EntriesStandAlone ==
    Accepted /\ file.key # Absent => \A n \in DOMAIN cfg.rules : Said(file.rules[n], cfg.rules[n])

\* "Overlapping regions always choose the most forgiving threshold": of all the regions the
\* file gives for a place, whatever their padding and the order of the range.
Written(e, location) ==
    {e.regions[k] : k \in {x \in DOMAIN e.regions : Meets(x, location) /\ e.regions[x] > 0}}
MostForgiving ==
    Accepted /\ file.key # Absent =>
        \A n \in DOMAIN cfg.rules, location \in Locations :
            LET e == file.rules[n] IN
            e.regions # Absent /\ Written(e, location) # {} =>
                \A v \in Written(e, location) : Threshold(cfg.rules[n], location) >= v

=============================================================================
