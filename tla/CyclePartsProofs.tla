-------------------------- MODULE CyclePartsProofs --------------------------
(* Theorems about LogCursor, NftChain and CycleAlerts next to one another, *)
(* for every value of their constants, checked by TLAPS.                   *)
EXTENDS CycleParts, CycleAlertsProofs, FiniteSetTheorems, WellFoundedInduction, NaturalsInduction

-----------------------------------------------------------------------------
\* Numbers and sequences.

\* A set of numbers that is not empty has a least one.
LEMMA LeastExists ==
  ASSUME NEW S, S \subseteq Nat, S # {}
  PROVE  \E x \in S : \A y \in S : x <= y
<1> DEFINE R == OpToRel(<, Nat)
<1>1. IsWellFoundedOn(R, Nat)
  BY NatLessThanWellFounded
<1>2. \A a, b \in Nat : a < b => <<a, b>> \in R
  BY DEF OpToRel
<1> HIDE DEF R
<1>3. PICK x \in S : \A y \in S : ~ (<<y, x>> \in R)
  BY <1>1, WFMin
<1>4. \A y \in S : x <= y
  <2> SUFFICES ASSUME NEW y \in S PROVE x <= y
    OBVIOUS
  <2>1. x \in Nat /\ y \in Nat /\ ~ (y < x)
    BY <1>2, <1>3
  <2> QED BY <2>1
<1> QED BY <1>4

\* The numbers of a function on 1..n, and zero, have a greatest one.
LEMMA GreatestExists ==
  ASSUME NEW n \in Nat, NEW f, \A i \in 1..n : f[i] \in Nat
  PROVE  \E m \in {f[i] : i \in 1..n} \cup {0} : \A i \in 1..n : f[i] <= m
<1> DEFINE Has(k) == \E m \in {f[i] : i \in 1..k} \cup {0} : \A i \in 1..k : f[i] <= m
           T == {k \in 0..n : ~Has(k)}
<1>1. SUFFICES ASSUME T # {} PROVE FALSE
  <2>1. n \in 0..n
    OBVIOUS
  <2> QED BY <1>1, <2>1
<1>2. T \subseteq Nat
  OBVIOUS
<1>3. PICK k \in T : \A l \in T : k <= l
  <2> HIDE DEF T
  <2> QED BY <1>1, <1>2, LeastExists
<1>4. k # 0
  <2>1. Has(0)
    OBVIOUS
  <2> QED BY <2>1
<1>5. k - 1 \in 0..n /\ ~(k <= k - 1) /\ k \in 1..n
  BY <1>4
<1>6. Has(k - 1)
  <2> HIDE DEF Has
  <2> QED BY <1>3, <1>5
<1>7. PICK m \in {f[i] : i \in 1..(k - 1)} \cup {0} : \A i \in 1..(k - 1) : f[i] <= m
  BY <1>6
<1>8. m \in Nat /\ f[k] \in Nat
  BY <1>5
<1>9. \A i \in 1..k : i = k \/ i \in 1..(k - 1)
  BY <1>5
<1>10. m \in {f[i] : i \in 1..k} \cup {0} /\ f[k] \in {f[i] : i \in 1..k} \cup {0}
  BY <1>5
<1>11. Has(k)
  <2>1. CASE f[k] <= m
    <3>1. \A i \in 1..k : f[i] <= m
      BY <1>7, <1>9, <2>1
    <3> QED BY <1>10, <3>1
  <2>2. CASE m <= f[k]
    <3>1. \A i \in 1..k : f[i] <= f[k]
      BY <1>5, <1>7, <1>8, <1>9, <2>2
    <3> QED BY <1>10, <3>1
  <2> QED BY <1>8, <2>1, <2>2
<1> QED BY <1>11

\* A sequence without its i-th element: what is where afterwards.
LEMMA RemoveAtProperties ==
  ASSUME NEW S, NEW s \in Seq(S), NEW i \in 1..Len(s)
  PROVE  /\ RemoveAt(s, i) \in Seq(S) /\ Len(RemoveAt(s, i)) = Len(s) - 1
         /\ \A j \in 1..(Len(s) - 1) : RemoveAt(s, i)[j] = IF j < i THEN s[j] ELSE s[j + 1]
<1> DEFINE a == SubSeq(s, 1, i - 1)
           b == SubSeq(s, i + 1, Len(s))
<1>1. Len(s) \in Nat /\ \A j \in 1..Len(s) : s[j] \in S
  BY LenProperties, ElementOfSeq
<1>2. \A j \in 1..(i - 1) : s[j] \in S
  BY <1>1
<1>3. \A j \in (i + 1)..Len(s) : s[j] \in S
  BY <1>1
<1>4. /\ a \in Seq(S) /\ Len(a) = IF 1 <= i - 1 THEN i - 1 - 1 + 1 ELSE 0
      /\ \A j \in 1..(i - 1 - 1 + 1) : a[j] = s[1 + j - 1]
  BY <1>1, <1>2, SubSeqProperties
<1>5. /\ b \in Seq(S) /\ Len(b) = IF i + 1 <= Len(s) THEN Len(s) - (i + 1) + 1 ELSE 0
      /\ \A j \in 1..(Len(s) - (i + 1) + 1) : b[j] = s[i + 1 + j - 1]
  BY <1>1, <1>3, SubSeqProperties
<1> HIDE DEF a, b
<1>6. Len(a) = i - 1 /\ Len(b) = Len(s) - i
  BY <1>1, <1>4, <1>5
<1>7. /\ a \o b \in Seq(S) /\ Len(a \o b) = Len(a) + Len(b)
      /\ \A j \in 1..(Len(a) + Len(b)) : (a \o b)[j] = IF j <= Len(a) THEN a[j] ELSE b[j - Len(a)]
  BY <1>4, <1>5, ConcatProperties
<1>8. Len(a) + Len(b) = Len(s) - 1
  BY <1>1, <1>6
<1>9. ASSUME NEW j \in 1..(Len(s) - 1) PROVE (a \o b)[j] = IF j < i THEN s[j] ELSE s[j + 1]
  <2>1. CASE j < i
    <3>1. (a \o b)[j] = a[j] /\ j \in 1..(i - 1 - 1 + 1) /\ 1 + j - 1 = j
      BY <1>1, <1>6, <1>7, <1>8, <2>1
    <3> QED BY <1>4, <2>1, <3>1
  <2>2. CASE ~(j < i)
    <3>1. (a \o b)[j] = b[j - (i - 1)]
      BY <1>1, <1>6, <1>7, <1>8, <2>2
    <3>2. j - (i - 1) \in 1..(Len(s) - (i + 1) + 1) /\ i + 1 + (j - (i - 1)) - 1 = j + 1
      BY <1>1, <2>2
    <3> QED BY <1>5, <2>2, <3>1, <3>2
  <2> QED BY <2>1, <2>2
<1> QED BY <1>7, <1>8, <1>9 DEF a, b, RemoveAt

-----------------------------------------------------------------------------
\* The nft chain: the inductive invariant.

ChainTypes == N!TypeOK /\ (n_pc = "element" => n_target # N_NoIP)

\* A handle names one rule.
HandlesApart ==
    \A i, j \in DOMAIN n_chain : n_chain[i].handle = n_chain[j].handle => i = j

\* The rules that the plan leaves in place, and what holds of them from the plan on: one for each
\* family but those in F, for the configured ports.
Stays(i) == n_chain[i].handle \notin n_del
Narrowed(F) ==
    /\ \A i \in DOMAIN n_chain : Stays(i) => N!Scoped(n_chain[i], n_ports) /\ n_chain[i].family \notin F
    /\ \A i, j \in DOMAIN n_chain : Stays(i) /\ Stays(j) /\ n_chain[i].family = n_chain[j].family => i = j
    /\ \A f \in N!Families \ F : \E i \in DOMAIN n_chain : Stays(i) /\ n_chain[i].family = f

\* How far ensureNFTPorts has come, unless somebody flushed the ruleset meanwhile.
Progress ==
    /\ n_pc \in {"v4", "v6", "element"} => n_del = {}
    /\ n_objs # {} =>
         /\ (n_pc = "delete" /\ ~n_missing) \/ n_pc = "v4" => Narrowed(n_need)
         /\ n_pc = "v6" => Narrowed(n_need \ {"v4"})
         /\ n_pc = "element" => Narrowed({})

\* What is deleted is not the last rule of its family for the configured ports, and a family with
\* rules that is to get none has one.
SpareRule ==
    n_pc = "delete" =>
        \A i \in DOMAIN n_chain : N!Scoped(n_chain[i], n_ports) \/ n_chain[i].family \notin n_need =>
            \E j \in DOMAIN n_chain :
                Stays(j) /\ N!Scoped(n_chain[j], n_ports) /\ n_chain[j].family = n_chain[i].family

ChainInv == ChainTypes /\ HandlesApart /\ Progress /\ SpareRule

-----------------------------------------------------------------------------
\* The nft chain: types.

\* The script has four commands.
LEMMA ScriptFacts ==
  /\ Len(N!Script) = 4 /\ DOMAIN N!Script = 1..4
  /\ \A k \in 1..4 : N!Script[k] \in N!ToSet(N!Script)
<1>1. Len(N!Script) = 4 /\ DOMAIN N!Script = 1..4
  BY DEF N!Script
<1> QED BY <1>1 DEF N!ToSet

\* The ports of a rule are ports, and there is one.
LEMMA ScopeType ==
  ASSUME NEW p \in N_PortLists PROVE N!Scope(p) \in (SUBSET N_Ports) \ {{}}
<1>1. p \in SUBSET N_Ports /\ N_Default \in N_Ports
  BY ChainAssumption DEF N!NftAssumption
<1>2. CASE p = {}
  BY <1>1, <1>2 DEF N!Scope
<1>3. CASE p # {}
  BY <1>1, <1>3 DEF N!Scope
<1> QED BY <1>2, <1>3

\* A new rule has a handle that no other rule has.
LEMMA FreshHandle ==
  ASSUME ChainTypes
  PROVE  N!Fresh \in Nat /\ \A i \in DOMAIN n_chain : n_chain[i].handle # N!Fresh
<1>1. n_chain \in Seq(N!RuleType) /\ Len(n_chain) \in Nat /\ DOMAIN n_chain = 1..Len(n_chain)
  BY LenProperties DEF ChainTypes, N!TypeOK
<1>2. \A i \in 1..Len(n_chain) : n_chain[i].handle \in Nat
  <2>1. \A i \in 1..Len(n_chain) : n_chain[i] \in N!RuleType
    BY <1>1, ElementOfSeq
  <2> QED BY <2>1 DEF N!RuleType
<1> DEFINE h == [i \in 1..Len(n_chain) |-> n_chain[i].handle]
<1>3. \E m \in {h[i] : i \in 1..Len(n_chain)} \cup {0} : \A i \in 1..Len(n_chain) : h[i] <= m
  <2>1. \A i \in 1..Len(n_chain) : h[i] \in Nat
    BY <1>2
  <2> HIDE DEF h
  <2> QED BY <1>1, <2>1, GreatestExists
<1>4. \E m \in N!Handles(n_chain) \cup {0} : \A x \in N!Handles(n_chain) : x <= m
  BY <1>1, <1>3 DEF N!Handles
<1> DEFINE top == CHOOSE m \in N!Handles(n_chain) \cup {0} : \A x \in N!Handles(n_chain) : x <= m
<1>5. top \in N!Handles(n_chain) \cup {0} /\ \A x \in N!Handles(n_chain) : x <= top
  BY <1>4
<1>6. N!Fresh = 1 + top
  BY DEF N!Fresh
<1>7. N!Handles(n_chain) \subseteq Nat
  BY <1>1, <1>2 DEF N!Handles
<1> HIDE DEF top
<1>8. top \in Nat
  BY <1>5, <1>7
<1>9. \A i \in DOMAIN n_chain : n_chain[i].handle \in N!Handles(n_chain)
  BY DEF N!Handles
<1>10. \A x \in N!Handles(n_chain) : x # 1 + top
  BY <1>5, <1>7, <1>8
<1> QED BY <1>6, <1>8, <1>9, <1>10

LEMMA ChainTypesInit ==
  ASSUME N!Init PROVE ChainTypes
<1> USE DEF N!Init, N!NoPlan
<1>1. n_chain \in Seq(N!RuleType) /\ n_objs \subseteq N!ToSet(N!Script) /\ n_blocked \subseteq N_IPs
  <2>1. CASE n_chain = <<>> /\ n_objs = {} /\ n_blocked = {}
    BY <2>1
  <2>2. CASE n_objs = N!ToSet(N!Script) /\ n_chain \in N!LegacyChains /\ n_blocked \in SUBSET N_IPs
    <3>1. PICK n \in 0..N_MaxLegacy :
            n_chain \in [1..n -> [family : N!Families, ports : {N_Ports, {N_Default}}, handle : 1..n]]
      BY <2>2 DEF N!LegacyChains
    <3>2. n \in Nat /\ 1..n \subseteq Nat /\ N_Ports # {} /\ N_Default \in N_Ports
      BY ChainAssumption DEF N!NftAssumption
    <3>3. [family : N!Families, ports : {N_Ports, {N_Default}}, handle : 1..n] \subseteq N!RuleType
      BY <3>2 DEF N!RuleType
    <3>4. n_chain \in [1..n -> N!RuleType]
      BY <3>1, <3>3
    <3> QED BY <2>2, <3>2, <3>4
  <2> QED BY <2>1, <2>2
<1>2. n_step \in DOMAIN N!Script /\ n_del \subseteq Nat /\ n_need \subseteq N!Families
  BY ScriptFacts
<1>3. n_missing \in BOOLEAN
  OBVIOUS
<1>4. n_pc = "down" /\ n_ports \in N_PortLists /\ n_target \in N_IPs \cup {N_NoIP} /\ n_faults \in Nat
  OBVIOUS
<1> QED BY <1>1, <1>2, <1>3, <1>4 DEF ChainTypes, N!TypeOK

\* Removing a rule, and adding one, leave a chain.
LEMMA RemoveRule ==
  ASSUME ChainTypes, NEW i \in DOMAIN n_chain, n_chain' = N!RemoveAt(n_chain, i)
  PROVE  /\ n_chain' \in Seq(N!RuleType) /\ DOMAIN n_chain = 1..Len(n_chain) /\ Len(n_chain) \in Nat
         /\ DOMAIN n_chain' = 1..(Len(n_chain) - 1)
         /\ \A j \in 1..(Len(n_chain) - 1) : n_chain'[j] = IF j < i THEN n_chain[j] ELSE n_chain[j + 1]
<1>1. n_chain \in Seq(N!RuleType) /\ DOMAIN n_chain = 1..Len(n_chain) /\ Len(n_chain) \in Nat
  BY LenProperties DEF ChainTypes, N!TypeOK
<1>2. N!RemoveAt(n_chain, i) = RemoveAt(n_chain, i)
  BY DEF N!RemoveAt, RemoveAt
<1>3. /\ n_chain' \in Seq(N!RuleType) /\ Len(n_chain') = Len(n_chain) - 1
      /\ \A j \in 1..(Len(n_chain) - 1) : n_chain'[j] = IF j < i THEN n_chain[j] ELSE n_chain[j + 1]
  BY <1>1, <1>2, RemoveAtProperties
<1>4. DOMAIN n_chain' = 1..Len(n_chain')
  BY <1>3, LenProperties
<1> QED BY <1>1, <1>3, <1>4

LEMMA AppendRule ==
  ASSUME ChainTypes, NEW f \in N!Families,
         n_chain' = Append(n_chain, [family |-> f, ports |-> N!Scope(n_ports), handle |-> N!Fresh])
  PROVE  /\ n_chain' \in Seq(N!RuleType) /\ DOMAIN n_chain = 1..Len(n_chain) /\ Len(n_chain) \in Nat
         /\ DOMAIN n_chain' = 1..(Len(n_chain) + 1)
         /\ \A j \in 1..Len(n_chain) : n_chain'[j] = n_chain[j]
         /\ n_chain'[Len(n_chain) + 1].family = f
         /\ n_chain'[Len(n_chain) + 1].ports = N!Scope(n_ports)
         /\ n_chain'[Len(n_chain) + 1].handle = N!Fresh
<1> DEFINE r == [family |-> f, ports |-> N!Scope(n_ports), handle |-> N!Fresh]
<1>1. n_chain \in Seq(N!RuleType) /\ DOMAIN n_chain = 1..Len(n_chain) /\ Len(n_chain) \in Nat
  BY LenProperties DEF ChainTypes, N!TypeOK
<1>2. r \in N!RuleType
  <2>1. n_ports \in N_PortLists
    BY DEF ChainTypes, N!TypeOK
  <2> QED BY <2>1, ScopeType, FreshHandle DEF N!RuleType
<1>3. r.family = f /\ r.ports = N!Scope(n_ports) /\ r.handle = N!Fresh
  OBVIOUS
<1> HIDE DEF r
<1>4. n_chain' = Append(n_chain, r)
  BY DEF r
<1>5. /\ n_chain' \in Seq(N!RuleType) /\ Len(n_chain') = Len(n_chain) + 1
      /\ \A j \in 1..Len(n_chain) : n_chain'[j] = n_chain[j]
      /\ n_chain'[Len(n_chain) + 1] = r
  BY <1>1, <1>2, <1>4, AppendProperties
<1>6. DOMAIN n_chain' = 1..Len(n_chain')
  BY <1>5, LenProperties
<1> QED BY <1>1, <1>3, <1>5, <1>6

\* Adding the rule of one family.
LEMMA AddRuleChain ==
  ASSUME ChainTypes, NEW f \in N!Families, N!AddRule(f)
  PROVE  n_chain' \in Seq(N!RuleType)
<1>1. CASE f \in n_need
  BY <1>1, AppendRule DEF N!AddRule
<1>2. CASE f \notin n_need
  BY <1>2 DEF N!AddRule, ChainTypes, N!TypeOK
<1> QED BY <1>1, <1>2

LEMMA ChainTypesNext ==
  ASSUME ChainTypes, N!Next PROVE ChainTypes'
<1> USE DEF ChainTypes, N!TypeOK, N!Fault, N!nft, N!plan
<1>1. ASSUME N!Start \/ N!Check PROVE ChainTypes'
  BY <1>1 DEF N!Start, N!Check
<1>2. ASSUME NEW ip \in N_IPs, N!Ban(ip) PROVE ChainTypes'
  BY <1>2 DEF N!Ban
<1>3. ASSUME N!MakeObject PROVE ChainTypes'
  <2>1. n_step \in 1..4 /\ N!Script[n_step] \in N!ToSet(N!Script)
    BY ScriptFacts
  <2>2. n_objs' \subseteq N!ToSet(N!Script) /\ n_pc' \in {"make", "list"} /\ n_step' \in 1..4
    BY <1>3, <2>1, ScriptFacts DEF N!MakeObject
  <2> QED BY <1>3, <2>2, ScriptFacts DEF N!MakeObject
<1>4. ASSUME NEW shown \in BOOLEAN, N!List(shown) PROVE ChainTypes'
  <2>1. n_del' \subseteq Nat
    <3>1. N!Handles(n_chain) \subseteq Nat
      <4>1. \A i \in DOMAIN n_chain : n_chain[i] \in N!RuleType
        BY LenProperties, ElementOfSeq
      <4>2. \A r \in N!RuleType : r.handle \in Nat
        BY DEF N!RuleType
      <4> QED BY <4>1, <4>2 DEF N!Handles
    <3> QED BY <1>4, <3>1 DEF N!List, N!Unwanted
  <2>2. n_missing' \in BOOLEAN
    BY <1>4 DEF N!List
  <2>3. n_need' \subseteq N!Families
    BY <1>4 DEF N!List, N!NeededFor
  <2>4. n_faults' \in Nat
    BY <1>4 DEF N!List
  <2> QED BY <1>4, <2>1, <2>2, <2>3, <2>4 DEF N!List
<1>5. ASSUME NEW i \in DOMAIN n_chain, N!DeleteRule(i) PROVE ChainTypes'
  <2>1. n_chain' \in Seq(N!RuleType)
    BY <1>5, RemoveRule DEF N!DeleteRule
  <2> QED BY <1>5, <2>1 DEF N!DeleteRule
<1>6. ASSUME N!Deleted PROVE ChainTypes'
  BY <1>6 DEF N!Deleted
<1>7. ASSUME NEW f \in N!Families, N!AddRule(f) PROVE ChainTypes'
  <2>1. n_chain' \in Seq(N!RuleType)
    BY <1>7, AddRuleChain
  <2>2. n_step' \in DOMAIN N!Script /\ n_del' \subseteq Nat /\ n_need' \subseteq N!Families
    <3>1. n_step' \in {n_step, 1} /\ (n_del' = n_del \/ n_del' = {}) /\ (n_need' = n_need \/ n_need' = {})
      BY <1>7 DEF N!AddRule, N!Forget
    <3>2. n_step' \in DOMAIN N!Script
      BY <3>1, ScriptFacts
    <3>3. n_del' \subseteq Nat
      BY <3>1
    <3>4. n_need' \subseteq N!Families
      BY <3>1
    <3> QED BY <3>2, <3>3, <3>4
  <2>3. n_missing' \in BOOLEAN
    BY <1>7 DEF N!AddRule, N!Forget
  <2>4. n_pc' \in {"v6", "idle", "element"} /\ (n_pc' = "element" => n_target' # N_NoIP)
    BY <1>7 DEF N!AddRule
  <2> QED BY <1>7, <2>1, <2>2, <2>3, <2>4 DEF N!AddRule
<1>8. ASSUME N!AddElement PROVE ChainTypes'
  BY <1>8 DEF N!AddElement
<1>9. ASSUME N!Fails \/ N!Kill PROVE ChainTypes'
  <2>1. n_step' \in DOMAIN N!Script /\ n_del' \subseteq Nat /\ n_need' \subseteq N!Families
    BY <1>9, ScriptFacts DEF N!Fails, N!Kill, N!Forget
  <2>2. n_missing' \in BOOLEAN
    BY <1>9 DEF N!Fails, N!Kill, N!Forget
  <2>3. n_faults' \in Nat
    BY <1>9 DEF N!Fails, N!Kill
  <2> QED BY <1>9, <2>1, <2>2, <2>3 DEF N!Fails, N!Kill
<1>10. ASSUME NEW ip \in N_IPs, N!Unban(ip) PROVE ChainTypes'
  BY <1>10 DEF N!Unban
<1>11. ASSUME N!Reconfigure PROVE ChainTypes'
  BY <1>11 DEF N!Reconfigure
<1>12. ASSUME N!Flush PROVE ChainTypes'
  BY <1>12 DEF N!Flush
<1> QED BY <1>1, <1>2, <1>3, <1>4, <1>5, <1>6, <1>7, <1>8, <1>9, <1>10, <1>11, <1>12
        DEF N!Next, N!Daemon, N!Ensure, N!Environment

-----------------------------------------------------------------------------
\* The nft chain: handles.

LEMMA HandlesApartNext ==
  ASSUME ChainTypes, HandlesApart, N!Next PROVE HandlesApart'
<1>1. ASSUME NEW i \in DOMAIN n_chain, N!DeleteRule(i) PROVE HandlesApart'
  <2>1. n_chain' = N!RemoveAt(n_chain, i)
    BY <1>1 DEF N!DeleteRule
  <2>2. /\ DOMAIN n_chain = 1..Len(n_chain) /\ Len(n_chain) \in Nat /\ DOMAIN n_chain' = 1..(Len(n_chain) - 1)
        /\ \A j \in 1..(Len(n_chain) - 1) : n_chain'[j] = IF j < i THEN n_chain[j] ELSE n_chain[j + 1]
    BY <2>1, RemoveRule
  <2>3. SUFFICES ASSUME NEW j \in 1..(Len(n_chain) - 1), NEW k \in 1..(Len(n_chain) - 1),
                        n_chain'[j].handle = n_chain'[k].handle
                 PROVE  j = k
    BY <2>2 DEF HandlesApart
  <2> DEFINE old(m) == IF m < i THEN m ELSE m + 1
  <2>4. \A m \in 1..(Len(n_chain) - 1) : old(m) \in DOMAIN n_chain /\ n_chain'[m] = n_chain[old(m)]
    BY <2>2
  <2>5. old(j) = old(k)
    <3> HIDE DEF old
    <3> QED BY <2>3, <2>4 DEF HandlesApart
  <2> QED BY <2>2, <2>5
<1>2. ASSUME NEW f \in N!Families, N!AddRule(f), f \in n_need PROVE HandlesApart'
  <2>1. n_chain' = Append(n_chain, [family |-> f, ports |-> N!Scope(n_ports), handle |-> N!Fresh])
    BY <1>2 DEF N!AddRule
  <2>2. /\ DOMAIN n_chain = 1..Len(n_chain) /\ Len(n_chain) \in Nat /\ DOMAIN n_chain' = 1..(Len(n_chain) + 1)
        /\ \A j \in 1..Len(n_chain) : n_chain'[j] = n_chain[j]
        /\ n_chain'[Len(n_chain) + 1].handle = N!Fresh
    BY <2>1, AppendRule
  <2>3. \A j \in DOMAIN n_chain : n_chain[j].handle # N!Fresh
    BY FreshHandle
  <2>4. \A j \in DOMAIN n_chain' : j \in DOMAIN n_chain \/ j = Len(n_chain) + 1
    BY <2>2
  <2> QED BY <2>2, <2>3, <2>4 DEF HandlesApart
<1>3. ASSUME N!Flush PROVE HandlesApart'
  BY <1>3 DEF N!Flush, HandlesApart
<1>4. ASSUME n_chain' = n_chain PROVE HandlesApart'
  BY <1>4 DEF HandlesApart
<1> QED BY <1>1, <1>2, <1>3, <1>4 DEF N!Next, N!Daemon, N!Ensure, N!Environment, N!Start, N!Check, N!Ban,
        N!MakeObject, N!List, N!Deleted, N!AddRule, N!AddElement, N!Fails, N!Kill, N!Unban, N!Reconfigure, N!nft

-----------------------------------------------------------------------------
\* The nft chain: the plan and its execution.

\* What planChainRulesPorts keeps: the rules it does not remove, one for each family that has one for
\* the configured ports.
LEMMA PlanFacts ==
  ASSUME ChainTypes, HandlesApart,
         NEW U, U = N!Unwanted(n_chain, n_ports), NEW K, K = N!Kept(n_chain, n_ports),
         NEW F, F = N!NeededFor(n_chain, n_ports)
  PROVE  /\ K \subseteq DOMAIN n_chain
         /\ \A i \in DOMAIN n_chain : n_chain[i].handle \notin U <=> i \in K
         /\ \A i \in K : N!Scoped(n_chain[i], n_ports) /\ n_chain[i].family \notin F
         /\ \A i, j \in K : n_chain[i].family = n_chain[j].family => i = j
         /\ \A f \in N!Families \ F : \E i \in K : n_chain[i].family = f
         /\ \A i \in DOMAIN n_chain : N!Scoped(n_chain[i], n_ports) =>
               \E j \in K : n_chain[j].family = n_chain[i].family
<1>1. DOMAIN n_chain = 1..Len(n_chain) /\ Len(n_chain) \in Nat
  BY LenProperties DEF ChainTypes, N!TypeOK
<1>2. /\ K \subseteq DOMAIN n_chain
      /\ \A i \in K : N!Scoped(n_chain[i], n_ports)
      /\ \A i \in K : \A j \in 1..(i - 1) :
            n_chain[j].family = n_chain[i].family => ~N!Scoped(n_chain[j], n_ports)
      /\ \A i \in DOMAIN n_chain :
            /\ N!Scoped(n_chain[i], n_ports)
            /\ \A j \in 1..(i - 1) : n_chain[j].family = n_chain[i].family => ~N!Scoped(n_chain[j], n_ports)
            => i \in K
  BY DEF N!Kept
<1>3. U = N!Handles(n_chain) \ {n_chain[i].handle : i \in K}
  BY DEF N!Unwanted
<1>4. F = N!Families \ {n_chain[i].family : i \in K}
  BY DEF N!NeededFor
<1>5. \A i \in DOMAIN n_chain : n_chain[i].handle \notin U <=> i \in K
  BY <1>2, <1>3 DEF N!Handles, HandlesApart
<1>6. \A i \in K : n_chain[i].family \notin F
  BY <1>4
<1>7. \A f \in N!Families \ F : \E i \in K : n_chain[i].family = f
  BY <1>4
<1>8. ASSUME NEW i \in K, NEW j \in K, n_chain[i].family = n_chain[j].family, i < j PROVE FALSE
  <2>1. i \in 1..(j - 1)
    BY <1>1, <1>2, <1>8
  <2> QED BY <1>2, <1>8, <2>1
<1>9. \A i, j \in K : n_chain[i].family = n_chain[j].family => i = j
  <2> SUFFICES ASSUME NEW i \in K, NEW j \in K, n_chain[i].family = n_chain[j].family PROVE i = j
    OBVIOUS
  <2>1. i \in Nat /\ j \in Nat
    BY <1>1, <1>2
  <2>2. ~(i < j) /\ ~(j < i)
    BY <1>8
  <2> QED BY <2>1, <2>2
<1>10. ASSUME NEW i \in DOMAIN n_chain, N!Scoped(n_chain[i], n_ports)
       PROVE  \E j \in K : n_chain[j].family = n_chain[i].family
  <2> DEFINE T == {j \in DOMAIN n_chain : N!Scoped(n_chain[j], n_ports) /\ n_chain[j].family = n_chain[i].family}
  <2>1. i \in T /\ T \subseteq DOMAIN n_chain
    BY <1>10
  <2>2. T \subseteq Nat
    BY <1>1
  <2>3. PICK j \in T : \A k \in T : j <= k
    <3> HIDE DEF T
    <3> QED BY <2>1, <2>2, LeastExists
  <2>4. \A k \in 1..(j - 1) : k \in DOMAIN n_chain /\ ~(j <= k)
    BY <1>1, <2>3
  <2>5. j \in K
    BY <1>2, <2>3, <2>4
  <2> QED BY <2>3, <2>5
<1> QED BY <1>2, <1>5, <1>6, <1>7, <1>9, <1>10

\* Deleting a rule of the plan changes nothing about those that stay.
LEMMA DeleteKeeps ==
  ASSUME ChainTypes, HandlesApart, NEW i \in DOMAIN n_chain, N!DeleteRule(i)
  PROVE  /\ \A j \in DOMAIN n_chain' : Stays(j)' =>
               \E k \in DOMAIN n_chain : Stays(k) /\ n_chain[k] = n_chain'[j]
         /\ \A k \in DOMAIN n_chain : Stays(k) =>
               \E j \in DOMAIN n_chain' : Stays(j)' /\ n_chain[k] = n_chain'[j]
         /\ \A j \in DOMAIN n_chain' : \E k \in DOMAIN n_chain : n_chain[k] = n_chain'[j]
<1>1. n_chain' = N!RemoveAt(n_chain, i) /\ n_del' = n_del \ {n_chain[i].handle} /\ n_chain[i].handle \in n_del
  BY DEF N!DeleteRule
<1>2. /\ DOMAIN n_chain = 1..Len(n_chain) /\ Len(n_chain) \in Nat /\ DOMAIN n_chain' = 1..(Len(n_chain) - 1)
      /\ \A j \in 1..(Len(n_chain) - 1) : n_chain'[j] = IF j < i THEN n_chain[j] ELSE n_chain[j + 1]
  BY <1>1, RemoveRule
<1> DEFINE old(m) == IF m < i THEN m ELSE m + 1
           new(m) == IF m < i THEN m ELSE m - 1
<1>3. \A m \in DOMAIN n_chain' : old(m) \in DOMAIN n_chain /\ old(m) # i /\ n_chain'[m] = n_chain[old(m)]
  BY <1>2
<1>4. \A m \in DOMAIN n_chain : m # i => new(m) \in DOMAIN n_chain' /\ n_chain[m] = n_chain'[new(m)]
  BY <1>2
<1> HIDE DEF old, new
<1>5. ASSUME NEW j \in DOMAIN n_chain', Stays(j)' PROVE Stays(old(j))
  <2>1. n_chain[old(j)].handle # n_chain[i].handle
    BY <1>3 DEF HandlesApart
  <2> QED BY <1>1, <1>3, <1>5, <2>1 DEF Stays
<1>6. ASSUME NEW k \in DOMAIN n_chain, Stays(k) PROVE k # i /\ Stays(new(k))'
  <2>1. k # i
    BY <1>1, <1>6 DEF Stays
  <2> QED BY <1>1, <1>4, <1>6, <2>1 DEF Stays
<1>7. \A j \in DOMAIN n_chain' : Stays(j)' => \E k \in DOMAIN n_chain : Stays(k) /\ n_chain[k] = n_chain'[j]
  BY <1>3, <1>5
<1>8. \A k \in DOMAIN n_chain : Stays(k) => \E j \in DOMAIN n_chain' : Stays(j)' /\ n_chain[k] = n_chain'[j]
  BY <1>4, <1>6
<1>9. \A j \in DOMAIN n_chain' : \E k \in DOMAIN n_chain : n_chain[k] = n_chain'[j]
  BY <1>3
<1> QED BY <1>7, <1>8, <1>9
\* The plan describes a narrowed chain.
LEMMA ListNarrows ==
  ASSUME ChainTypes, HandlesApart, NEW shown \in BOOLEAN, N!List(shown)
  PROVE  (~n_missing' => Narrowed(n_need)') /\ SpareRule'
<1>1. /\ n_del' = IF shown THEN N!Unwanted(n_chain, n_ports) ELSE {}
      /\ n_missing' = (~shown /\ N!Unwanted(n_chain, n_ports) # {})
      /\ n_need' = N!NeededFor(n_chain, n_ports)
      /\ n_chain' = n_chain /\ n_ports' = n_ports
  BY DEF N!List, N!nft
<1> DEFINE U == N!Unwanted(n_chain, n_ports)
           K == N!Kept(n_chain, n_ports)
           F == N!NeededFor(n_chain, n_ports)
<1>2. /\ K \subseteq DOMAIN n_chain
      /\ \A i \in DOMAIN n_chain : n_chain[i].handle \notin U <=> i \in K
      /\ \A i \in K : N!Scoped(n_chain[i], n_ports) /\ n_chain[i].family \notin F
      /\ \A i, j \in K : n_chain[i].family = n_chain[j].family => i = j
      /\ \A f \in N!Families \ F : \E i \in K : n_chain[i].family = f
      /\ \A i \in DOMAIN n_chain : N!Scoped(n_chain[i], n_ports) =>
            \E j \in K : n_chain[j].family = n_chain[i].family
  <2> HIDE DEF U, K, F
  <2> QED BY PlanFacts DEF U, K, F
<1> HIDE DEF K
<1>3. ASSUME ~n_missing' PROVE n_del' = U
  BY <1>1, <1>3
<1>4. ASSUME n_del' = U PROVE Narrowed(n_need)'
  <2>1. \A i \in DOMAIN n_chain : Stays(i)' <=> i \in K
    BY <1>1, <1>2, <1>4 DEF Stays
  <2>2. \A i \in DOMAIN n_chain : Stays(i)' => N!Scoped(n_chain[i], n_ports) /\ n_chain[i].family \notin F
    BY <1>2, <2>1
  <2>3. \A i, j \in DOMAIN n_chain : Stays(i)' /\ Stays(j)' /\ n_chain[i].family = n_chain[j].family => i = j
    BY <1>2, <2>1
  <2>4. \A f \in N!Families \ F : \E i \in DOMAIN n_chain : Stays(i)' /\ n_chain[i].family = f
    BY <1>2, <2>1
  <2>5. n_need' = F /\ n_chain' = n_chain /\ n_ports' = n_ports
    BY <1>1
  <2> HIDE DEF F, U
  <2> QED BY <2>2, <2>3, <2>4, <2>5 DEF Narrowed, N!Scoped
<1>5. SpareRule'
  <2>1. SUFFICES ASSUME NEW i \in DOMAIN n_chain, N!Scoped(n_chain[i], n_ports) \/ n_chain[i].family \notin F
                 PROVE  \E j \in DOMAIN n_chain :
                          Stays(j)' /\ N!Scoped(n_chain[j], n_ports) /\ n_chain[j].family = n_chain[i].family
    BY <1>1 DEF SpareRule, N!Scoped
  <2>2. PICK j \in K : n_chain[j].family = n_chain[i].family
    <3>1. n_chain[i].family \in N!Families
      <4>1. n_chain[i] \in N!RuleType
        BY LenProperties, ElementOfSeq DEF ChainTypes, N!TypeOK
      <4> QED BY <4>1 DEF N!RuleType
    <3> HIDE DEF F
    <3> QED BY <1>2, <2>1, <3>1
  <2>3. j \in DOMAIN n_chain /\ N!Scoped(n_chain[j], n_ports) /\ Stays(j)'
    BY <1>1, <1>2 DEF Stays
  <2> QED BY <2>2, <2>3
<1> QED BY <1>3, <1>4, <1>5

\* A deletion keeps the chain narrowed.
LEMMA DeleteNarrowed ==
  ASSUME ChainTypes, HandlesApart, NEW i \in DOMAIN n_chain, N!DeleteRule(i), Narrowed(n_need)
  PROVE  Narrowed(n_need)'
<1>1. n_ports' = n_ports /\ n_need' = n_need /\ HandlesApart'
  BY HandlesApartNext DEF N!DeleteRule, N!Next, N!Daemon, N!Ensure
<1>2. ASSUME NEW j \in DOMAIN n_chain', Stays(j)'
      PROVE  N!Scoped(n_chain'[j], n_ports) /\ n_chain'[j].family \notin n_need
  BY <1>2, DeleteKeeps DEF Narrowed, N!Scoped
<1>3. ASSUME NEW j \in DOMAIN n_chain', NEW k \in DOMAIN n_chain', Stays(j)', Stays(k)',
             n_chain'[j].family = n_chain'[k].family
      PROVE  j = k
  <2>1. PICK a \in DOMAIN n_chain : Stays(a) /\ n_chain[a] = n_chain'[j]
    BY <1>3, DeleteKeeps
  <2>2. PICK b \in DOMAIN n_chain : Stays(b) /\ n_chain[b] = n_chain'[k]
    BY <1>3, DeleteKeeps
  <2>3. a = b
    BY <1>3, <2>1, <2>2 DEF Narrowed
  <2>4. n_chain'[j].handle = n_chain'[k].handle
    BY <2>1, <2>2, <2>3
  <2> QED BY <1>1, <2>4 DEF HandlesApart
<1>4. ASSUME NEW f \in N!Families \ n_need
      PROVE  \E j \in DOMAIN n_chain' : Stays(j)' /\ n_chain'[j].family = f
  <2>1. PICK a \in DOMAIN n_chain : Stays(a) /\ n_chain[a].family = f
    BY <1>4 DEF Narrowed
  <2>2. PICK j \in DOMAIN n_chain' : Stays(j)' /\ n_chain[a] = n_chain'[j]
    BY <2>1, DeleteKeeps
  <2> QED BY <2>1, <2>2
<1> QED BY <1>1, <1>2, <1>3, <1>4 DEF Narrowed, N!Scoped

\* The rule of a family in F completes the chain but for the others in F.
LEMMA AddNarrowed ==
  ASSUME ChainTypes, NEW F, Narrowed(F), n_del = {}, n_del' = {},
         NEW f \in N!Families, N!AddRule(f), f \in F <=> f \in n_need
  PROVE  Narrowed(F \ {f})'
<1>1. n_ports' = n_ports
  BY DEF N!AddRule
<1>2. (\A i : Stays(i)) /\ (\A i : Stays(i)')
  BY DEF Stays
<1>3. CASE f \in n_need
  <2>1. n_chain' = Append(n_chain, [family |-> f, ports |-> N!Scope(n_ports), handle |-> N!Fresh])
    BY <1>3 DEF N!AddRule
  <2> DEFINE n == Len(n_chain) + 1
  <2>2. /\ DOMAIN n_chain = 1..Len(n_chain) /\ Len(n_chain) \in Nat /\ DOMAIN n_chain' = 1..n
        /\ \A j \in 1..Len(n_chain) : n_chain'[j] = n_chain[j]
        /\ n_chain'[n].family = f /\ n_chain'[n].ports = N!Scope(n_ports)
    BY <2>1, AppendRule
  <2>3. /\ n \in DOMAIN n_chain' /\ \A j \in DOMAIN n_chain : j \in DOMAIN n_chain' /\ n_chain'[j] = n_chain[j]
        /\ \A j \in DOMAIN n_chain' : j \in DOMAIN n_chain \/ j = n
    BY <2>2
  <2> HIDE DEF n
  <2>4. \A j \in DOMAIN n_chain : n_chain[j].family # f
    BY <1>2, <1>3 DEF Narrowed
  <2>5. \A j \in DOMAIN n_chain' : N!Scoped(n_chain'[j], n_ports) /\ n_chain'[j].family \notin F \ {f}
    BY <1>2, <2>2, <2>3 DEF Narrowed, N!Scoped
  <2>6. \A j, k \in DOMAIN n_chain' : n_chain'[j].family = n_chain'[k].family => j = k
    BY <1>2, <2>2, <2>3, <2>4 DEF Narrowed
  <2>7. \A g \in N!Families \ (F \ {f}) : \E j \in DOMAIN n_chain' : n_chain'[j].family = g
    <3> SUFFICES ASSUME NEW g \in N!Families \ (F \ {f})
                 PROVE  \E j \in DOMAIN n_chain' : n_chain'[j].family = g
      OBVIOUS
    <3>1. CASE g = f
      BY <2>2, <2>3, <3>1
    <3>2. CASE g # f
      BY <2>3, <3>2 DEF Narrowed
    <3> QED BY <3>1, <3>2
  <2> QED BY <1>1, <1>2, <2>5, <2>6, <2>7 DEF Narrowed, N!Scoped
<1>4. CASE f \notin n_need
  <2>1. n_chain' = n_chain /\ F \ {f} = F
    BY <1>4 DEF N!AddRule
  <2> QED BY <1>1, <1>2, <2>1 DEF Narrowed, N!Scoped
<1> QED BY <1>3, <1>4

LEMMA ProgressNext ==
  ASSUME ChainTypes, HandlesApart, Progress, N!Next PROVE Progress'
<1>1. ASSUME n_pc' \notin {"delete", "v4", "v6", "element"} PROVE Progress'
  BY <1>1 DEF Progress
<1>2. ASSUME NEW shown \in BOOLEAN, N!List(shown) PROVE Progress'
  <2>1. n_pc' = "delete"
    BY <1>2 DEF N!List
  <2>2. ~n_missing' => Narrowed(n_need)'
    BY <1>2, ListNarrows
  <2> QED BY <2>1, <2>2 DEF Progress
<1>3. ASSUME NEW i \in DOMAIN n_chain, N!DeleteRule(i) PROVE Progress'
  <2>1. n_pc = "delete" /\ n_pc' = "delete" /\ n_objs' = n_objs /\ n_missing' = n_missing
    BY <1>3 DEF N!DeleteRule
  <2>2. Narrowed(n_need) => Narrowed(n_need)'
    BY <1>3, DeleteNarrowed
  <2> QED BY <2>1, <2>2 DEF Progress
<1>4. ASSUME N!Deleted PROVE Progress'
  <2>1. /\ n_pc = "delete" /\ n_pc' = "v4" /\ n_del' = {} /\ ~n_missing /\ n_objs' = n_objs
        /\ n_chain' = n_chain /\ n_ports' = n_ports /\ n_del' = n_del /\ n_need' = n_need
    BY <1>4 DEF N!Deleted, N!nft, N!plan
  <2>2. Narrowed(n_need) => Narrowed(n_need)'
    BY <2>1 DEF Narrowed, Stays, N!Scoped
  <2> QED BY <2>1, <2>2 DEF Progress
<1>5. ASSUME N!AddRule("v4") PROVE Progress'
  <2>1. n_pc = "v4" /\ n_pc' = "v6" /\ n_del' = n_del /\ n_objs' = n_objs /\ n_need' = n_need
    BY <1>5 DEF N!AddRule, N!plan
  <2>2. n_del = {}
    BY <2>1 DEF Progress
  <2>3. Narrowed(n_need) => Narrowed(n_need \ {"v4"})'
    <3>1. PICK F : F = n_need
      OBVIOUS
    <3>2. Narrowed(F) => Narrowed(F \ {"v4"})'
      BY <1>5, <2>1, <2>2, <3>1, AddNarrowed DEF N!Families
    <3> QED BY <2>1, <3>1, <3>2 DEF Narrowed
  <2> QED BY <2>1, <2>2, <2>3 DEF Progress
<1>6. ASSUME N!AddRule("v6") PROVE Progress'
  <2>1. n_pc = "v6" /\ n_pc' \in {"idle", "element"} /\ n_del' = {} /\ n_objs' = n_objs
    BY <1>6 DEF N!AddRule, N!Forget
  <2>2. n_del = {}
    BY <2>1 DEF Progress
  <2>3. Narrowed(n_need \ {"v4"}) => Narrowed({})'
    <3>1. PICK F : F = n_need \ {"v4"}
      OBVIOUS
    <3>2. Narrowed(F) => Narrowed(F \ {"v6"})'
      BY <1>6, <2>1, <2>2, <3>1, AddNarrowed DEF N!Families
    <3>3. F \ {"v6"} = {}
      BY <3>1 DEF ChainTypes, N!TypeOK, N!Families
    <3> QED BY <3>1, <3>2, <3>3
  <2> QED BY <2>1, <2>2, <2>3 DEF Progress
<1>7. ASSUME N!Flush PROVE Progress'
  BY <1>7 DEF N!Flush, N!plan, Progress
<1>8. ASSUME NEW ip \in N_IPs, N!Unban(ip) PROVE Progress'
  <2>1. /\ n_pc' = n_pc /\ n_del' = n_del /\ n_objs' = n_objs /\ n_missing' = n_missing
        /\ n_chain' = n_chain /\ n_ports' = n_ports /\ n_need' = n_need
    BY <1>8 DEF N!Unban, N!plan
  <2> QED BY <2>1 DEF Progress, Narrowed, Stays, N!Scoped
<1>9. ASSUME \/ N!Start \/ N!Check \/ N!MakeObject \/ N!AddElement \/ N!Fails \/ N!Kill \/ N!Reconfigure
             \/ \E ip \in N_IPs : N!Ban(ip)
      PROVE  Progress'
  <2>1. n_pc' \notin {"delete", "v4", "v6", "element"}
    BY <1>9 DEF N!Start, N!Check, N!Ban, N!MakeObject, N!AddElement, N!Fails, N!Kill, N!Reconfigure
  <2> QED BY <1>1, <2>1
<1> QED BY <1>2, <1>3, <1>4, <1>5, <1>6, <1>7, <1>8, <1>9
        DEF N!Next, N!Daemon, N!Ensure, N!Environment, N!Families
LEMMA SpareRuleNext ==
  ASSUME ChainTypes, HandlesApart, SpareRule, N!Next PROVE SpareRule'
<1>1. ASSUME n_pc' # "delete" PROVE SpareRule'
  BY <1>1 DEF SpareRule
<1>2. ASSUME NEW shown \in BOOLEAN, N!List(shown) PROVE SpareRule'
  BY <1>2, ListNarrows
<1>3. ASSUME NEW i \in DOMAIN n_chain, N!DeleteRule(i) PROVE SpareRule'
  <2>1. n_pc = "delete" /\ n_ports' = n_ports /\ n_need' = n_need
    BY <1>3 DEF N!DeleteRule
  <2>2. SUFFICES ASSUME NEW j \in DOMAIN n_chain',
                        N!Scoped(n_chain'[j], n_ports) \/ n_chain'[j].family \notin n_need
                 PROVE  \E k \in DOMAIN n_chain' :
                          Stays(k)' /\ N!Scoped(n_chain'[k], n_ports) /\ n_chain'[k].family = n_chain'[j].family
    BY <2>1 DEF SpareRule, N!Scoped
  <2>3. PICK a \in DOMAIN n_chain : n_chain[a] = n_chain'[j]
    BY <1>3, DeleteKeeps
  <2>4. PICK b \in DOMAIN n_chain :
          Stays(b) /\ N!Scoped(n_chain[b], n_ports) /\ n_chain[b].family = n_chain[a].family
    BY <2>1, <2>2, <2>3 DEF SpareRule
  <2>5. PICK k \in DOMAIN n_chain' : Stays(k)' /\ n_chain[b] = n_chain'[k]
    BY <1>3, <2>4, DeleteKeeps
  <2> QED BY <2>3, <2>4, <2>5
<1>4. ASSUME N!Flush PROVE SpareRule'
  BY <1>4 DEF N!Flush, SpareRule
<1>5. ASSUME NEW ip \in N_IPs, N!Unban(ip) PROVE SpareRule'
  <2>1. n_pc' = n_pc /\ n_del' = n_del /\ n_need' = n_need /\ n_chain' = n_chain /\ n_ports' = n_ports
    BY <1>5 DEF N!Unban, N!plan
  <2> QED BY <2>1 DEF SpareRule, Stays, N!Scoped
<1>6. ASSUME \/ N!Start \/ N!Check \/ N!MakeObject \/ N!Deleted \/ N!AddElement \/ N!Fails \/ N!Kill
             \/ N!Reconfigure \/ (\E ip \in N_IPs : N!Ban(ip)) \/ (\E f \in N!Families : N!AddRule(f))
      PROVE  SpareRule'
  <2>1. n_pc' # "delete"
    BY <1>6 DEF N!Start, N!Check, N!Ban, N!MakeObject, N!Deleted, N!AddRule, N!AddElement, N!Fails, N!Kill,
       N!Reconfigure
  <2> QED BY <1>1, <2>1
<1> QED BY <1>2, <1>3, <1>4, <1>5, <1>6 DEF N!Next, N!Daemon, N!Ensure, N!Environment

-----------------------------------------------------------------------------
\* The nft chain: the theorems.

\* A step of the whole is a step of each part, or leaves it alone.
LEMMA StepsOfParts ==
  ASSUME [PartsNext]_all
  PROVE  (Next \/ UNCHANGED vars) /\ (L!Next \/ UNCHANGED l_vars) /\ (N!Next \/ UNCHANGED n_vars)
BY DEF PartsNext, InLog, InChain, InAlerts, Rest, all

LEMMA ChainInvInit ==
  ASSUME PartsInit PROVE ChainInv
<1>1. N!Init
  BY DEF PartsInit
<1>2. ChainTypes
  BY <1>1, ChainTypesInit
<1>3. HandlesApart
  <2>1. CASE n_chain = <<>>
    BY <2>1 DEF HandlesApart
  <2>2. CASE n_chain \in N!LegacyChains
    <3>1. PICK n \in 0..N_MaxLegacy :
            /\ n_chain \in [1..n -> [family : N!Families, ports : {N_Ports, {N_Default}}, handle : 1..n]]
            /\ \A i \in 1..n : n_chain[i].handle = i
      BY <2>2 DEF N!LegacyChains
    <3> QED BY <3>1 DEF HandlesApart
  <2> QED BY <1>1, <2>1, <2>2 DEF N!Init
<1>4. n_pc = "down"
  BY <1>1 DEF N!Init
<1> QED BY <1>2, <1>3, <1>4 DEF ChainInv, Progress, SpareRule

LEMMA ChainInvNext ==
  ASSUME ChainInv, N!Next \/ UNCHANGED n_vars PROVE ChainInv'
<1>1. CASE N!Next
  BY <1>1, ChainTypesNext, HandlesApartNext, ProgressNext, SpareRuleNext DEF ChainInv
<1>2. CASE UNCHANGED n_vars
  <2>1. ChainTypes'
    BY <1>2 DEF n_vars, ChainInv, ChainTypes, N!TypeOK
  <2>2. HandlesApart'
    BY <1>2 DEF n_vars, ChainInv, HandlesApart
  <2>3. Progress'
    BY <1>2 DEF n_vars, ChainInv, Progress, Narrowed, Stays, N!Scoped
  <2>4. SpareRule'
    BY <1>2 DEF n_vars, ChainInv, SpareRule, Stays, N!Scoped
  <2> QED BY <2>1, <2>2, <2>3, <2>4 DEF ChainInv
<1> QED BY <1>1, <1>2

THEOREM ChainInvariant == PartsSpec => []ChainInv
<1>1. PartsInit => ChainInv
  BY ChainInvInit
<1>2. ChainInv /\ [PartsNext]_all => ChainInv'
  BY ChainInvNext, StepsOfParts
<1> QED BY <1>1, <1>2, PTL DEF PartsSpec

LEMMA TwoFamilies ==
  N!Cardinality(N!Families) = 2
<1>1. IsFiniteSet({"v4"}) /\ Cardinality({"v4"}) = 1
  BY FS_Singleton
<1>2. "v6" \notin {"v4"}
  OBVIOUS
<1>3. Cardinality({"v4"} \cup {"v6"}) = 2
  BY <1>1, <1>2, FS_AddElement
<1>4. N!Families = {"v4"} \cup {"v6"}
  BY DEF N!Families
<1>5. N!Cardinality(N!Families) = Cardinality(N!Families)
  BY DEF Cardinality, N!Cardinality
<1> QED BY <1>3, <1>4, <1>5

\* A chain with one rule for each family has as many rules as there are families.
LEMMA OneForEach ==
  ASSUME NEW ch \in Seq(N!RuleType),
         \A i, j \in DOMAIN ch : ch[i].family = ch[j].family => i = j,
         \A f \in N!Families : \E i \in DOMAIN ch : ch[i].family = f
  PROVE  Len(ch) = N!Cardinality(N!Families)
<1>1. DOMAIN ch = 1..Len(ch) /\ Len(ch) \in Nat
  BY LenProperties
<1>2. \A i \in DOMAIN ch : ch[i].family \in {"v4", "v6"}
  <2>1. \A i \in DOMAIN ch : ch[i] \in N!RuleType
    BY <1>1, ElementOfSeq
  <2> QED BY <2>1 DEF N!RuleType, N!Families
<1>3. PICK a \in DOMAIN ch : ch[a].family = "v4"
  BY DEF N!Families
<1>4. PICK b \in DOMAIN ch : ch[b].family = "v6"
  BY DEF N!Families
<1>5. a # b /\ \A i \in DOMAIN ch : i = a \/ i = b
  BY <1>2, <1>3, <1>4
<1>6. Len(ch) = 2
  <2>1. Len(ch) >= 2
    BY <1>1, <1>5
  <2>2. ~(Len(ch) >= 3)
    <3> SUFFICES ASSUME Len(ch) >= 3 PROVE FALSE
      OBVIOUS
    <3>1. 1 \in DOMAIN ch /\ 2 \in DOMAIN ch /\ 3 \in DOMAIN ch
      BY <1>1
    <3> QED BY <1>5, <3>1
  <2> QED BY <1>1, <2>1, <2>2
<1> QED BY <1>6, TwoFamilies

\* When the element is added, unless the ruleset was flushed, the chain is what it should be.
LEMMA NarrowedIsExact ==
  ASSUME ChainTypes, n_del = {}, Narrowed({}) PROVE N!Exact
<1>1. /\ \A i \in DOMAIN n_chain : N!Scoped(n_chain[i], n_ports)
      /\ \A i, j \in DOMAIN n_chain : n_chain[i].family = n_chain[j].family => i = j
      /\ \A f \in N!Families : \E i \in DOMAIN n_chain : n_chain[i].family = f
  BY DEF Narrowed, Stays
<1>2. Len(n_chain) = N!Cardinality(N!Families)
  BY <1>1, OneForEach DEF ChainTypes, N!TypeOK
<1> QED BY <1>1, <1>2 DEF N!Exact, N!Scoped

\* ensureNFTPorts and applyAuto: whatever an older version or a failure left, whoever flushes the
\* ruleset or kills the process, an address is blocked only once the chain drops it on the
\* configured ports and on no other.
THEOREM EnforcedHolds == PartsSpec => Enforced
<1>1. ASSUME ChainInv, N!Next \/ UNCHANGED n_vars PROVE n_blocked' \subseteq n_blocked \/ N!Exact
  <2>1. CASE N!AddElement
    <3>1. n_pc = "element" /\ n_objs # {}
      BY <2>1 DEF N!AddElement, N!Dangling
    <3>2. Narrowed({}) /\ n_del = {} /\ ChainTypes
      BY <1>1, <3>1 DEF ChainInv, Progress
    <3> QED BY <3>2, NarrowedIsExact
  <2>2. CASE ~N!AddElement
    BY <1>1, <2>2 DEF N!Next, N!Daemon, N!Ensure, N!Environment, N!Start, N!Check, N!Ban, N!MakeObject, N!List,
       N!DeleteRule, N!Deleted, N!AddRule, N!Fails, N!Kill, N!Unban, N!Reconfigure, N!Flush, N!nft, n_vars
  <2> QED BY <2>1, <2>2
<1>2. ChainInv /\ [PartsNext]_all => [n_blocked' \subseteq n_blocked \/ N!Exact]_(N!vars)
  BY <1>1, StepsOfParts
<1> QED BY <1>2, ChainInvariant, PTL DEF PartsSpec, Enforced, N!Enforced

\* A command of ensureNFTPorts removes nothing but a rule of the plan.
LEMMA DaemonCommands ==
  ASSUME ChainInv, N!Daemon
  PROVE  /\ n_ports' = n_ports
         /\ \/ n_pc = "delete" /\ n_need' = n_need /\ \E i \in DOMAIN n_chain : N!DeleteRule(i)
            \/ \A j \in DOMAIN n_chain : j \in DOMAIN n_chain' /\ n_chain'[j] = n_chain[j]
<1>1. CASE \E i \in DOMAIN n_chain : N!DeleteRule(i)
  BY <1>1 DEF N!DeleteRule
<1>2. CASE \E f \in N!Families : N!AddRule(f) /\ f \in n_need
  <2>1. PICK f \in N!Families : N!AddRule(f) /\ f \in n_need
    BY <1>2
  <2>2. /\ n_chain' = Append(n_chain, [family |-> f, ports |-> N!Scope(n_ports), handle |-> N!Fresh])
        /\ n_ports' = n_ports
    BY <2>1 DEF N!AddRule
  <2> QED BY <2>2, AppendRule DEF ChainInv
<1>3. CASE n_chain' = n_chain /\ n_ports' = n_ports
  BY <1>3
<1> QED BY <1>1, <1>2, <1>3 DEF N!Daemon, N!Ensure, N!Check, N!MakeObject, N!List,
        N!Deleted, N!AddRule, N!AddElement, N!Fails, N!nft

\* A family whose rules the plan does not replace keeps one for the configured ports.
LEMMA FamilyKept ==
  ASSUME ChainInv, N!Daemon, NEW a \in DOMAIN n_chain,
         N!Scoped(n_chain[a], n_ports) \/ n_chain[a].family \notin n_need'
  PROVE  \E k \in DOMAIN n_chain' :
            /\ n_chain'[k].family = n_chain[a].family
            /\ N!Scoped(n_chain'[k], n_ports) \/ n_chain'[k] = n_chain[a]
<1>1. CASE n_pc = "delete" /\ n_need' = n_need /\ \E i \in DOMAIN n_chain : N!DeleteRule(i)
  <2>1. PICK i \in DOMAIN n_chain : N!DeleteRule(i)
    BY <1>1
  <2>2. PICK b \in DOMAIN n_chain :
          Stays(b) /\ N!Scoped(n_chain[b], n_ports) /\ n_chain[b].family = n_chain[a].family
    BY <1>1 DEF ChainInv, SpareRule
  <2>3. PICK k \in DOMAIN n_chain' : n_chain[b] = n_chain'[k]
    BY <2>1, <2>2, DeleteKeeps DEF ChainInv
  <2> QED BY <2>2, <2>3
<1>2. CASE \A j \in DOMAIN n_chain : j \in DOMAIN n_chain' /\ n_chain'[j] = n_chain[j]
  BY <1>2
<1> QED BY <1>1, <1>2, DaemonCommands

\* A run of ensureNFTPorts that comes to its end has brought the chain up to date.
LEMMA RunEnds ==
  ASSUME ChainInv, N!AddRule("v6"), n_objs # {} PROVE N!Exact'
<1>1. n_pc = "v6" /\ n_objs' = n_objs /\ n_del' = {}
  BY DEF N!AddRule, N!Forget
<1>2. n_del = {} /\ Narrowed(n_need \ {"v4"})
  BY <1>1 DEF ChainInv, Progress
<1>3. Narrowed({})'
  <2>1. PICK F : F = n_need \ {"v4"}
    OBVIOUS
  <2>2. "v6" \in N!Families /\ ("v6" \in F <=> "v6" \in n_need) /\ F \ {"v6"} = {}
    BY <2>1 DEF ChainInv, ChainTypes, N!TypeOK, N!Families
  <2>3. Narrowed(F \ {"v6"})'
    BY <1>1, <1>2, <2>1, <2>2, AddNarrowed DEF ChainInv
  <2> QED BY <2>2, <2>3
<1>4. n_chain' \in Seq(N!RuleType)
  BY AddRuleChain DEF ChainInv, N!Families
<1>5. PICK ch : ch = n_chain'
  OBVIOUS
<1>6. /\ \A i \in DOMAIN ch : N!Scoped(ch[i], n_ports')
      /\ \A i, j \in DOMAIN ch : ch[i].family = ch[j].family => i = j
      /\ \A f \in N!Families : \E i \in DOMAIN ch : ch[i].family = f
  BY <1>1, <1>3, <1>5 DEF Narrowed, Stays, N!Scoped
<1>7. Len(ch) = N!Cardinality(N!Families)
  BY <1>4, <1>5, <1>6, OneForEach
<1> QED BY <1>5, <1>6, <1>7 DEF N!Exact, N!Scoped

\* ensureNFTPorts: no command takes its rule from a family that has one for the configured ports, nor
\* opens an SSH port to the addresses of a family that is not about to get its rule, and a run that
\* ends without an error leaves every family its rule, unless the ruleset was flushed meanwhile.
\* Between the deletion of a rule of an old version and the addition of the new one the theorem
\* leaves the family open, as the code does.
THEOREM ProtectedStaysHolds == PartsSpec => ProtectedStays
<1> DEFINE Keeps ==
      N!Daemon =>
        /\ N!Protected(n_chain) \subseteq N!Protected(n_chain')
        /\ \A f \in N!Families \ n_need', p \in N!Scope(n_ports) :
              <<f, p>> \in N!Dropped(n_chain) => <<f, p>> \in N!Dropped(n_chain')
        /\ N!AddRule("v6") /\ n_objs # {} => N!Exact'
<1>1. ASSUME ChainInv, N!Daemon PROVE N!Protected(n_chain) \subseteq N!Protected(n_chain')
  <2>1. SUFFICES ASSUME NEW a \in DOMAIN n_chain, N!Scoped(n_chain[a], n_ports)
                 PROVE  n_chain[a].family \in N!Protected(n_chain')
    BY DEF N!Protected
  <2>2. PICK k \in DOMAIN n_chain' : n_chain'[k].family = n_chain[a].family /\ N!Scoped(n_chain'[k], n_ports)
    BY <1>1, <2>1, FamilyKept
  <2> QED BY <2>2 DEF N!Protected
<1>2. ASSUME ChainInv, N!Daemon, NEW f \in N!Families \ n_need', NEW p \in N!Scope(n_ports),
             <<f, p>> \in N!Dropped(n_chain)
      PROVE  <<f, p>> \in N!Dropped(n_chain')
  <2>1. PICK a \in DOMAIN n_chain : n_chain[a].family = f /\ p \in n_chain[a].ports
    BY <1>2 DEF N!Dropped
  <2>2. PICK k \in DOMAIN n_chain' :
          n_chain'[k].family = f /\ (N!Scoped(n_chain'[k], n_ports) \/ n_chain'[k] = n_chain[a])
    BY <1>2, <2>1, FamilyKept
  <2>3. p \in n_chain'[k].ports
    BY <1>2, <2>1, <2>2 DEF N!Scoped
  <2> QED BY <2>2, <2>3 DEF N!Dropped
<1>3. ChainInv => Keeps
  BY <1>1, <1>2, RunEnds
<1> HIDE DEF Keeps
<1>4. ChainInv /\ [PartsNext]_all => [Keeps]_(N!vars)
  BY <1>3
<1>5. PartsSpec => [][Keeps]_(N!vars)
  BY <1>4, ChainInvariant, PTL DEF PartsSpec
<1> QED BY <1>5 DEF Keeps, ProtectedStays, N!ProtectedStays
-----------------------------------------------------------------------------
\* The cursor: the inductive invariant.

Current == l_files[l_path]
EndAt(c, i) == i \in DOMAIN c /\ c[i].end

\* The records are whole: a file begins with a record, and each record begins where one has ended.
Begins(c, i) == i = 0 \/ EndAt(c, i)

\* A file c of records with these sizes: each ends once and has its size; the last one may be
\* incomplete, and lacks op units.
WholeFile(c, sizes, op) ==
    /\ \A i \in DOMAIN c : c[i].rec \in 1..Len(sizes)
    /\ \A i \in DOMAIN c : EndAt(c, i) => i - sizes[c[i].rec] \in Nat /\ Begins(c, i - sizes[c[i].rec])
    /\ \A i, j \in DOMAIN c : EndAt(c, i) /\ EndAt(c, j) /\ c[i].rec = c[j].rec => i = j
    /\ op = 0 => Begins(c, Len(c))
    /\ op # 0 =>
         /\ Len(c) - (sizes[Len(sizes)] - op) \in Nat /\ Begins(c, Len(c) - (sizes[Len(sizes)] - op))
         /\ \A i \in DOMAIN c : EndAt(c, i) => c[i].rec # Len(sizes)

\* The file at the path is one.
Whole ==
    /\ Len(l_sizes) <= L_MaxRecords /\ (l_path = L!None => l_open = 0)
    /\ l_open # 0 => Len(l_sizes) # 0 /\ l_open < l_sizes[Len(l_sizes)]
    /\ l_path # L!None => WholeFile(Current, l_sizes, l_open)

\* What has not ended yet was not read.
Unread ==
    \A r \in 1..L_MaxRecords : r > Len(l_sizes) \/ (l_open # 0 /\ r = Len(l_sizes)) => l_reads[r] = 0

\* Neither was what lies ahead of the cursor, which stands in the file it knows, unless it is beyond its end.
Ahead ==
    l_path # L!None =>
        \A i \in DOMAIN Current :
            EndAt(Current, i) /\ ~(l_id = l_path /\ i <= l_offset /\ l_offset <= Len(Current))
                => l_reads[Current[i].rec] = 0

\* Between the steps of a scan the file is the one it looked at; in the file it knows, the cursor
\* answers for nothing up to where it is beyond the end.
Known ==
    /\ l_pc # "idle" /\ l_path # L!None => l_id = l_path
    /\ l_id # L!None =>
         /\ l_offset > Len(l_files[l_id]) => l_start[1] = l_id /\ l_start[2] >= l_offset
         /\ \A i \in DOMAIN l_files[l_id] : l_files[l_id][i].rec \in 1..Len(l_sizes)

CursorInv == L!TypeOK /\ Whole /\ Unread /\ Ahead /\ Known /\ ReadOnce
-----------------------------------------------------------------------------
\* The cursor: what one poll reads.

\* The next newline is the first one.
LEMMA NextEndFacts ==
  ASSUME NEW c, Len(c) \in Nat, NEW x \in 0..Len(c), L!Ends(c, x) # {}
  PROVE  /\ L!NextEnd(c, x) \in (x + 1)..Len(c) /\ c[L!NextEnd(c, x)].end
         /\ \A j \in (x + 1)..(L!NextEnd(c, x) - 1) : ~c[j].end
<1> DEFINE E == L!Ends(c, x)
<1>1. E \subseteq Nat /\ \A i \in E : i \in (x + 1)..Len(c) /\ c[i].end
  BY DEF L!Ends
<1>2. \E i \in E : \A j \in E : i <= j
  <2> HIDE DEF E
  <2> QED BY <1>1, LeastExists DEF E
<1> DEFINE e == CHOOSE i \in E : \A j \in E : i <= j
<1>3. e \in E /\ \A j \in E : e <= j
  <2> HIDE DEF E
  <2> QED BY <1>2
<1>4. L!NextEnd(c, x) = e
  BY DEF L!NextEnd
<1> HIDE DEF e
<1>5. ASSUME NEW j \in (x + 1)..(e - 1) PROVE ~c[j].end
  <2>1. e \in (x + 1)..Len(c)
    BY <1>1, <1>3
  <2>2. j \in (x + 1)..Len(c) /\ ~(e <= j)
    BY <2>1
  <2>3. j \notin E
    BY <1>3, <2>2
  <2> QED BY <2>2, <2>3 DEF L!Ends
<1> QED BY <1>1, <1>3, <1>4, <1>5

\* What readNewLines does with the line at x, when g tells what it does further on.
Poll(c, from, g, x) ==
    IF x - from >= L_Limit THEN [to |-> x, recs |-> {}]
    ELSE IF L!HasLine(c, x)
         THEN LET rest == g[L!NextEnd(c, x)]
              IN  [rest EXCEPT !.recs = @ \cup {c[L!NextEnd(c, x)].rec}]
         ELSE IF L!Discards(c, x) THEN g[L!DiscardTo(c, x)]
              ELSE [to |-> x, recs |-> {}]

\* It goes on behind x, if it goes on.
LEMMA PollGoesOn ==
  ASSUME NEW c, Len(c) \in Nat, NEW from \in 0..Len(c), NEW x \in 0..Len(c)
  PROVE  /\ L!HasLine(c, x) => L!NextEnd(c, x) \in (x + 1)..Len(c)
         /\ ~L!HasLine(c, x) /\ L!Discards(c, x) => L!DiscardTo(c, x) \in (x + 1)..Len(c)
<1>1. CASE L!Ends(c, x) # {}
  BY <1>1, NextEndFacts DEF L!HasLine, L!DiscardTo
<1>2. CASE L!Ends(c, x) = {}
  <2>1. ~L!HasLine(c, x) /\ L!DiscardTo(c, x) = Len(c)
    BY <1>2 DEF L!HasLine, L!DiscardTo
  <2>2. L!Discards(c, x) => Len(c) - x >= 1
    BY LogAssumption DEF L!Discards, L!CursorAssumption
  <2> QED BY <2>1, <2>2
<1> QED BY <1>1, <1>2

\* The recursive function of ReadNewLines exists.
LEMMA PollExists ==
  ASSUME NEW c, Len(c) \in Nat, NEW from \in 0..Len(c)
  PROVE  \E g : g = [x \in from..Len(c) |-> Poll(c, from, g, x)]
<1> DEFINE Reads(k) == \E g : g = [x \in (Len(c) - k)..Len(c) |-> Poll(c, from, g, x)]
           T == {k \in 0..(Len(c) - from) : ~Reads(k)}
<1>1. SUFFICES ASSUME T # {} PROVE FALSE
  <2>1. Len(c) - from \in 0..(Len(c) - from) /\ Len(c) - (Len(c) - from) = from
    OBVIOUS
  <2>2. Reads(Len(c) - from)
    <3> HIDE DEF Reads
    <3> QED BY <1>1, <2>1
  <2> QED BY <2>1, <2>2
<1>2. T \subseteq Nat
  OBVIOUS
<1>3. PICK k \in T : \A l \in T : k <= l
  <2> HIDE DEF T
  <2> QED BY <1>1, <1>2, LeastExists
<1>4. k \in 0..(Len(c) - from) /\ ~Reads(k)
  BY <1>3
<1> DEFINE a == Len(c) - k
<1>5. a \in 0..Len(c)
  BY <1>4
<1>6. CASE k = 0
  <2> DEFINE g == [x \in a..Len(c) |-> Poll(c, from, <<>>, x)]
  <2>1. a = Len(c)
    BY <1>6
  <2>2. ASSUME NEW x \in a..Len(c) PROVE Poll(c, from, <<>>, x) = Poll(c, from, g, x)
    <3>1. x = Len(c)
      BY <1>5, <2>1
    <3>2. ~L!HasLine(c, x) /\ ~L!Discards(c, x)
      <4>1. L!Ends(c, x) = {}
        BY <3>1 DEF L!Ends
      <4> QED BY <3>1, <4>1, LogAssumption DEF L!HasLine, L!Discards, L!CursorAssumption
    <3> HIDE DEF g
    <3> QED BY <3>2 DEF Poll
  <2>3. g = [x \in a..Len(c) |-> Poll(c, from, g, x)]
    BY <2>2
  <2>4. Reads(k)
    <3> HIDE DEF g
    <3> QED BY <2>3
  <2> QED BY <1>4, <2>4
<1>7. CASE k # 0
  <2>1. k - 1 \in 0..(Len(c) - from) /\ ~(k <= k - 1) /\ Len(c) - (k - 1) = a + 1 /\ a < Len(c)
    BY <1>4, <1>7
  <2>2. Reads(k - 1)
    <3> HIDE DEF Reads
    <3> QED BY <1>3, <2>1
  <2>3. PICK h : h = [x \in (a + 1)..Len(c) |-> Poll(c, from, h, x)]
    BY <2>1, <2>2
  <2> DEFINE g == [x \in a..Len(c) |-> Poll(c, from, h, x)]
  <2> HIDE DEF a
  <2>4. \A x \in (a + 1)..Len(c) : x \in a..Len(c) /\ h[x] = Poll(c, from, h, x)
    <3>1. \A x \in (a + 1)..Len(c) : h[x] = Poll(c, from, h, x)
      BY <2>3
    <3> QED BY <1>5, <3>1
  <2>5. \A x \in (a + 1)..Len(c) : g[x] = h[x]
    BY <2>4
  <2>6. ASSUME NEW x \in a..Len(c) PROVE Poll(c, from, h, x) = Poll(c, from, g, x)
    <3> HIDE DEF g
    <3>1. x \in 0..Len(c) /\ \A y \in (x + 1)..Len(c) : y \in (a + 1)..Len(c)
      BY <1>5
    <3>2. \A y \in (x + 1)..Len(c) : g[y] = h[y]
      BY <2>5, <3>1
    <3>3. CASE L!HasLine(c, x)
      <4>1. g[L!NextEnd(c, x)] = h[L!NextEnd(c, x)]
        BY <3>1, <3>2, <3>3, PollGoesOn
      <4> QED BY <3>3, <4>1 DEF Poll
    <3>4. CASE ~L!HasLine(c, x) /\ L!Discards(c, x)
      <4>1. g[L!DiscardTo(c, x)] = h[L!DiscardTo(c, x)]
        BY <3>1, <3>2, <3>4, PollGoesOn
      <4> QED BY <3>4, <4>1 DEF Poll
    <3>5. CASE ~L!HasLine(c, x) /\ ~L!Discards(c, x)
      BY <3>5 DEF Poll
    <3> QED BY <3>3, <3>4, <3>5
  <2>7. g = [x \in a..Len(c) |-> Poll(c, from, g, x)]
    BY <2>6
  <2>8. Reads(k)
    <3> HIDE DEF g
    <3> QED BY <2>7 DEF a
  <2> QED BY <1>4, <2>8
<1> QED BY <1>6, <1>7

\* ReadNewLines is what that function says of the place where it begins.
LEMMA ReadNewLinesIs ==
  ASSUME NEW c, Len(c) \in Nat, NEW o \in Nat
  PROVE  /\ L!BeginAt(c, o) \in 0..Len(c)
         /\ \E g : /\ g = [x \in L!BeginAt(c, o)..Len(c) |-> Poll(c, L!BeginAt(c, o), g, x)]
                  /\ L!ReadNewLines(c, o) = g[L!BeginAt(c, o)]
<1> DEFINE from == L!BeginAt(c, o)
           g == CHOOSE g : g = [x \in from..Len(c) |-> Poll(c, from, g, x)]
<1>1. from \in 0..Len(c)
  BY DEF L!BeginAt
<1> HIDE DEF from
<1>2. g = [x \in from..Len(c) |-> Poll(c, from, g, x)]
  BY <1>1, PollExists
<1>3. L!ReadNewLines(c, o) = g[from]
  BY DEF L!ReadNewLines, Poll, from
<1> HIDE DEF g
<1> QED BY <1>1, <1>2, <1>3 DEF from

\* A poll that begins at x with this result: it hands on records that end in what it has passed, and a
\* record whose end it passes over fills the buffer without another newline.
GoodPoll(c, x, result) ==
    /\ result = [to |-> result.to, recs |-> result.recs]
    /\ result.to \in x..Len(c)
    /\ \A r \in result.recs : \E i \in (x + 1)..result.to : c[i].end /\ c[i].rec = r
    /\ \A i \in (x + 1)..result.to : c[i].end /\ c[i].rec \notin result.recs =>
         \E y \in x..i : i - y > L_Buf /\ \A j \in (y + 1)..(i - 1) : ~c[j].end

LEMMA AddRecord ==
  ASSUME NEW f, f = [to |-> f.to, recs |-> f.recs], NEW r
  PROVE  [f EXCEPT !.recs = @ \cup {r}] = [to |-> f.to, recs |-> f.recs \cup {r}]
<1>1. PICK T : T = {f.to}
  OBVIOUS
<1>2. PICK R : R = {f.recs, f.recs \cup {r}}
  OBVIOUS
<1>3. f \in [to : T, recs : R] /\ f.recs \cup {r} \in R
  BY <1>1, <1>2
<1> QED BY <1>3

\* The line at x, with what follows it.
LEMMA PollStep ==
  ASSUME NEW c, Len(c) \in Nat, NEW from \in 0..Len(c), NEW g, NEW x \in from..Len(c),
         \A y \in (x + 1)..Len(c) : GoodPoll(c, y, g[y])
  PROVE  GoodPoll(c, x, Poll(c, from, g, x))
<1>1. L_Buf \in Nat \ {0} /\ x \in 0..Len(c)
  BY LogAssumption DEF L!CursorAssumption
<1> DEFINE stop == [to |-> x, recs |-> {}]
<1>2. GoodPoll(c, x, stop)
  <2>1. stop.to = x /\ stop.recs = {} /\ x \in x..Len(c) /\ (x + 1)..x = {}
    BY <1>1
  <2> QED BY <2>1 DEF GoodPoll
<1>3. CASE x - from < L_Limit /\ L!HasLine(c, x)
  <2> DEFINE e == L!NextEnd(c, x)
             rest == g[e]
             result == [to |-> rest.to, recs |-> rest.recs \cup {c[e].rec}]
  <2>1. e \in (x + 1)..Len(c) /\ c[e].end /\ \A j \in (x + 1)..(e - 1) : ~c[j].end
    BY <1>1, <1>3, NextEndFacts DEF L!HasLine
  <2>2. GoodPoll(c, e, rest)
    BY <2>1
  <2>3. Poll(c, from, g, x) = [rest EXCEPT !.recs = @ \cup {c[e].rec}]
    <3>1. L_Limit \in Int /\ x - from \in Int /\ ~(x - from >= L_Limit)
      BY <1>1, <1>3, LogAssumption DEF L!CursorAssumption
    <3> QED BY <1>3, <3>1 DEF Poll
  <2> HIDE DEF e, rest
  <2>4. Poll(c, from, g, x) = result
    <3>1. rest = [to |-> rest.to, recs |-> rest.recs]
      BY <2>2 DEF GoodPoll
    <3> QED BY <2>3, <3>1, AddRecord
  <2>5. result.to = rest.to /\ result.recs = rest.recs \cup {c[e].rec} /\ rest.to \in e..Len(c)
    BY <2>2 DEF GoodPoll
  <2>6. result = [to |-> result.to, recs |-> result.recs]
    OBVIOUS
  <2> HIDE DEF result
  <2>7. result.to \in x..Len(c)
    BY <1>1, <2>1, <2>5
  <2>8. ASSUME NEW r \in result.recs PROVE \E i \in (x + 1)..result.to : c[i].end /\ c[i].rec = r
    <3>1. CASE r \in rest.recs
      <4>1. PICK i \in (e + 1)..rest.to : c[i].end /\ c[i].rec = r
        BY <2>2, <3>1 DEF GoodPoll
      <4>2. i \in (x + 1)..result.to
        BY <1>1, <2>1, <2>5, <4>1
      <4> QED BY <4>1, <4>2
    <3>2. CASE r = c[e].rec
      <4>1. e \in (x + 1)..result.to
        BY <1>1, <2>1, <2>5
      <4> QED BY <2>1, <3>2, <4>1
    <3> QED BY <2>5, <2>8, <3>1, <3>2
  <2>9. ASSUME NEW i \in (x + 1)..result.to, c[i].end, c[i].rec \notin result.recs
        PROVE  \E y \in x..i : i - y > L_Buf /\ \A j \in (y + 1)..(i - 1) : ~c[j].end
    <3>1. i # e /\ c[i].rec \notin rest.recs
      BY <2>5, <2>9
    <3>2. i \in (e + 1)..rest.to
      <4>1. ~(i \in (x + 1)..(e - 1))
        BY <2>1, <2>9
      <4> QED BY <1>1, <2>1, <2>5, <3>1, <4>1
    <3>3. PICK y \in e..i : i - y > L_Buf /\ \A j \in (y + 1)..(i - 1) : ~c[j].end
      BY <2>2, <2>9, <3>1, <3>2 DEF GoodPoll
    <3>4. y \in x..i
      BY <1>1, <2>1, <2>5, <3>3
    <3> QED BY <3>3, <3>4
  <2> QED BY <2>4, <2>6, <2>7, <2>8, <2>9 DEF GoodPoll
<1>4. CASE x - from < L_Limit /\ ~L!HasLine(c, x) /\ L!Discards(c, x)
  <2> DEFINE d == L!DiscardTo(c, x)
             result == g[d]
  <2>1. d \in (x + 1)..Len(c)
    BY <1>1, <1>4, PollGoesOn
  <2>2. GoodPoll(c, d, result)
    BY <2>1
  <2>3. Poll(c, from, g, x) = result
    <3>1. L_Limit \in Int /\ x - from \in Int /\ ~(x - from >= L_Limit)
      BY <1>1, <1>4, LogAssumption DEF L!CursorAssumption
    <3> QED BY <1>4, <3>1 DEF Poll
  <2>4. ASSUME NEW i \in (x + 1)..d, c[i].end
        PROVE  i - x > L_Buf /\ \A j \in (x + 1)..(i - 1) : ~c[j].end
    <3>1. i \in L!Ends(c, x)
      BY <2>1, <2>4 DEF L!Ends
    <3>2. d = L!NextEnd(c, x) /\ \A j \in (x + 1)..(d - 1) : ~c[j].end
      BY <1>1, <3>1, NextEndFacts DEF L!DiscardTo
    <3>3. i = d
      BY <2>1, <2>4, <3>2
    <3>4. ~(d - x <= L_Buf)
      BY <1>4, <3>1, <3>2 DEF L!HasLine
    <3> QED BY <1>1, <2>1, <3>2, <3>3, <3>4
  <2> HIDE DEF d, result
  <2>5. result = [to |-> result.to, recs |-> result.recs] /\ result.to \in d..Len(c)
    BY <2>2 DEF GoodPoll
  <2>6. result.to \in x..Len(c)
    BY <1>1, <2>1, <2>5
  <2>7. ASSUME NEW r \in result.recs PROVE \E i \in (x + 1)..result.to : c[i].end /\ c[i].rec = r
    <3>1. PICK i \in (d + 1)..result.to : c[i].end /\ c[i].rec = r
      BY <2>2, <2>7 DEF GoodPoll
    <3>2. i \in (x + 1)..result.to
      BY <1>1, <2>1, <2>5, <3>1
    <3> QED BY <3>1, <3>2
  <2>8. ASSUME NEW i \in (x + 1)..result.to, c[i].end, c[i].rec \notin result.recs
        PROVE  \E y \in x..i : i - y > L_Buf /\ \A j \in (y + 1)..(i - 1) : ~c[j].end
    <3>1. CASE i \in (x + 1)..d
      <4>1. x \in x..i
        BY <1>1, <2>1, <3>1
      <4> QED BY <2>4, <2>8, <3>1, <4>1
    <3>2. CASE i \in (d + 1)..result.to
      <4>1. PICK y \in d..i : i - y > L_Buf /\ \A j \in (y + 1)..(i - 1) : ~c[j].end
        BY <2>2, <2>8, <3>2 DEF GoodPoll
      <4>2. y \in x..i
        BY <1>1, <2>1, <2>5, <4>1
      <4> QED BY <4>1, <4>2
    <3> QED BY <1>1, <2>1, <2>5, <3>1, <3>2
  <2> QED BY <2>3, <2>5, <2>6, <2>7, <2>8 DEF GoodPoll
<1>5. CASE ~(x - from < L_Limit) \/ (~L!HasLine(c, x) /\ ~L!Discards(c, x))
  <2>1. L_Limit \in Int /\ x - from \in Int
    BY <1>1, LogAssumption DEF L!CursorAssumption
  <2>2. Poll(c, from, g, x) = stop
    BY <1>5, <2>1 DEF Poll
  <2> QED BY <1>2, <2>2
<1> QED BY <1>3, <1>4, <1>5

\* Every poll is good.
LEMMA PollIsGood ==
  ASSUME NEW c, Len(c) \in Nat, NEW from \in 0..Len(c),
         NEW g, g = [x \in from..Len(c) |-> Poll(c, from, g, x)]
  PROVE  \A x \in from..Len(c) : GoodPoll(c, x, g[x])
<1> DEFINE T == {k \in 0..(Len(c) - from) : ~GoodPoll(c, Len(c) - k, g[Len(c) - k])}
<1>1. SUFFICES ASSUME T # {} PROVE FALSE
  <2> SUFFICES ASSUME NEW x \in from..Len(c), ~GoodPoll(c, x, g[x]) PROVE T # {}
    BY <1>1
  <2>1. Len(c) - x \in 0..(Len(c) - from) /\ Len(c) - (Len(c) - x) = x
    OBVIOUS
  <2>2. Len(c) - x \in T
    BY <2>1
  <2> QED BY <2>2
<1>2. T \subseteq Nat
  OBVIOUS
<1>3. PICK k \in T : \A l \in T : k <= l
  <2> HIDE DEF T
  <2> QED BY <1>1, <1>2, LeastExists
<1> DEFINE x == Len(c) - k
<1>4. k \in 0..(Len(c) - from) /\ ~GoodPoll(c, x, g[x]) /\ x \in from..Len(c)
  BY <1>3
<1>5. ASSUME NEW y \in (x + 1)..Len(c) PROVE GoodPoll(c, y, g[y])
  <2>1. Len(c) - y \in 0..(Len(c) - from) /\ Len(c) - (Len(c) - y) = y /\ ~(k <= Len(c) - y)
    BY <1>4
  <2>2. Len(c) - y \notin T
    BY <1>3, <2>1
  <2> QED BY <2>1, <2>2
<1> HIDE DEF x
<1>6. GoodPoll(c, x, Poll(c, from, g, x))
  BY <1>4, <1>5, PollStep
<1>7. g[x] = Poll(c, from, g, x)
  BY <1>4
<1> QED BY <1>4, <1>6, <1>7

\* What a poll reads of a file.
LEMMA ReadNewLinesIsGood ==
  ASSUME NEW c, Len(c) \in Nat, NEW o \in Nat
  PROVE  /\ L!BeginAt(c, o) \in 0..Len(c)
         /\ GoodPoll(c, L!BeginAt(c, o), L!ReadNewLines(c, o))
<1>1. L!BeginAt(c, o) \in 0..Len(c)
  BY ReadNewLinesIs
<1>2. PICK g : /\ g = [x \in L!BeginAt(c, o)..Len(c) |-> Poll(c, L!BeginAt(c, o), g, x)]
               /\ L!ReadNewLines(c, o) = g[L!BeginAt(c, o)]
  BY ReadNewLinesIs
<1>3. \A x \in L!BeginAt(c, o)..Len(c) : GoodPoll(c, x, g[x])
  BY <1>1, <1>2, PollIsGood
<1>4. L!BeginAt(c, o) \in L!BeginAt(c, o)..Len(c)
  BY <1>1
<1> QED BY <1>1, <1>2, <1>3, <1>4
-----------------------------------------------------------------------------
\* The cursor: the steps.

\* Where a poll of the file at the path begins, and what it reads.
PollFrom == L!BeginAt(Current, L!From)
PollHere == L!ReadNewLines(Current, L!From)

LEMMA CurrentType ==
  ASSUME L!TypeOK, l_path # L!None
  PROVE  /\ l_path \in L!Files /\ Current \in Seq(L!Unit) /\ Len(Current) \in Nat /\ DOMAIN Current = 1..Len(Current)
         /\ \A i \in DOMAIN Current : Current[i].rec \in Nat /\ Current[i].end \in BOOLEAN
<1>1. l_path \in L!Files /\ Current \in Seq(L!Unit)
  BY DEF L!TypeOK, Current
<1>2. Len(Current) \in Nat /\ DOMAIN Current = 1..Len(Current)
  BY <1>1, LenProperties
<1>3. \A i \in DOMAIN Current : Current[i] \in L!Unit
  BY <1>1, <1>2, ElementOfSeq
<1>4. \A u \in L!Unit : u.rec \in Nat /\ u.end \in BOOLEAN
  BY DEF L!Unit
<1> QED BY <1>1, <1>2, <1>3, <1>4

LEMMA ReadLinesFacts ==
  ASSUME L!TypeOK, L!ReadLines
  PROVE  /\ l_path # L!None /\ l_pc = "read" /\ l_pc' = "idle"
         /\ PollFrom \in 0..Len(Current) /\ GoodPoll(Current, PollFrom, PollHere)
         /\ l_offset' = PollHere.to /\ l_offset' \in PollFrom..Len(Current)
         /\ l_reads' = [r \in 1..L_MaxRecords |-> IF r \in PollHere.recs THEN l_reads[r] + 1 ELSE l_reads[r]]
         /\ l_start' = IF L!From > Len(Current) THEN <<l_path, 0>> ELSE l_start
         /\ UNCHANGED <<l_files, l_path, l_open, l_sizes, l_truncations, l_id>>
<1>1. /\ l_path # L!None /\ l_pc = "read" /\ l_pc' = "idle" /\ l_offset' = PollHere.to
      /\ l_reads' = [r \in 1..L_MaxRecords |-> IF r \in PollHere.recs THEN l_reads[r] + 1 ELSE l_reads[r]]
      /\ l_start' = IF L!From > Len(Current) THEN <<l_path, 0>> ELSE l_start
      /\ UNCHANGED <<l_files, l_path, l_open, l_sizes, l_truncations, l_id>>
  BY DEF L!ReadLines, PollHere, Current, L!log
<1>2. L!From \in Nat
  BY DEF L!TypeOK, L!Unseen, L!From
<1>3. Len(Current) \in Nat
  BY <1>1, CurrentType
<1>4. PollFrom \in 0..Len(Current) /\ GoodPoll(Current, PollFrom, PollHere)
  BY <1>2, <1>3, ReadNewLinesIsGood DEF PollFrom, PollHere
<1>5. PollHere.to \in PollFrom..Len(Current)
  BY <1>4 DEF GoodPoll
<1> QED BY <1>1, <1>4, <1>5

\* What the writer appends.
LEMMA WriteUnitFacts ==
  ASSUME L!TypeOK, NEW size \in L_Sizes, L!WriteUnit(size)
  PROVE  /\ l_path # L!None /\ l_path' = l_path
         /\ l_files' \in [L!Files -> Seq(L!Unit)] /\ \A f \in L!Files : f # l_path => l_files'[f] = l_files[f]
         /\ Len(Current') = Len(Current) + 1 /\ DOMAIN Current' = 1..(Len(Current) + 1)
         /\ \A i \in DOMAIN Current : i \in DOMAIN Current' /\ Current'[i] = Current[i]
         /\ Current'[Len(Current) + 1].rec = Len(l_sizes') /\ Current'[Len(Current) + 1].end = (l_open' = 0)
         /\ l_sizes' \in Seq(L_Sizes) /\ l_open' \in Nat
         /\ l_open = 0 =>
              /\ Len(l_sizes) < L_MaxRecords /\ Len(l_sizes') = Len(l_sizes) + 1 /\ l_open' = size - 1
              /\ l_sizes'[Len(l_sizes) + 1] = size /\ \A r \in 1..Len(l_sizes) : l_sizes'[r] = l_sizes[r]
         /\ l_open # 0 => l_sizes' = l_sizes /\ l_open' = l_open - 1
         /\ UNCHANGED <<l_truncations, l_id, l_offset, l_pc, l_start, l_reads>>
<1>1. /\ l_path # L!None /\ l_path' = l_path /\ UNCHANGED <<l_truncations, l_id, l_offset, l_pc, l_start, l_reads>>
      /\ l_open = 0 => Len(l_sizes) < L_MaxRecords /\ l_sizes' = Append(l_sizes, size) /\ l_open' = size - 1
      /\ l_open # 0 => l_sizes' = l_sizes /\ l_open' = l_open - 1
      /\ l_files' = [l_files EXCEPT ![l_path] = Append(@, [rec |-> Len(l_sizes'), end |-> l_open' = 0])]
  BY DEF L!WriteUnit
<1>2. /\ l_files \in [L!Files -> Seq(L!Unit)] /\ l_sizes \in Seq(L_Sizes) /\ l_open \in Nat /\ Len(l_sizes) \in Nat
      /\ size \in Nat \ {0}
  BY LenProperties, LogAssumption DEF L!TypeOK, L!CursorAssumption
<1>3. /\ l_path \in L!Files /\ Current \in Seq(L!Unit) /\ Len(Current) \in Nat /\ DOMAIN Current = 1..Len(Current)
  BY <1>1, CurrentType
<1>4. /\ l_sizes' \in Seq(L_Sizes) /\ l_open' \in Nat /\ Len(l_sizes') \in Nat
      /\ l_open = 0 =>
           /\ Len(l_sizes') = Len(l_sizes) + 1 /\ l_sizes'[Len(l_sizes) + 1] = size
           /\ \A r \in 1..Len(l_sizes) : l_sizes'[r] = l_sizes[r]
  <2>1. CASE l_open = 0
    <3>1. l_sizes' = Append(l_sizes, size) /\ l_open' \in Nat
      BY <1>1, <1>2, <2>1
    <3> QED BY <1>2, <3>1, AppendProperties
  <2>2. CASE l_open # 0
    BY <1>1, <1>2, <2>2
  <2> QED BY <2>1, <2>2
<1> DEFINE u == [rec |-> Len(l_sizes'), end |-> l_open' = 0]
<1>5. u \in L!Unit /\ u.rec = Len(l_sizes') /\ u.end = (l_open' = 0)
  <2>1. (l_open' = 0) \in BOOLEAN
    OBVIOUS
  <2> QED BY <1>4, <2>1 DEF L!Unit
<1> HIDE DEF u
<1>6. l_files' = [l_files EXCEPT ![l_path] = Append(Current, u)]
  BY <1>1 DEF u, Current
<1>7. /\ Append(Current, u) \in Seq(L!Unit) /\ Len(Append(Current, u)) = Len(Current) + 1
      /\ \A i \in 1..Len(Current) : Append(Current, u)[i] = Current[i]
      /\ Append(Current, u)[Len(Current) + 1] = u
  BY <1>3, <1>5, AppendProperties
<1>8. /\ l_files' \in [L!Files -> Seq(L!Unit)] /\ \A f \in L!Files : f # l_path => l_files'[f] = l_files[f]
      /\ l_files'[l_path] = Append(Current, u)
  BY <1>2, <1>3, <1>6, <1>7
<1>9. Current' = Append(Current, u)
  BY <1>1, <1>8 DEF Current
<1>10. DOMAIN Current' = 1..(Len(Current) + 1)
  BY <1>7, <1>9, LenProperties
<1>11. \A i \in DOMAIN Current : i \in DOMAIN Current' /\ Current'[i] = Current[i]
  BY <1>3, <1>7, <1>9, <1>10
<1>12. Len(Current') = Len(Current) + 1 /\ Current'[Len(Current) + 1] = u
  BY <1>7, <1>9
<1> HIDE DEF Current
<1> QED BY <1>1, <1>4, <1>5, <1>8, <1>10, <1>11, <1>12

LEMMA CursorTypesNext ==
  ASSUME L!TypeOK, L!Next PROVE L!TypeOK'
<1>1. ASSUME L!Stat PROVE L!TypeOK'
  <2>1. l_path \in L!Files /\ l_start' \in (L!Files \cup {L!None}) \X Nat
    BY <1>1 DEF L!Stat, L!TypeOK, L!Unseen, L!From
  <2> QED BY <1>1, <2>1 DEF L!Stat, L!TypeOK, L!FirstSight, L!log, L!Unseen
<1>2. ASSUME L!Gone PROVE L!TypeOK'
  BY <1>2 DEF L!Gone, L!TypeOK, L!log
<1>3. ASSUME L!SkipToEnd PROVE L!TypeOK'
  <2>1. l_path # L!None /\ l_offset' = Len(Current) /\ l_start' = <<l_path, Len(Current)>>
    BY <1>3 DEF L!SkipToEnd, Current
  <2>2. l_path \in L!Files /\ Len(Current) \in Nat
    BY <2>1, CurrentType
  <2> QED BY <1>3, <2>1, <2>2 DEF L!SkipToEnd, L!TypeOK, L!log
<1>4. ASSUME L!ReadLines PROVE L!TypeOK'
  <2>1. PollFrom \in 0..Len(Current) /\ l_offset' \in PollFrom..Len(Current) /\ l_path # L!None
    BY <1>4, ReadLinesFacts
  <2>2. l_offset' \in Nat /\ l_start' \in (L!Files \cup {L!None}) \X Nat
    <3>1. l_start' = IF L!From > Len(Current) THEN <<l_path, 0>> ELSE l_start
      BY <1>4, ReadLinesFacts
    <3> QED BY <2>1, <3>1, CurrentType DEF L!TypeOK
  <2>3. l_reads' \in [1..L_MaxRecords -> Nat]
    <3>1. l_reads' = [r \in 1..L_MaxRecords |-> IF r \in PollHere.recs THEN l_reads[r] + 1 ELSE l_reads[r]]
      BY <1>4, ReadLinesFacts
    <3>2. \A r \in 1..L_MaxRecords : l_reads[r] \in Nat
      BY DEF L!TypeOK
    <3> QED BY <3>1, <3>2
  <2> QED BY <1>4, <2>2, <2>3, ReadLinesFacts DEF L!TypeOK
<1>5. ASSUME NEW size \in L_Sizes, L!WriteUnit(size) PROVE L!TypeOK'
  <2>1. /\ l_files' \in [L!Files -> Seq(L!Unit)] /\ l_sizes' \in Seq(L_Sizes) /\ l_open' \in Nat /\ l_path' = l_path
        /\ UNCHANGED <<l_truncations, l_id, l_offset, l_pc, l_start, l_reads>>
    BY <1>5, WriteUnitFacts
  <2> QED BY <2>1 DEF L!TypeOK
<1>6. ASSUME L!Remove PROVE L!TypeOK'
  BY <1>6 DEF L!Remove, L!TypeOK
<1>7. ASSUME NEW f \in L!Files, L!Replace(f) PROVE L!TypeOK'
  BY <1>7 DEF L!Replace, L!TypeOK
<1>8. ASSUME L!Truncate PROVE L!TypeOK'
  <2>1. l_files' \in [L!Files -> Seq(L!Unit)]
    BY <1>8 DEF L!Truncate, L!TypeOK
  <2>2. l_truncations' \in Nat /\ l_start' \in (L!Files \cup {L!None}) \X Nat
    BY <1>8 DEF L!Truncate, L!TypeOK, L!From, L!Unseen
  <2> QED BY <1>8, <2>1, <2>2 DEF L!Truncate, L!TypeOK
<1> QED BY <1>1, <1>2, <1>3, <1>4, <1>5, <1>6, <1>7, <1>8 DEF L!Next, L!Scan

\* A unit more: the first of a new record, or the next of the one that is being written.
LEMMA WholeGrows ==
  ASSUME NEW c, NEW d, NEW sizes, NEW more, NEW op \in Nat, NEW po \in Nat,
         Len(c) \in Nat, DOMAIN c = 1..Len(c), Len(d) = Len(c) + 1, DOMAIN d = 1..(Len(c) + 1),
         \A i \in DOMAIN c : d[i] = c[i],
         d[Len(c) + 1].rec = Len(more), d[Len(c) + 1].end = (po = 0),
         Len(sizes) \in Nat, Len(more) \in Nat, \A r \in 1..Len(more) : more[r] \in Nat \ {0},
         \A r \in 1..Len(sizes) : more[r] = sizes[r],
         \/ op = 0 /\ Len(more) = Len(sizes) + 1 /\ po = more[Len(more)] - 1
         \/ op # 0 /\ more = sizes /\ Len(sizes) # 0 /\ po = op - 1,
         WholeFile(c, sizes, op)
  PROVE  WholeFile(d, more, po)
<1> DEFINE n == Len(c) + 1
<1>1. ASSUME NEW i \in DOMAIN c PROVE i \in DOMAIN d /\ i # n /\ d[i] = c[i] /\ (EndAt(d, i) <=> EndAt(c, i))
  BY DEF EndAt
<1>2. n \in DOMAIN d /\ d[n].rec = Len(more) /\ (EndAt(d, n) <=> po = 0) /\ \A i \in DOMAIN d : i = n \/ i \in DOMAIN c
  <2>1. n \in DOMAIN d /\ \A i \in DOMAIN d : i = n \/ i \in DOMAIN c
    OBVIOUS
  <2>2. EndAt(d, n) <=> po = 0
    BY <2>1 DEF EndAt
  <2> QED BY <2>1, <2>2
<1>3. \A k : Begins(c, k) => Begins(d, k)
  BY <1>1 DEF Begins, EndAt
<1>4. \A i \in DOMAIN c : c[i].rec \in 1..Len(sizes) /\ more[c[i].rec] = sizes[c[i].rec] /\ c[i].rec \in 1..Len(more)
  BY DEF WholeFile
<1>5. \A i \in DOMAIN c : EndAt(c, i) => c[i].rec # Len(more)
  <2>1. CASE op = 0
    BY <1>4, <2>1
  <2>2. CASE op # 0
    BY <2>2 DEF WholeFile
  <2> QED BY <2>1, <2>2
<1>6. /\ n - (more[Len(more)] - po) \in Nat /\ Begins(d, n - (more[Len(more)] - po))
      /\ Len(more) # 0
  <2>1. CASE op = 0
    <3>1. Begins(c, Len(c)) /\ Len(more) \in 1..Len(more)
      BY <2>1 DEF WholeFile
    <3>2. n - (more[Len(more)] - po) = Len(c)
      BY <2>1, <3>1
    <3> QED BY <1>3, <2>1, <3>1, <3>2
  <2>2. CASE op # 0
    <3>1. Len(c) - (sizes[Len(sizes)] - op) \in Nat /\ Begins(c, Len(c) - (sizes[Len(sizes)] - op))
      BY <2>2 DEF WholeFile
    <3>2. n - (more[Len(more)] - po) = Len(c) - (sizes[Len(sizes)] - op)
      BY <2>2
    <3> QED BY <1>3, <2>2, <3>1, <3>2
  <2> QED BY <2>1, <2>2
<1> HIDE DEF n
<1>7. \A i \in DOMAIN d : d[i].rec \in 1..Len(more)
  BY <1>1, <1>2, <1>4, <1>6
<1>8. ASSUME NEW i \in DOMAIN d, EndAt(d, i) PROVE i - more[d[i].rec] \in Nat /\ Begins(d, i - more[d[i].rec])
  <2>1. CASE i = n
    <3>1. po = 0 /\ d[i].rec = Len(more) /\ more[Len(more)] \in Nat
      BY <1>2, <1>6, <1>8, <2>1
    <3>2. n - (more[Len(more)] - po) = i - more[d[i].rec]
      BY <2>1, <3>1
    <3> QED BY <1>6, <3>2
  <2>2. CASE i \in DOMAIN c
    <3>1. EndAt(c, i) /\ more[d[i].rec] = sizes[c[i].rec]
      BY <1>1, <1>4, <1>8, <2>2
    <3>2. i - sizes[c[i].rec] \in Nat /\ Begins(c, i - sizes[c[i].rec])
      BY <2>2, <3>1 DEF WholeFile
    <3> QED BY <1>3, <3>1, <3>2
  <2> QED BY <1>2, <2>1, <2>2
<1>9. ASSUME NEW i \in DOMAIN d, NEW j \in DOMAIN d, EndAt(d, i), EndAt(d, j), d[i].rec = d[j].rec PROVE i = j
  <2>1. CASE i \in DOMAIN c /\ j \in DOMAIN c
    <3>1. EndAt(c, i) /\ EndAt(c, j) /\ c[i].rec = c[j].rec
      BY <1>1, <1>9, <2>1
    <3> QED BY <2>1, <3>1 DEF WholeFile
  <2> QED BY <1>1, <1>2, <1>5, <1>9, <2>1
<1>10. po = 0 => Begins(d, n)
  BY <1>2 DEF Begins
<1>11. po # 0 => \A i \in DOMAIN d : EndAt(d, i) => d[i].rec # Len(more)
  BY <1>1, <1>2, <1>5
<1> QED BY <1>6, <1>7, <1>8, <1>9, <1>10, <1>11 DEF WholeFile, n

\* An empty file.
LEMMA WholeAtFirst ==
  ASSUME NEW c, c = <<>>, NEW sizes PROVE WholeFile(c, sizes, 0)
<1>1. DOMAIN c = {} /\ Len(c) = 0
  BY EmptySeq
<1> QED BY <1>1 DEF WholeFile, Begins

LEMMA WholeNext ==
  ASSUME L!TypeOK, Whole, L!Next PROVE Whole'
<1>1. CASE UNCHANGED <<l_files, l_path, l_open, l_sizes>>
  BY <1>1 DEF Whole, Current
<1>2. ASSUME NEW size \in L_Sizes, L!WriteUnit(size) PROVE Whole'
  <2>1. /\ l_path # L!None /\ l_path' = l_path /\ Len(l_sizes) \in Nat /\ l_open \in Nat /\ L_MaxRecords \in Nat
        /\ l_sizes \in Seq(L_Sizes) /\ L_Sizes \subseteq Nat \ {0}
    BY <1>2, WriteUnitFacts, LenProperties, LogAssumption DEF L!TypeOK, L!CursorAssumption
  <2>2. /\ Len(Current) \in Nat /\ DOMAIN Current = 1..Len(Current)
    BY <2>1, CurrentType
  <2>3. /\ Len(Current') = Len(Current) + 1 /\ DOMAIN Current' = 1..(Len(Current) + 1)
        /\ \A i \in DOMAIN Current : Current'[i] = Current[i]
        /\ Current'[Len(Current) + 1].rec = Len(l_sizes') /\ Current'[Len(Current) + 1].end = (l_open' = 0)
    BY <1>2, WriteUnitFacts
  <2>4. /\ l_sizes' \in Seq(L_Sizes) /\ l_open' \in Nat
        /\ l_open = 0 =>
             /\ Len(l_sizes) < L_MaxRecords /\ Len(l_sizes') = Len(l_sizes) + 1 /\ l_open' = size - 1
             /\ l_sizes'[Len(l_sizes) + 1] = size /\ \A r \in 1..Len(l_sizes) : l_sizes'[r] = l_sizes[r]
        /\ l_open # 0 => l_sizes' = l_sizes /\ l_open' = l_open - 1
    BY <1>2, WriteUnitFacts
  <2>5. Len(l_sizes') \in Nat /\ \A r \in 1..Len(l_sizes') : l_sizes'[r] \in Nat \ {0}
    <3>1. PICK s : s = l_sizes'
      OBVIOUS
    <3>2. s \in Seq(L_Sizes)
      BY <2>4, <3>1
    <3>3. Len(s) \in Nat /\ \A r \in 1..Len(s) : s[r] \in L_Sizes
      BY <3>2, ElementOfSeq, LenProperties
    <3> QED BY <2>1, <3>1, <3>3
  <2>6. l_open # 0 => Len(l_sizes) # 0 /\ l_open < l_sizes[Len(l_sizes)]
    BY DEF Whole
  <2>7. /\ \A r \in 1..Len(l_sizes) : l_sizes'[r] = l_sizes[r]
        /\ \/ l_open = 0 /\ Len(l_sizes') = Len(l_sizes) + 1 /\ l_open' = l_sizes'[Len(l_sizes')] - 1
           \/ l_open # 0 /\ l_sizes' = l_sizes /\ Len(l_sizes) # 0 /\ l_open' = l_open - 1
    BY <2>4, <2>6
  <2>8. WholeFile(Current, l_sizes, l_open)
    BY <2>1 DEF Whole
  <2>9. WholeFile(Current', l_sizes', l_open')
    BY <2>1, <2>2, <2>3, <2>4, <2>5, <2>7, <2>8, WholeGrows
  <2>10. Len(l_sizes') <= L_MaxRecords /\ (l_open' # 0 => Len(l_sizes') # 0 /\ l_open' < l_sizes'[Len(l_sizes')])
    <3>1. CASE l_open = 0
      <4>1. Len(l_sizes') = Len(l_sizes) + 1 /\ Len(l_sizes) < L_MaxRecords /\ l_open' = size - 1
            /\ l_sizes'[Len(l_sizes')] = size /\ size \in Nat
        BY <2>1, <2>4, <3>1
      <4> QED BY <2>1, <4>1
    <3>2. CASE l_open # 0
      <4>1. l_sizes' = l_sizes /\ l_open' = l_open - 1 /\ Len(l_sizes) <= L_MaxRecords
        BY <2>4, <3>2 DEF Whole
      <4>2. l_sizes[Len(l_sizes)] \in Nat
        BY <2>1, <2>5, <2>6, <3>2, <4>1
      <4> QED BY <2>1, <2>6, <3>2, <4>1, <4>2
    <3> QED BY <3>1, <3>2
  <2> QED BY <2>1, <2>9, <2>10 DEF Whole, Current
<1>3. ASSUME L!Remove PROVE Whole'
  BY <1>3 DEF L!Remove, Whole, Current
<1>4. ASSUME NEW f \in L!Files, L!Replace(f) PROVE Whole'
  <2>1. /\ l_path' = f /\ l_files'[f] = <<>> /\ l_open = 0 /\ UNCHANGED <<l_files, l_open, l_sizes>>
    BY <1>4 DEF L!Replace
  <2>2. WholeFile(l_files'[f], l_sizes', 0)
    BY <2>1, WholeAtFirst
  <2> QED BY <2>1, <2>2 DEF Whole, Current
<1>5. ASSUME L!Truncate PROVE Whole'
  <2>1. /\ l_path \in L!Files /\ l_path' = l_path /\ l_files' = [l_files EXCEPT ![l_path] = <<>>]
        /\ l_open = 0 /\ UNCHANGED <<l_open, l_sizes>>
    BY <1>5, CurrentType DEF L!Truncate
  <2>2. l_files'[l_path] = <<>>
    BY <2>1 DEF L!TypeOK
  <2>3. WholeFile(l_files'[l_path], l_sizes', 0)
    BY <2>2, WholeAtFirst
  <2> QED BY <2>1, <2>3 DEF Whole, Current
<1>6. ASSUME L!Scan PROVE UNCHANGED <<l_files, l_path, l_open, l_sizes>>
  BY <1>6 DEF L!Scan, L!Stat, L!Gone, L!SkipToEnd, L!ReadLines, L!log
<1> QED BY <1>1, <1>2, <1>3, <1>4, <1>5, <1>6 DEF L!Next

\* What a poll hands on lay ahead of the cursor, and so was not read.
LEMMA PollIsAhead ==
  ASSUME L!TypeOK, Ahead, Known, L!ReadLines
  PROVE  /\ l_id = l_path /\ (l_offset \in 0..Len(Current) => PollFrom = l_offset)
         /\ \A i \in DOMAIN Current : EndAt(Current, i) /\ PollFrom < i => l_reads[Current[i].rec] = 0
<1>1. /\ l_path # L!None /\ l_pc = "read" /\ PollFrom \in 0..Len(Current)
  BY ReadLinesFacts
<1>2. l_id = l_path /\ Len(Current) \in Nat /\ DOMAIN Current = 1..Len(Current) /\ l_offset \in Nat \cup {-1}
  BY <1>1, CurrentType DEF Known, L!TypeOK, L!Unseen
<1>3. PollFrom = IF l_offset = -1 \/ l_offset > Len(Current) THEN 0 ELSE l_offset
  BY <1>2 DEF PollFrom, L!BeginAt, L!Unseen, L!From
<1>4. l_offset \in 0..Len(Current) => PollFrom = l_offset
  BY <1>2, <1>3
<1>5. ASSUME NEW i \in DOMAIN Current, EndAt(Current, i), PollFrom < i PROVE l_reads[Current[i].rec] = 0
  <2>1. i \in 1..Len(Current) /\ ~(i <= l_offset /\ l_offset <= Len(Current))
    BY <1>2, <1>3, <1>5
  <2> QED BY <1>1, <1>5, <2>1 DEF Ahead
<1> QED BY <1>2, <1>4, <1>5

\* The records a poll hands on, by the end each has.
LEMMA PollRecords ==
  ASSUME L!TypeOK, L!ReadLines, NEW r \in PollHere.recs
  PROVE  \E i \in DOMAIN Current : EndAt(Current, i) /\ Current[i].rec = r /\ PollFrom < i /\ i <= l_offset'
<1>1. /\ PollFrom \in 0..Len(Current) /\ GoodPoll(Current, PollFrom, PollHere) /\ l_path # L!None
      /\ l_offset' = PollHere.to /\ l_offset' \in PollFrom..Len(Current)
  BY ReadLinesFacts
<1>2. Len(Current) \in Nat /\ DOMAIN Current = 1..Len(Current)
  BY <1>1, CurrentType
<1>3. PICK i \in (PollFrom + 1)..PollHere.to : Current[i].end /\ Current[i].rec = r
  BY <1>1 DEF GoodPoll
<1>4. i \in DOMAIN Current /\ PollFrom < i /\ i <= l_offset'
  BY <1>1, <1>2, <1>3
<1> QED BY <1>3, <1>4 DEF EndAt

LEMMA UnreadNext ==
  ASSUME L!TypeOK, Whole, Unread, L!Next PROVE Unread'
<1>1. CASE UNCHANGED <<l_open, l_sizes, l_reads>>
  BY <1>1 DEF Unread
<1>2. ASSUME NEW size \in L_Sizes, L!WriteUnit(size) PROVE Unread'
  <2>1. /\ Len(l_sizes) \in Nat /\ l_open \in Nat /\ L_MaxRecords \in Nat
    BY LenProperties, LogAssumption DEF L!TypeOK, L!CursorAssumption
  <2>2. /\ l_reads' = l_reads
        /\ l_open = 0 => Len(l_sizes') = Len(l_sizes) + 1
        /\ l_open # 0 => l_sizes' = l_sizes
    BY <1>2, WriteUnitFacts
  <2>3. ASSUME NEW r \in 1..L_MaxRecords, r > Len(l_sizes') \/ (l_open' # 0 /\ r = Len(l_sizes'))
        PROVE  r > Len(l_sizes) \/ (l_open # 0 /\ r = Len(l_sizes))
    BY <2>1, <2>2, <2>3
  <2> QED BY <2>2, <2>3 DEF Unread
<1>3. ASSUME L!ReadLines PROVE Unread'
  <2>1. /\ l_reads' = [r \in 1..L_MaxRecords |-> IF r \in PollHere.recs THEN l_reads[r] + 1 ELSE l_reads[r]]
        /\ UNCHANGED <<l_open, l_sizes>> /\ l_path # L!None
    BY <1>3, ReadLinesFacts
  <2>2. WholeFile(Current, l_sizes, l_open) /\ Len(l_sizes) \in Nat
    BY <2>1, LenProperties DEF Whole, L!TypeOK
  <2>3. ASSUME NEW r \in PollHere.recs PROVE r \in 1..Len(l_sizes) /\ (l_open # 0 => r # Len(l_sizes))
    <3>1. PICK i \in DOMAIN Current : EndAt(Current, i) /\ Current[i].rec = r
      BY <1>3, PollRecords
    <3> QED BY <2>2, <3>1 DEF WholeFile
  <2>4. ASSUME NEW r \in 1..L_MaxRecords, r > Len(l_sizes) \/ (l_open # 0 /\ r = Len(l_sizes))
        PROVE  l_reads'[r] = 0
    <3>1. r \notin PollHere.recs
      BY <2>2, <2>3, <2>4
    <3>2. l_reads[r] = 0
      BY <2>4 DEF Unread
    <3> QED BY <2>1, <3>1, <3>2
  <2> QED BY <2>1, <2>4 DEF Unread
<1>4. ASSUME L!Stat \/ L!Gone \/ L!SkipToEnd PROVE UNCHANGED <<l_open, l_sizes, l_reads>>
  BY <1>4 DEF L!Stat, L!Gone, L!SkipToEnd, L!log
<1>5. ASSUME L!Remove PROVE UNCHANGED <<l_open, l_sizes, l_reads>>
  BY <1>5 DEF L!Remove
<1>6. ASSUME L!Truncate PROVE UNCHANGED <<l_open, l_sizes, l_reads>>
  BY <1>6 DEF L!Truncate
<1>7. ASSUME NEW f \in L!Files, L!Replace(f) PROVE UNCHANGED <<l_open, l_sizes, l_reads>>
  BY <1>7 DEF L!Replace
<1> QED BY <1>1, <1>2, <1>3, <1>4, <1>5, <1>6, <1>7 DEF L!Next, L!Scan

LEMMA AheadNext ==
  ASSUME L!TypeOK, Whole, Unread, Ahead, Known, L!Next PROVE Ahead'
<1>1. ASSUME L!Stat PROVE Ahead'
  <2>1. /\ l_path # L!None /\ l_id' = l_path /\ UNCHANGED <<l_files, l_path, l_reads>>
        /\ l_offset' = IF l_id # L!None /\ l_id # l_path THEN 0 ELSE l_offset
    BY <1>1 DEF L!Stat, L!log, L!Replaced
  <2>2. Len(Current) \in Nat /\ DOMAIN Current = 1..Len(Current) /\ l_offset \in Nat \cup {-1}
    BY <2>1, CurrentType DEF L!TypeOK, L!Unseen
  <2>3. ASSUME NEW i \in DOMAIN Current, EndAt(Current, i), ~(i <= l_offset' /\ l_offset' <= Len(Current))
        PROVE  l_reads[Current[i].rec] = 0
    <3>1. CASE l_id # L!None /\ l_id # l_path
      BY <2>1, <2>3, <3>1 DEF Ahead
    <3>2. CASE ~(l_id # L!None /\ l_id # l_path)
      <4>1. l_offset' = l_offset
        BY <2>1, <3>2
      <4> QED BY <2>1, <2>3, <4>1 DEF Ahead
    <3> QED BY <3>1, <3>2
  <2>4. Current' = Current
    BY <2>1 DEF Current
  <2> HIDE DEF Current
  <2> QED BY <2>1, <2>3, <2>4 DEF Ahead
<1>2. ASSUME L!Gone \/ L!Remove PROVE Ahead'
  BY <1>2 DEF L!Gone, L!Remove, L!log, Ahead, Current
<1>3. ASSUME L!SkipToEnd PROVE Ahead'
  <2>1. /\ l_path # L!None /\ l_offset = L!Unseen /\ l_pc = "size" /\ UNCHANGED <<l_files, l_path, l_reads, l_id>>
        /\ l_offset' = Len(Current)
    BY <1>3 DEF L!SkipToEnd, L!log, L!TypeOK, Current
  <2>2. Len(Current) \in Nat /\ DOMAIN Current = 1..Len(Current)
    BY <2>1, CurrentType
  <2>3. \A i \in DOMAIN Current : EndAt(Current, i) => l_reads[Current[i].rec] = 0
    BY <2>1, <2>2 DEF Ahead, L!Unseen
  <2>4. Current' = Current
    BY <2>1 DEF Current
  <2> HIDE DEF Current
  <2> QED BY <2>1, <2>3, <2>4 DEF Ahead
<1>4. ASSUME L!ReadLines PROVE Ahead'
  <2>1. /\ l_reads' = [r \in 1..L_MaxRecords |-> IF r \in PollHere.recs THEN l_reads[r] + 1 ELSE l_reads[r]]
        /\ UNCHANGED <<l_files, l_path, l_sizes, l_id>> /\ l_path # L!None
        /\ PollFrom \in 0..Len(Current) /\ l_offset' \in PollFrom..Len(Current)
    BY <1>4, ReadLinesFacts
  <2>2. Len(Current) \in Nat /\ DOMAIN Current = 1..Len(Current)
    BY <2>1, CurrentType
  <2>3. WholeFile(Current, l_sizes, l_open) /\ Len(l_sizes) <= L_MaxRecords /\ Len(l_sizes) \in Nat /\ L_MaxRecords \in Nat
    BY <2>1, LenProperties, LogAssumption DEF Whole, L!TypeOK, L!CursorAssumption
  <2>4. l_id = l_path /\ \A i \in DOMAIN Current : EndAt(Current, i) /\ PollFrom < i => l_reads[Current[i].rec] = 0
    BY <1>4, PollIsAhead
  <2>5. ASSUME NEW i \in DOMAIN Current, EndAt(Current, i), ~(i <= l_offset') PROVE l_reads'[Current[i].rec] = 0
    <3>1. PollFrom < i
      BY <2>1, <2>2, <2>5
    <3>2. Current[i].rec \notin PollHere.recs
      <4> SUFFICES ASSUME Current[i].rec \in PollHere.recs PROVE FALSE
        OBVIOUS
      <4>1. PICK j \in DOMAIN Current : EndAt(Current, j) /\ Current[j].rec = Current[i].rec /\ j <= l_offset'
        BY <1>4, PollRecords
      <4>2. j = i
        BY <2>3, <2>5, <4>1 DEF WholeFile
      <4> QED BY <2>5, <4>1, <4>2
    <3>3. Current[i].rec \in 1..L_MaxRecords
      BY <2>3 DEF WholeFile
    <3> QED BY <2>1, <2>4, <2>5, <3>1, <3>2, <3>3
  <2>6. Current' = Current
    BY <2>1 DEF Current
  <2>7. l_offset' <= Len(Current)
    BY <2>1, <2>2
  <2> HIDE DEF Current
  <2> QED BY <2>1, <2>4, <2>5, <2>6, <2>7 DEF Ahead
<1>5. ASSUME NEW size \in L_Sizes, L!WriteUnit(size) PROVE Ahead'
  <2>1. /\ l_path # L!None /\ l_path' = l_path /\ UNCHANGED <<l_id, l_offset, l_reads>>
        /\ Len(Current') = Len(Current) + 1 /\ DOMAIN Current' = 1..(Len(Current) + 1)
        /\ \A i \in DOMAIN Current : i \in DOMAIN Current' /\ Current'[i] = Current[i]
        /\ Current'[Len(Current) + 1].rec = Len(l_sizes')
        /\ l_open = 0 => Len(l_sizes') = Len(l_sizes) + 1 /\ Len(l_sizes) < L_MaxRecords
        /\ l_open # 0 => l_sizes' = l_sizes
    BY <1>5, WriteUnitFacts
  <2>2. /\ Len(Current) \in Nat /\ DOMAIN Current = 1..Len(Current) /\ l_offset \in Nat \cup {-1}
        /\ Len(l_sizes) \in Nat /\ L_MaxRecords \in Nat
    BY <2>1, CurrentType, LenProperties, LogAssumption DEF L!TypeOK, L!Unseen, L!CursorAssumption
  <2>3. l_reads[Len(l_sizes')] = 0
    <3>1. Len(l_sizes) <= L_MaxRecords /\ (l_open # 0 => Len(l_sizes) # 0)
      BY DEF Whole
    <3>2. Len(l_sizes') \in 1..L_MaxRecords /\ (Len(l_sizes') > Len(l_sizes) \/ (l_open # 0 /\ Len(l_sizes') = Len(l_sizes)))
      BY <2>1, <2>2, <3>1
    <3> QED BY <3>2 DEF Unread
  <2>4. PICK d : d = Current'
    OBVIOUS
  <2>5. ASSUME NEW i \in DOMAIN d, EndAt(d, i), ~(l_id = l_path /\ i <= l_offset /\ l_offset <= Len(d))
        PROVE  l_reads[d[i].rec] = 0
    <3>1. CASE i = Len(Current) + 1
      BY <2>1, <2>3, <2>4, <3>1
    <3>2. CASE i \in DOMAIN Current
      <4>1. EndAt(Current, i) /\ d[i] = Current[i]
        BY <2>1, <2>4, <2>5, <3>2 DEF EndAt
      <4>2. ~(l_id = l_path /\ i <= l_offset /\ l_offset <= Len(Current))
        BY <2>1, <2>2, <2>4, <2>5
      <4> QED BY <2>1, <3>2, <4>1, <4>2 DEF Ahead
    <3> QED BY <2>1, <2>2, <2>4, <3>1, <3>2
  <2> HIDE DEF Current
  <2> QED BY <2>1, <2>4, <2>5 DEF Ahead
<1>6. ASSUME NEW f \in L!Files, L!Replace(f) PROVE Ahead'
  <2>1. l_path' = f /\ l_files'[f] = <<>> /\ f # L!None
    BY <1>6 DEF L!Replace, L!Files, L!None
  <2>2. Current' = <<>>
    BY <2>1 DEF Current
  <2> QED BY <2>2, EmptySeq DEF Ahead
<1>7. ASSUME L!Truncate PROVE Ahead'
  <2>1. l_path \in L!Files /\ l_path' = l_path /\ l_files' = [l_files EXCEPT ![l_path] = <<>>]
    BY <1>7, CurrentType DEF L!Truncate
  <2>2. Current' = <<>>
    BY <2>1 DEF Current, L!TypeOK
  <2> QED BY <2>2, EmptySeq DEF Ahead
<1> QED BY <1>1, <1>2, <1>3, <1>4, <1>5, <1>6, <1>7 DEF L!Next, L!Scan

LEMMA KnownNext ==
  ASSUME L_LateRotation = FALSE, L!TypeOK, Whole, Known, L!Next PROVE Known'
<1> USE DEF L!None
<1>1. ASSUME L!Stat PROVE Known'
  <2>1. /\ l_path # L!None /\ l_id' = l_path /\ UNCHANGED <<l_files, l_path, l_sizes>>
        /\ l_offset' = IF l_id # L!None /\ l_id # l_path THEN 0 ELSE l_offset
    BY <1>1 DEF L!Stat, L!log, L!Replaced
  <2>2. Len(Current) \in Nat /\ l_offset \in Nat \cup {-1}
    BY <2>1, CurrentType DEF L!TypeOK, L!Unseen
  <2>3. \A i \in DOMAIN Current : Current[i].rec \in 1..Len(l_sizes)
    BY <2>1 DEF Whole, WholeFile
  <2>4. l_offset' > Len(Current) => l_start'[1] = l_path /\ l_start'[2] >= l_offset'
    <3>1. CASE l_id # l_path
      <4>1. l_start' = <<l_path, IF l_id # L!None THEN 0 ELSE L!From>>
        BY <1>1, <3>1 DEF L!Stat, L!Replaced
      <4>2. l_id # L!None => l_offset' = 0
        BY <2>1, <3>1
      <4>3. l_id = L!None => l_offset' = l_offset
        BY <2>1
      <4> QED BY <2>2, <4>1, <4>2, <4>3 DEF L!From, L!Unseen
    <3>2. CASE l_id = l_path
      BY <1>1, <2>1, <3>2 DEF L!Stat, Known, Current
    <3> QED BY <3>1, <3>2
  <2> QED BY <2>1, <2>3, <2>4 DEF Known, Current
<1>2. ASSUME L!Gone \/ L!Remove PROVE Known'
  BY <1>2 DEF L!Gone, L!Remove, L!log, Known
<1>3. ASSUME L!SkipToEnd PROVE Known'
  <2>1. /\ l_path # L!None /\ l_id = l_path /\ UNCHANGED <<l_files, l_path, l_sizes, l_id>>
        /\ l_offset' = Len(Current)
    BY <1>3 DEF L!SkipToEnd, L!log, Known, Current
  <2>2. Len(Current) \in Nat
    BY <2>1, CurrentType
  <2>3. \A i \in DOMAIN Current : Current[i].rec \in 1..Len(l_sizes)
    BY <2>1 DEF Whole, WholeFile
  <2> QED BY <2>1, <2>2, <2>3 DEF Known, Current
<1>4. ASSUME L!ReadLines PROVE Known'
  <2>1. /\ l_path # L!None /\ l_id = l_path /\ UNCHANGED <<l_files, l_path, l_sizes, l_id>>
        /\ PollFrom \in 0..Len(Current) /\ l_offset' \in PollFrom..Len(Current)
    BY <1>4, ReadLinesFacts DEF Known
  <2>2. l_offset' <= Len(Current)
    BY <2>1, CurrentType
  <2>3. \A i \in DOMAIN Current : Current[i].rec \in 1..Len(l_sizes)
    BY <2>1 DEF Whole, WholeFile
  <2> QED BY <2>1, <2>2, <2>3 DEF Known, Current
<1>5. ASSUME NEW size \in L_Sizes, L!WriteUnit(size) PROVE Known'
  <2>1. /\ l_path # L!None /\ l_path' = l_path /\ \A f \in L!Files : f # l_path => l_files'[f] = l_files[f]
        /\ Len(Current') = Len(Current) + 1 /\ DOMAIN Current' = 1..(Len(Current) + 1)
        /\ \A i \in DOMAIN Current : Current'[i] = Current[i]
        /\ Current'[Len(Current) + 1].rec = Len(l_sizes')
        /\ l_open = 0 => Len(l_sizes') = Len(l_sizes) + 1
        /\ l_open # 0 => l_sizes' = l_sizes
        /\ UNCHANGED <<l_id, l_offset, l_pc, l_start>>
    BY <1>5, WriteUnitFacts
  <2>2. /\ Len(Current) \in Nat /\ DOMAIN Current = 1..Len(Current) /\ Len(l_sizes) \in Nat
        /\ l_offset \in Nat \cup {-1}
    BY <2>1, CurrentType, LenProperties DEF L!TypeOK, L!Unseen
  <2>3. Len(l_sizes') \in Nat /\ Len(l_sizes') # 0 /\ Len(l_sizes) <= Len(l_sizes')
    BY <2>1, <2>2 DEF Whole
  <2>4. \A i \in DOMAIN Current : Current[i].rec \in 1..Len(l_sizes)
    BY <2>1 DEF Whole, WholeFile
  <2>5. ASSUME l_id # L!None
        PROVE  /\ l_offset > Len(l_files'[l_id]) => l_start[1] = l_id /\ l_start[2] >= l_offset
               /\ \A i \in DOMAIN l_files'[l_id] : l_files'[l_id][i].rec \in 1..Len(l_sizes')
    <3>1. CASE l_id = l_path
      <4>1. l_files'[l_id] = Current'
        BY <2>1, <3>1 DEF Current
      <4>2. l_offset > Len(Current) => l_start[1] = l_id /\ l_start[2] >= l_offset
        BY <2>5, <3>1 DEF Known, Current
      <4> HIDE DEF Current
      <4>3. PICK d : d = Current'
        OBVIOUS
      <4>4. ASSUME NEW i \in DOMAIN d PROVE d[i].rec \in 1..Len(l_sizes')
        BY <2>1, <2>2, <2>3, <2>4, <4>3, <4>4
      <4> QED BY <2>1, <2>2, <4>1, <4>2, <4>3, <4>4
    <3>2. CASE l_id # l_path
      <4>1. l_files'[l_id] = l_files[l_id]
        BY <2>1, <2>5, <3>2 DEF L!TypeOK
      <4>2. /\ l_offset > Len(l_files[l_id]) => l_start[1] = l_id /\ l_start[2] >= l_offset
            /\ \A i \in DOMAIN l_files[l_id] : l_files[l_id][i].rec \in 1..Len(l_sizes)
        BY <2>5 DEF Known
      <4> QED BY <2>2, <2>3, <4>1, <4>2
    <3> QED BY <3>1, <3>2
  <2> QED BY <2>1, <2>5 DEF Known
<1>6. ASSUME NEW f \in L!Files, L!Replace(f) PROVE Known'
  BY <1>6 DEF L!Replace, Known
<1>7. ASSUME L!Truncate PROVE Known'
  <2>1. /\ l_path \in L!Files /\ l_files' = [l_files EXCEPT ![l_path] = <<>>]
        /\ l_start' = IF l_id = l_path THEN <<l_path, L!From>> ELSE l_start
        /\ UNCHANGED <<l_path, l_sizes, l_id, l_offset, l_pc>>
    BY <1>7, CurrentType DEF L!Truncate
  <2>2. l_files'[l_path] = <<>> /\ \A f \in L!Files : f # l_path => l_files'[f] = l_files[f]
    BY <2>1 DEF L!TypeOK
  <2>3. L!From >= l_offset
    BY DEF L!TypeOK, L!From, L!Unseen
  <2>4. CASE l_id = l_path
    <3>1. l_start'[1] = l_id /\ l_start'[2] >= l_offset
      BY <2>1, <2>3, <2>4
    <3> QED BY <2>1, <2>2, <2>4, <3>1, EmptySeq DEF Known
  <2>5. CASE l_id # l_path
    BY <2>1, <2>2, <2>5 DEF Known, L!TypeOK
  <2> QED BY <2>4, <2>5
<1> QED BY <1>1, <1>2, <1>3, <1>4, <1>5, <1>6, <1>7 DEF L!Next, L!Scan

LEMMA OnceEachNext ==
  ASSUME L!TypeOK, Ahead, Known, L!OnceEach, L!Next PROVE L!OnceEach'
<1>1. CASE UNCHANGED l_reads
  BY <1>1 DEF L!OnceEach
<1>2. ASSUME L!ReadLines PROVE L!OnceEach'
  <2>1. l_reads' = [r \in 1..L_MaxRecords |-> IF r \in PollHere.recs THEN l_reads[r] + 1 ELSE l_reads[r]]
    BY <1>2, ReadLinesFacts
  <2>2. ASSUME NEW r \in 1..L_MaxRecords PROVE l_reads'[r] <= 1
    <3>1. CASE r \in PollHere.recs
      <4>1. PICK i \in DOMAIN Current : EndAt(Current, i) /\ Current[i].rec = r /\ PollFrom < i
        BY <1>2, <3>1, PollRecords
      <4>2. l_reads[r] = 0
        BY <1>2, <4>1, PollIsAhead
      <4> QED BY <2>1, <3>1, <4>2
    <3>2. CASE r \notin PollHere.recs
      BY <2>1, <3>2 DEF L!OnceEach
    <3> QED BY <3>1, <3>2
  <2> QED BY <2>2 DEF L!OnceEach
<1>3. ASSUME L!Stat \/ L!Gone \/ L!SkipToEnd PROVE UNCHANGED l_reads
  BY <1>3 DEF L!Stat, L!Gone, L!SkipToEnd
<1>4. ASSUME NEW size \in L_Sizes, L!WriteUnit(size) PROVE UNCHANGED l_reads
  BY <1>4 DEF L!WriteUnit
<1>5. ASSUME L!Remove \/ L!Truncate PROVE UNCHANGED l_reads
  BY <1>5 DEF L!Remove, L!Truncate
<1>6. ASSUME NEW f \in L!Files, L!Replace(f) PROVE UNCHANGED l_reads
  BY <1>6 DEF L!Replace
<1> QED BY <1>1, <1>2, <1>3, <1>4, <1>5, <1>6 DEF L!Next, L!Scan

\* A record no longer than the buffer that ends in what a poll passes is handed on.
LEMMA PollSkipsNone ==
  ASSUME L!TypeOK, Whole, L!ReadLines,
         NEW i \in DOMAIN Current, EndAt(Current, i), PollFrom < i, i <= l_offset', l_sizes[Current[i].rec] <= L_Buf
  PROVE  Current[i].rec \in PollHere.recs
<1>1. /\ PollFrom \in 0..Len(Current) /\ GoodPoll(Current, PollFrom, PollHere) /\ l_path # L!None
      /\ l_offset' = PollHere.to /\ l_offset' \in PollFrom..Len(Current)
  BY ReadLinesFacts
<1>2. Len(Current) \in Nat /\ DOMAIN Current = 1..Len(Current) /\ L_Buf \in Nat
  BY <1>1, CurrentType, LogAssumption DEF L!CursorAssumption
<1> DEFINE s == l_sizes[Current[i].rec]
<1>3. s \in Nat \ {0} /\ i - s \in Nat /\ Begins(Current, i - s)
  <2>1. WholeFile(Current, l_sizes, l_open)
    BY <1>1 DEF Whole
  <2>2. Current[i].rec \in 1..Len(l_sizes)
    BY <2>1 DEF WholeFile
  <2>3. s \in L_Sizes
    BY <2>2, ElementOfSeq DEF L!TypeOK
  <2>4. s \in Nat \ {0}
    BY <2>3, LogAssumption DEF L!CursorAssumption
  <2> QED BY <2>1, <2>4 DEF WholeFile
<1>4. SUFFICES ASSUME Current[i].rec \notin PollHere.recs PROVE FALSE
  OBVIOUS
<1>5. i \in (PollFrom + 1)..PollHere.to /\ Current[i].end
  BY <1>1, <1>2 DEF EndAt
<1>6. PICK y \in PollFrom..i : i - y > L_Buf /\ \A j \in (y + 1)..(i - 1) : ~Current[j].end
  BY <1>1, <1>4, <1>5 DEF GoodPoll
<1>7. s <= L_Buf
  OBVIOUS
<1> HIDE DEF s
<1>8. i - s # 0 /\ i - s \in (y + 1)..(i - 1)
  BY <1>1, <1>2, <1>3, <1>5, <1>6, <1>7
<1>9. EndAt(Current, i - s)
  BY <1>3, <1>8 DEF Begins
<1> QED BY <1>6, <1>8, <1>9 DEF EndAt

LEMMA NothingSkippedNext ==
  ASSUME L!TypeOK, Whole, Ahead, Known, L!NothingSkipped, L!Next PROVE L!NothingSkipped'
<1> USE DEF L!None
<1>1. ASSUME L!Stat PROVE L!NothingSkipped'
  <2>1. /\ l_path # L!None /\ l_id' = l_path /\ UNCHANGED <<l_files, l_path, l_sizes, l_reads>>
        /\ l_id # L!None /\ l_id # l_path => l_offset' = 0
        /\ ~(l_id # L!None /\ l_id # l_path) => l_offset' = l_offset
        /\ l_start' = IF l_id = l_path THEN l_start ELSE <<l_path, IF l_id # L!None THEN 0 ELSE L!From>>
    BY <1>1 DEF L!Stat, L!log, L!Replaced
  <2>2. DOMAIN Current = 1..Len(Current) /\ Len(Current) \in Nat /\ l_offset \in Nat \cup {-1}
    BY <2>1, CurrentType DEF L!TypeOK, L!Unseen
  <2>3. CASE l_id = l_path
    BY <2>1, <2>3 DEF L!NothingSkipped, L!Behind
  <2>4. CASE l_id # l_path
    <3>1. l_start'[1] = l_path /\ l_start'[2] >= l_offset' /\ l_start'[2] \in Nat /\ l_offset' \in Nat \cup {-1}
      BY <2>1, <2>2, <2>4 DEF L!From, L!Unseen
    <3>2. \A i \in DOMAIN Current : ~(i <= l_offset' /\ i > l_start'[2])
      BY <2>2, <3>1
    <3> QED BY <2>1, <3>1, <3>2 DEF L!NothingSkipped, L!Behind, Current
  <2> QED BY <2>3, <2>4
<1>2. ASSUME L!Gone \/ L!Remove PROVE L!NothingSkipped'
  BY <1>2 DEF L!Gone, L!Remove, L!log, L!NothingSkipped, L!Behind
<1>3. ASSUME L!SkipToEnd PROVE L!NothingSkipped'
  <2>1. /\ l_path # L!None /\ l_id = l_path /\ UNCHANGED <<l_files, l_path, l_id>>
        /\ l_offset' = Len(Current) /\ l_start' = <<l_path, Len(Current)>>
    BY <1>3 DEF L!SkipToEnd, L!log, Known, Current
  <2>2. DOMAIN Current = 1..Len(Current) /\ Len(Current) \in Nat
    BY <2>1, CurrentType
  <2>3. l_start'[1] = l_path /\ l_start'[2] = Len(Current)
    BY <2>1
  <2>4. \A i \in DOMAIN Current : ~(i > Len(Current))
    BY <2>2
  <2>5. L!Behind(l_id)' = {}
    BY <2>1, <2>3, <2>4 DEF L!Behind, Current
  <2> QED BY <2>5 DEF L!NothingSkipped
<1>4. ASSUME L!ReadLines PROVE L!NothingSkipped'
  <2>1. /\ l_path # L!None /\ l_id = l_path /\ UNCHANGED <<l_files, l_path, l_id, l_sizes>>
        /\ PollFrom \in 0..Len(Current) /\ l_offset' \in PollFrom..Len(Current)
        /\ l_reads' = [r \in 1..L_MaxRecords |-> IF r \in PollHere.recs THEN l_reads[r] + 1 ELSE l_reads[r]]
        /\ l_start' = IF L!From > Len(Current) THEN <<l_path, 0>> ELSE l_start
    BY <1>4, ReadLinesFacts DEF Known
  <2>2. /\ DOMAIN Current = 1..Len(Current) /\ Len(Current) \in Nat /\ l_offset \in Nat \cup {-1}
        /\ l_reads \in [1..L_MaxRecords -> Nat] /\ Len(l_sizes) \in Nat /\ L_MaxRecords \in Nat
    BY <2>1, CurrentType, LenProperties, LogAssumption DEF L!TypeOK, L!Unseen, L!CursorAssumption
  <2>3. ASSUME NEW i \in DOMAIN Current, i <= l_offset', l_start'[1] = l_id => i > l_start'[2],
               Current[i].end, l_sizes[Current[i].rec] <= L_Buf
        PROVE  l_reads'[Current[i].rec] >= 1
    <3>1. Current[i].rec \in 1..Len(l_sizes) /\ Len(l_sizes) <= L_MaxRecords
      BY <2>1 DEF Whole, WholeFile
    <3>2. Current[i].rec \in 1..L_MaxRecords
      BY <2>2, <3>1
    <3>3. l_reads[Current[i].rec] \in Nat
      BY <2>2, <3>2
    <3>4. CASE PollFrom < i
      <4>1. Current[i].rec \in PollHere.recs
        BY <1>4, <2>3, <3>4, PollSkipsNone DEF EndAt
      <4> QED BY <2>1, <3>2, <3>3, <4>1
    <3>5. CASE ~(PollFrom < i)
      <4>1. PollFrom # 0
        BY <2>2, <3>5
      <4>2. L!From <= Len(Current) /\ l_offset \in 0..Len(Current) /\ l_start' = l_start
        BY <2>1, <2>2, <4>1 DEF PollFrom, L!BeginAt, L!From, L!Unseen
      <4>3. i <= l_offset
        BY <1>4, <2>1, <2>2, <3>5, <4>2, PollIsAhead
      <4>4. i \in L!Behind(l_id)
        BY <2>1, <2>3, <4>2, <4>3 DEF L!Behind, Current
      <4>5. l_reads[Current[i].rec] >= 1
        BY <2>1, <2>3, <4>4 DEF L!NothingSkipped, Current
      <4> QED BY <2>1, <3>2, <3>3, <4>5
    <3> QED BY <3>4, <3>5
  <2> QED BY <2>1, <2>3 DEF L!NothingSkipped, L!Behind, Current
<1>5. ASSUME NEW size \in L_Sizes, L!WriteUnit(size) PROVE L!NothingSkipped'
  <2>1. /\ l_path # L!None /\ l_path' = l_path /\ \A f \in L!Files : f # l_path => l_files'[f] = l_files[f]
        /\ Len(Current') = Len(Current) + 1 /\ DOMAIN Current' = 1..(Len(Current) + 1)
        /\ \A i \in DOMAIN Current : Current'[i] = Current[i]
        /\ l_open = 0 => \A r \in 1..Len(l_sizes) : l_sizes'[r] = l_sizes[r]
        /\ l_open # 0 => l_sizes' = l_sizes
        /\ UNCHANGED <<l_id, l_offset, l_start, l_reads>>
    BY <1>5, WriteUnitFacts
  <2>2. /\ Len(Current) \in Nat /\ DOMAIN Current = 1..Len(Current) /\ l_offset \in Nat \cup {-1}
    BY <2>1, CurrentType DEF L!TypeOK, L!Unseen
  <2>3. SUFFICES ASSUME l_id # L!None, NEW i \in DOMAIN l_files'[l_id], i <= l_offset,
                        l_start[1] = l_id => i > l_start[2], l_files'[l_id][i].end,
                        l_sizes'[l_files'[l_id][i].rec] <= L_Buf
                 PROVE  l_reads[l_files'[l_id][i].rec] >= 1
    BY <2>1 DEF L!NothingSkipped, L!Behind
  <2>4. i \in DOMAIN l_files[l_id] /\ l_files'[l_id][i] = l_files[l_id][i]
    <3>1. CASE l_id = l_path
      <4>1. l_files'[l_id] = Current' /\ l_files[l_id] = Current
        BY <2>1, <3>1 DEF Current
      <4>2. l_offset > Len(Current) => l_start[1] = l_id /\ l_start[2] >= l_offset
        BY <2>3, <4>1 DEF Known
      <4> HIDE DEF Current
      <4>3. i \in 1..(Len(Current) + 1) /\ l_start[2] \in Nat
        BY <2>1, <2>3, <4>1 DEF L!TypeOK
      <4>4. i \in DOMAIN Current
        BY <2>2, <2>3, <4>2, <4>3
      <4> QED BY <2>1, <4>1, <4>4
    <3>2. CASE l_id # l_path
      BY <2>1, <2>3, <3>2 DEF L!TypeOK
    <3> QED BY <3>1, <3>2
  <2>5. l_files[l_id][i].rec \in 1..Len(l_sizes)
    BY <2>3, <2>4 DEF Known
  <2>6. l_sizes'[l_files[l_id][i].rec] = l_sizes[l_files[l_id][i].rec]
    BY <2>1, <2>5
  <2>7. i \in L!Behind(l_id)
    BY <2>3, <2>4 DEF L!Behind
  <2> QED BY <2>3, <2>4, <2>6, <2>7 DEF L!NothingSkipped
<1>6. ASSUME NEW f \in L!Files, L!Replace(f) PROVE L!NothingSkipped'
  BY <1>6 DEF L!Replace, L!NothingSkipped, L!Behind
<1>7. ASSUME L!Truncate PROVE L!NothingSkipped'
  <2>1. /\ l_path \in L!Files /\ l_files' = [l_files EXCEPT ![l_path] = <<>>]
        /\ l_start' = IF l_id = l_path THEN <<l_path, L!From>> ELSE l_start
        /\ UNCHANGED <<l_sizes, l_id, l_offset, l_reads>>
    BY <1>7, CurrentType DEF L!Truncate
  <2>2. l_files'[l_path] = <<>> /\ \A f \in L!Files : f # l_path => l_files'[f] = l_files[f]
    BY <2>1 DEF L!TypeOK
  <2>3. CASE l_id = l_path
    <3>1. DOMAIN l_files'[l_id] = {}
      BY <2>2, <2>3, EmptySeq
    <3> QED BY <2>1, <3>1 DEF L!NothingSkipped, L!Behind
  <2>4. CASE l_id # l_path
    BY <2>1, <2>2, <2>4 DEF L!NothingSkipped, L!Behind, L!TypeOK
  <2> QED BY <2>3, <2>4
<1> QED BY <1>1, <1>2, <1>3, <1>4, <1>5, <1>6, <1>7 DEF L!Next, L!Scan

LEMMA CursorInvInit ==
  L!Init => CursorInv
<1> SUFFICES ASSUME L!Init PROVE CursorInv
  OBVIOUS
<1>1. /\ l_files = [f \in L!Files |-> <<>>] /\ l_path = 0 /\ l_open = 0 /\ l_sizes = <<>> /\ l_truncations = 0
      /\ l_id = 0 /\ l_offset \in Nat \cup {-1} /\ l_pc = "idle" /\ l_start = <<0, 0>> /\ l_reads = [r \in 1..L_MaxRecords |-> 0]
  BY LogAssumption DEF L!Init, L!None, L!Unseen, L!CursorAssumption
<1>2. L!TypeOK
  <2>1. <<>> \in Seq(L!Unit) /\ <<>> \in Seq(L_Sizes)
    BY EmptySeq
  <2> QED BY <1>1, <2>1 DEF L!TypeOK, L!None, L!Unseen
<1>3. Whole
  <2>1. Len(l_sizes) = 0 /\ L_MaxRecords \in Nat
    BY <1>1, EmptySeq, LogAssumption DEF L!CursorAssumption
  <2> QED BY <1>1, <2>1 DEF Whole, L!None
<1>4. Unread /\ Ahead /\ Known
  BY <1>1 DEF Unread, Ahead, Known, L!None, L!Unseen
<1>5. ReadOnce
  BY <1>1 DEF ReadOnce, L!OnceEach, L!NothingSkipped, L!None
<1> QED BY <1>2, <1>3, <1>4, <1>5 DEF CursorInv

LEMMA CursorInvNext ==
  ASSUME L_LateRotation = FALSE, CursorInv, [L!Next]_l_vars PROVE CursorInv'
<1>1. CASE L!Next
  BY <1>1, CursorTypesNext, WholeNext, UnreadNext, AheadNext, KnownNext, OnceEachNext, NothingSkippedNext
  DEF CursorInv, ReadOnce
<1>2. CASE UNCHANGED l_vars
  BY <1>2 DEF l_vars, CursorInv, L!TypeOK, Whole, Unread, Ahead, Known, Current, ReadOnce, L!OnceEach,
     L!NothingSkipped, L!Behind
<1> QED BY <1>1, <1>2

\* Whatever is written, rotated and truncated, and however the polls fall between (scanRule,
\* readNewLines): no line is handed on twice, and of the file last seen every whole line behind the cursor
\* was, unless it is oversized, was there when the cursor was set at first sight or by an older
\* version, or was written to a truncated log before a poll saw it shorter.  What a rotated file had
\* left unread is not claimed: no poll sees it again.  The file must not be replaced between fileID and
\* os.Open.  The buffer, the limit of a poll and the records may be of any size.
THEOREM ReadOnceHolds ==
  ASSUME L_LateRotation = FALSE PROVE PartsSpec => []ReadOnce
<1>1. PartsInit => CursorInv
  BY CursorInvInit DEF PartsInit
<1>2. CursorInv /\ [PartsNext]_all => CursorInv'
  BY CursorInvNext, StepsOfParts
<1>3. CursorInv => ReadOnce
  BY DEF CursorInv
<1> QED BY <1>1, <1>2, <1>3, PTL DEF PartsSpec

\* The three parts are of their types, whatever the constants: with rotation between fileID and
\* os.Open, too.
THEOREM PartsTypeOKHolds == PartsSpec => []PartsTypeOK
<1>1. PartsInit => Init /\ L!TypeOK
  BY CursorInvInit DEF PartsInit, CursorInv
<1>2. L!TypeOK /\ [PartsNext]_all => L!TypeOK'
  <2>1. ASSUME L!TypeOK, UNCHANGED l_vars PROVE L!TypeOK'
    BY <2>1 DEF l_vars, L!TypeOK
  <2> QED BY <2>1, CursorTypesNext, StepsOfParts
<1>3. PartsSpec => []L!TypeOK
  BY <1>1, <1>2, PTL DEF PartsSpec
<1>4. [PartsNext]_all => [Next]_vars
  BY StepsOfParts
<1>5. PartsSpec => Spec
  BY <1>1, <1>4, PTL DEF PartsSpec, Spec
<1>6. ChainInv => N!TypeOK
  BY DEF ChainInv, ChainTypes
<1> QED BY <1>3, <1>5, <1>6, TypeCorrect, ChainInvariant, PTL DEF PartsTypeOK
=============================================================================
