------------------------------ MODULE MCDaemon ------------------------------
(* Instances of Daemon for TLC: the values of the constants that are not literals. *)
EXTENDS Daemon

PerRule(n)        == [r \in Rules |-> n]
PerRuleAndIP(n)   == [r \in Rules |-> [ip \in IPs |-> n]]
One == PerRule(1)
Two == PerRule(2)
Ten == PerRule(10)
Zero == PerRule(0)
FirstFailure  == PerRuleAndIP(1)
SecondFailure == PerRuleAndIP(2)

Fail(ip, u) == [kind |-> "fail", ip |-> ip, user |-> u]
Success(ip) == [kind |-> "success", ip |-> ip, user |-> NoUser]
FailLines   == {Fail(ip, u) : ip \in IPs, u \in Users \cup {NoUser}}
UserLines   == {Fail(ip, u) : ip \in IPs, u \in Users} \cup {Success(ip) : ip \in IPs}
AllLines    == FailLines \cup {Success(ip) : ip \in IPs}

Config(dry, ignore, act) == [dryRun |-> dry, ignore |-> ignore, action |-> act]
AllAuto   == [r \in Rules |-> "auto"]
OneIs(r, a) == [AllAuto EXCEPT ![r] = a]
OneOf(acts) == {OneIs(r, a) : r \in Rules, a \in acts}

Production      == {Config(FALSE, {}, AllAuto)}
WithWhitelist   == {Config(FALSE, i, AllAuto) : i \in {{}, IPs}}
WithNotify      == Production \cup {Config(FALSE, {}, a) : a \in OneOf({"notify"})}
WithCustom      == {Config(FALSE, i, a) : i \in {{}, IPs}, a \in OneOf({"custom", "auto"})}
NotifyOnEvents  == {Config(FALSE, {}, [r \in Rules |-> IF r \in EventLogs THEN "notify" ELSE "auto"])}
EveryKind       == {Config(d, i, a) : d \in BOOLEAN, i \in {{}, IPs}, a \in OneOf({"auto", "notify"})}
                     \cup {Config(FALSE, {}, a) : a \in OneOf({"custom", "absent"})}
=============================================================================
