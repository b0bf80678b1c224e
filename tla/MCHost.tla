------------------------------- MODULE MCHost -------------------------------
(* An instance of Host for TLC.                                             *)
EXTENDS Host, Sequences, TLC

-----------------------------------------------------------------------------
\* secure-ssh of two configurations, of which sshd refuses one.
MCBody      == "s1" :> "good" @@ "s2" :> "refused"
MCOriginals == {<<"own">>}
MCCrews     == {{"s1", "s2"}, {"k1"}}

\* Three recipients; the senders' domains that have a preset.
MCRecipients == <<"ann", "bob", "cid">>
MCPresets    == "qq" :> 465 @@ "gmail" :> 587
MCPresetHost == "qq" :> "smtp.qq" @@ "gmail" :> "smtp.gmail"

\* A path that is not written cleanly.
MCSpelled == "./a" :> "a"

-----------------------------------------------------------------------------
\* Configuration files: paths, names and thresholds, the regions of one rule, two rules.

Key(place, pad) == [place |-> place, pad |-> pad]

\* Home lies in the land; "home" and "home city" contain one another.
Near  == {<<"home", "home city">>, <<"home city", "home">>}
Where == {{"home city", "land"}, {"land"}, {"home"}}

Plain   == {Key("home", "none"), Key("land", "none"), Key("home city", "none"), Key("", "none"), Key("land", "left")}
Maps(K) == UNION {[S -> {0, 10, 20}] : S \in SUBSET K}

Entry(name, attempts, reset, regions) ==
    [name |-> name, attempts |-> attempts, reset |-> reset, regions |-> regions]
Names   == {Absent, "", "rule", "web"}
Small   == {Absent, [k \in {Key("land", "left")} |-> 10]}
Entries(regions) == {Entry(n, a, r, m) : n \in Names, a \in {Absent, 0, 3}, r \in {Absent, TRUE}, m \in regions}

File(state, queue, key, rules, sound) ==
    [state |-> state, queue |-> queue, key |-> key, rules |-> rules, sound |-> sound]
Locals == {Absent, "", "a", "./a", "state.json"}
Heads == {File(s, q, Absent, <<>>, ok) :
            s \in Locals, q \in Locals, ok \in BOOLEAN}
With(key, lists) == {File(Absent, Absent, key, l, TRUE) : l \in lists}

\* The regions of distinct names; two rules.
NoClash(m) == \A k, l \in DOMAIN m : k.place = l.place => k = l
Apart == {m \in Maps(Plain) : NoClash(m)}
Lists == {<<>>} \cup {<<Entry("web", 3, Absent, m)>> : m \in Apart}
                \cup {<<a, b>> : a \in Entries(Small), b \in Entries({Absent})}
Usual == Heads \cup With("rules", Lists)
=============================================================================
